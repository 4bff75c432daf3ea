SPECIFICATION MappingSpec
CONSTANTS
  DefIds = {"d1", "d2", "d3"}
  HirIds = {"h1", "h2"}
  Names <- MCNames
  Numeric <- MCNumeric
  Underscore <- MCUnderscore
  DefName <- MCDefName
  HirName <- MCHirName
  MaxCounter = 6
INVARIANTS UniqueGlobalIds UniqueNamedIds
PROPERTIES ImplementsByGlobalId ImplementsByName
CHECK_DEADLOCK FALSE
