SPECIFICATION Spec
CONSTANTS
  DefIds <- MCDefIds
  HirIds <- MCHirIds
  Names <- MCNames
  Numeric <- MCNumeric
  Underscore <- MCUnderscore
  DefName <- MCDefName
  HirName <- MCHirName
  ParamNames <- MCParamNames
  RetName = "ret"
  NoDef = "NoDef"
  MaxCounter = 100
  Crates <- NestedCrates
INVARIANTS SpecGenericsMatch
CHECK_DEADLOCK FALSE
