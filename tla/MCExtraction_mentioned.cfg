SPECIFICATION Spec
CONSTANTS
  DefIds <- MCDefIds
  HirIds <- MCHirIds
  Names <- MCNames
  Numeric <- MCNumeric
  Underscore <- MCUnderscore
  DefName <- MCDefName
  HirName <- MCHirName
  ParamNames <- MCParamNames
  RetName = "ret"
  NoDef = "NoDef"
  MaxCounter = 100
  Crates <- MentionedCrates
INVARIANTS RegisteredOnce
CHECK_DEADLOCK FALSE
