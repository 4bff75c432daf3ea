SPECIFICATION FairSpec
CONSTANTS
  DefIds <- MCDefIds
  HirIds <- MCHirIds
  Names <- MCNames
  Numeric <- MCNumeric
  Underscore <- MCUnderscore
  DefName <- MCDefName
  HirName <- MCHirName
  ParamNames <- MCParamNames
  RetName = "ret"
  NoDef = "NoDef"
  MaxCounter = 100
  Crates <- MCCrates
INVARIANTS TypeOK SupportedNeverPanics NoReentry SortsComplete FunctionsClosed SpecsAttached VariablesInScope
PROPERTIES UsesMapping Termination
CHECK_DEADLOCK FALSE
