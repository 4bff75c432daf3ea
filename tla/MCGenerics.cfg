SPECIFICATION Spec
CONSTANTS
  Defs <- MCDefs
  Params <- MCParams
  NoDef = "no_def"
  Lifetimes = {"'a", "'a2"}
  Impls = {"impl"}
  Own <- MCOwn
  Parent <- MCParent
  Bounds <- MCBounds
  Uses <- MCUses
  Specs <- MCSpecs
INVARIANTS SupportedNeverPanics ParametersListed TypesClosed ArgumentsComplete
CHECK_DEADLOCK FALSE
