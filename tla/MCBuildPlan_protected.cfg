SPECIFICATION Spec
CONSTANTS
  Instances = {"i1"}
  Builds = {"b1"}
  Crashes = FALSE
INVARIANTS TargetProtected
CHECK_DEADLOCK FALSE
