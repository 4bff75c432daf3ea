SPECIFICATION FairSpec
CONSTANTS
  Instances = {"i1", "i2"}
  Builds = {"b1", "b2"}
  Crashes = TRUE
INVARIANTS OneAtATime DependenciesInPlace
PROPERTIES AsideKept PutsBack WindowLeft
CHECK_DEADLOCK FALSE
