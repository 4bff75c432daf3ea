SPECIFICATION Spec
CONSTANTS
  Exports = {TRUE, FALSE}
  MaxNoise = 2
INVARIANTS NothingAfterErrors SuccessMeansDone CleanEnd
PROPERTIES Ends
CHECK_DEADLOCK FALSE
