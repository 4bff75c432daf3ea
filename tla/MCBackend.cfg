SPECIFICATION FairSpec
CONSTANTS
  Queries = 3
  MaxNoise = 2
INVARIANTS AnswersMatch FilePresent FilesDeleted
PROPERTIES QueriesReturn ChildEnds
CHECK_DEADLOCK FALSE
