SPECIFICATION FairSpec
CONSTANTS
  Row = {1, 2}
  Task <- MCTask
  Commands = {"delete", "force delete", "retry"}
  MaxRequests = 2
  MaxFaults = 1
  MaxMeddling = 0
  None = None
INVARIANTS
  TypeOK
  TransitionHasItsTask
PROPERTIES
  RemovalIsClean
  TransitionsEnd
CHECK_DEADLOCK FALSE
