SPECIFICATION FairSpec
CONSTANTS
  Row = {1}
  Task = {1, 2, 3}
  Commands = {"start", "stop", "restart", "retry keys", "expiry stop", "expiry delete"}
  MaxRequests = 1
  MaxFaults = 1
  MaxMeddling = 1
  None = None
PROPERTY
  LedgerConverges
CHECK_DEADLOCK FALSE
