SPECIFICATION Spec
CONSTANTS
  Row = {1}
  Task = {1, 2, 3, 4}
  Commands = {"stop", "expiry delete"}
  MaxRequests = 1
  MaxFaults = 0
  MaxMeddling = 0
  None = None
INVARIANT
  ExpiryDeletes
CHECK_DEADLOCK FALSE
