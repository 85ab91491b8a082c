SPECIFICATION Spec
CONSTANTS
  Row = {1}
  Task = {1, 2, 3}
  Commands = {"retry"}
  MaxRequests = 1
  MaxFaults = 1
  MaxMeddling = 0
  None = None
INVARIANT
  RunningHasItsDevices
CHECK_DEADLOCK FALSE
