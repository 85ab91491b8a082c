SPECIFICATION Spec
CONSTANTS
  Sync = {1, 12}
  MaxFaults = 0
INVARIANT RunHasItsKey
CHECK_DEADLOCK FALSE
