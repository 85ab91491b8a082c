SPECIFICATION Spec
CONSTANTS
  Task = {1, 2}
  Slow = {1, 2}
  Reporting = {}
  Delayed = {}
  Owned = {}
  Creates = {}
  Blocking = {}
  Retryable = {}
  Lease = 1
  Delay = 0
  MaxFaults = 0
  None = None
INVARIANT
  AtMostOneSlowTask
