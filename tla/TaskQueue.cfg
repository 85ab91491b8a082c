SPECIFICATION FairSpec
CONSTANTS
  Task <- MCTask
  Slow <- MCSlow
  Reporting <- MCReporting
  Delayed <- MCDelayed
  Owned <- MCOwned
  Creates <- MCCreates
  Blocking <- MCBlocking
  Retryable <- MCRetryable
  Lease = 1
  Delay = 1
  MaxFaults = 2
  None = None
INVARIANTS
  TypeOK
  StartedInOrder
  NothingRunsUnclaimed
PROPERTIES
  LeaseHonoured
  SettledIsFinal
  ImplementsLedger
  EveryTaskSettles
