SPECIFICATION FairSpec
CONSTANTS
  Sync = {1, 2}
  MaxFaults = 2
INVARIANTS
  TypeOK
  KeyIsLookedAfter
  RunHasItsKey
PROPERTIES
  SettledStays
  SyncsEnd
  KeysGo
CHECK_DEADLOCK FALSE
