SPECIFICATION FairSpec
CONSTANTS
  Resource = {1, 2}
  Task = {1, 2, 3, 4, 5, 6, 7}
  Repo = {A, B}
  MaxRequests = 2
  MaxFaults = 1
  Layout = Layout
  Legacy = Legacy
  Link = Link
  Own = Own
  None = None
INVARIANTS
  TypeOK
  StatusHasItsTask
  OkIsTrue
PROPERTY RequestsEnd
CHECK_DEADLOCK FALSE
