SPECIFICATION MCSpec
CONSTANTS
  Depth = 2
  File = {"f"}
  Sub = "sub"
  Quota = 1
  Scan = {1}
  Thread = {1, 2}
  Rule = {1, 2, 3}
  Limit = 2
  Day = 2
  Days = 2
  Interval = 2
  Retention = 2
  Resource = {"a", "b"}
  Exported = {"a"}
  Port = {1, 2, 3}
  HostPort = {h1, h2}
  NodePort = {n1, n2}
  Version = {1, 2}
  Build = 2
  MaxCuts = 1
  Task_E = {1, 2}
  MaxEvents = 1
  Timeout = 2
  Spacing = 1
  Ttl = 3
  Container = {1, 2}
  Requests = 2
  MaxTime = 5
  MaxFaults = 1
  MaxAsked_D = 2
  MaxAsked_S = 3
  MaxAsked_V = 1
  MaxAsked_M = 2
  MaxAsked_P = 3
SYMMETRY Symmetry
INVARIANTS
  TypeOK
  RowsAreTrue
  UploadsWithinQuota
  DailyRunsDaily
  OncePerDay
  KeptForRetention
  RowIsTrue
  DevicesFollowLists
  CacheIsTrue
  PortsLeadHome
  AccessSettles
  KeepsAWorkingVersion
  StatusTellsTheBinary
  NoLostWakeup
CHECK_DEADLOCK FALSE
