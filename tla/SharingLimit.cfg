CONSTANTS
  User = {alice, root}
  Admin = {root}
  Node = {n1}
  Gpu = {g1}
  NodeOf <- MCNodeOf
  SharingLimit <- One
  MaxContainers <- Two
  MaxRunning <- Two
  GpuQuota <- TwoEach
  ContainerQuota <- ThreeOrNone
  Container = {c1, c2}
  Thread = {t1}
  Wanted = {1}
  MaxChanges = 3
  None = None
SPECIFICATION Spec
INVARIANT SharingLimitHolds
CHECK_DEADLOCK FALSE
