CONSTANTS
  User = {alice, root}
  Admin = {root}
  Node = {n1}
  Gpu = {g1, g2}
  NodeOf <- MCNodeOf
  SharingLimit <- One
  MaxContainers <- Two
  MaxRunning <- Two
  GpuQuota <- OneEach
  ContainerQuota <- ThreeOrNone
  Container = {c1, c2, c3}
  Thread = {t1, t2}
  Wanted = {0, 1}
  MaxChanges = 2
  None = None
SPECIFICATION Spec
SYMMETRY Symmetries
INVARIANTS TypeOK SharingWithinLimit WithinQuota WithinNode
CHECK_DEADLOCK FALSE
