CONSTANTS
  p1 = p1
  p2 = p2
  x1 = x1
  x2 = x2
  inside = inside
  outside = outside
  control = control
  Shared = Shared
  None = None
  Orphan = Orphan
  Procs = {p1, p2}
  Execs = {x1, x2}
  Paths = {inside, outside, control}
  Scoped = {inside}
  Control = {control}
  Deployments <- MCDeployments
  SlowPromotions = FALSE
  MaxContent = 2
  MaxWrites = 2
  MaxStarts = 2
  MaxFaults = 1
SPECIFICATION Spec
INVARIANTS  AcceptedOnce
PROPERTIES AcceptedIsInspected
