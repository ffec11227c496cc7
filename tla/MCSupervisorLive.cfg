SPECIFICATION FairSpec
CONSTANTS
  Daemons = {d1}
  MaxRuns = 2
  MaxPids = 3
  MaxRecoveries = 1
  MaximumUses = 3
  MaxFaults = 1
  MaxDeaths = 1
  GrantLosses = {}
  ConcurrentStarts = FALSE
  None = None
PROPERTIES
  OrphanIsResolved
CHECK_DEADLOCK FALSE
