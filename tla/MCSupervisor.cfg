SPECIFICATION Spec
CONSTANTS
  Daemons = {d1, d2}
  MaxRuns = 3
  MaxPids = 3
  MaxRecoveries = 1
  MaximumUses = 3
  MaxFaults = 1
  MaxDeaths = 1
  GrantLosses = {"expired"}
  ConcurrentStarts = FALSE
  None = None
INVARIANTS
  RecoveriesBounded
  
  OneActiveRun
  HardStopIsFinal
CHECK_DEADLOCK FALSE
