CONSTANTS
  Workers = {w1}
  Units = {u1}
  InitialUnits = {"ready", "audit"}
  MaxLeases = 2
  MaxAttempts = 3
  MaxTries = 2
  Cap = 2
  Maximal = TRUE
  Outcomes = {"succeeded", "blocked"}
  MaxTroubles = 0
  GrantLosses = {"revoked"}
  None = None
SPECIFICATION Spec
INVARIANT HumanTestIsIntegrated
CHECK_DEADLOCK FALSE
