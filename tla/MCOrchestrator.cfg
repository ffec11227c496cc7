CONSTANTS
  Workers = {w1, w2}
  Units = {u1}
  InitialUnits = {"ready", "audit"}
  MaxLeases = 2
  MaxAttempts = 3
  MaxTries = 2
  Cap = 2
  Maximal = TRUE
  Outcomes = {"succeeded", "blocked"}
  MaxTroubles = 2
  GrantLosses = {"revoked"}
  None = None
SPECIFICATION Spec
INVARIANTS RecordedIsMerged
PROPERTIES AdvanceIsEarned CompletedIsReviewed 
CHECK_DEADLOCK FALSE
