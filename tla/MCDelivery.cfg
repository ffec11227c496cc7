CONSTANTS
  Starters = {daemon}
  Promoters = {worker}
  Keys = {k1}
  MaxItems = 2
  MaxEpoch = 2
  MaxAttempts = 1
  MaxEvents = 2
  MaxCrashes = 1
  SoleBreaker = TRUE
  None = None
  Orphan = Orphan
  Documents <- MCDocuments
  Settings <- MCSettings
  Dispatchers = {w1, w2}
  MaxVersion = 1
  MaxMails = 2
  MaxMishaps = 1
  Nobody = Nobody
  Gone = Gone
  Submitters = {cmd}
  Flushers = {cli}
  MaxExports = 2
  MaxTries = 2
  MaxTrouble = 1
  MaxChanges = 1
SPECIFICATION DeliverySpec
INVARIANTS OneOpenItemPerKey ToldOnce KeptUntilReceived
PROPERTIES StaleLockIsBroken QueuedIsTold OutboxDrains
CHECK_DEADLOCK FALSE
