SPECIFICATION MCSpec
CONSTANTS
  u1 = u1
  u2 = u2
  WorkUnits = {u1, u2}
  Runs = {r1, r2}
  Leases = {l1, l2, l3}
  Grants = {g1}
  Merges = {m1}
  Decisions = {d1, d2}
  Entries = {e1}
  None = None
  Presets = {"unattended_extended"}
  Batches <- OneOrBoth
  InitialRisk <- HighRisk
  MaximumRisk = 3
  InitialStatus = "verification"
  Statuses = {"done"}
  Dimensions = {"integration_branch_merge"}
  RequestedCeilings <- Requests
  ParallelCaps = {1, 2}
  MaximumUses = 1
  EntryUses = 1
  MaximumSpend = 2
  MaximumAttempts = 3
  AttemptIds = {1, 2, 3}
  Steps = {"remediation"}
  Roles = {"backend-developer"}
  Outcomes = {"failed", "timed_out"}
  Summaries = {"x"}
  Costs = {1}
  MaximumRemediation = 2
SYMMETRY Names
CONSTRAINT Within
INVARIANTS ActiveLeaseIsHeld UsesAreConserved BudgetIsAccounted
PROPERTIES EndedLeaseIsSilent UnusableGrantFreezesRun NothingLoosens VerdictIsFinal
CHECK_DEADLOCK FALSE
