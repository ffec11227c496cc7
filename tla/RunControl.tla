----------------------------- MODULE RunControl -----------------------------
(***************************************************************************)
(* A Run and the workers that serve it: authorization grants, worker       *)
(* leases and their fencing epochs, checkpoints, integration merges, menu  *)
(* decisions, execution ceilings, risk escalation and the closing of the   *)
(* Run.                                                                    *)
(*                                                                         *)
(* One step is one accepted Core command.  The Gateway runs the            *)
(* authorization and the handler of a command under the project lock       *)
(* (module GatewayJournal), so a command is atomic here; what interleaves  *)
(* is the commands of workers that may be stalled, replaced or revoked,    *)
(* of the reliability controller, and of humans.  A worker keeps using the *)
(* lease it was given, so the commands of a worker are those of a lease    *)
(* that was issued at some time.                                           *)
(*                                                                         *)
(* Clocks are abstracted to what the code compares: whether a heartbeat is *)
(* younger than stalled_after_minutes (`fresh`), whether a grant has       *)
(* expired, whether a Run is older than maximum_duration_hours.            *)
(***************************************************************************)
EXTENDS Naturals, FiniteSets

CONSTANTS
  Runs, WorkUnits, Leases, Grants,
  Merges, Decisions,     \* ids of integration merges and of run decisions
  Entries,               \* entries of the decision menu a grant carries
  None,                  \* no lease, no run, no work unit, no grant
  Presets,               \* autonomy presets a Run is opened with
  Batches,               \* the work_unit_ids OpenRun is asked for
  InitialRisk,           \* InitialRisk[w]: risk class of w, 0 (low) .. 3 (critical)
  MaximumRisk,           \* eligibility.maximum_risk_class of the unattended policy
  InitialStatus,         \* status of every Work Unit at the start
  Statuses,              \* the statuses TransitionWorkUnit is asked for
  Dimensions,            \* ceiling dimensions the callers tighten
  RequestedCeilings,     \* the ceilings OpenRun is asked for, over the default
  ParallelCaps,          \* maximum_parallel_workers a Run is opened with
  MaximumUses, EntryUses, MaximumSpend, MaximumAttempts

CeilingStates == {"allowed", "conditional", "forbidden"}
Rank == [s \in CeilingStates |-> IF s = "allowed" THEN 0
                                 ELSE IF s = "conditional" THEN 1 ELSE 2]
AlwaysForbidden == {"protected_branch_merge", "staging_deployment", "production_action"}
CeilingDimensions ==
  AlwaysForbidden \cup {"analysis", "sandbox_implementation", "verification",
                        "integration_branch_merge"}
DefaultCeiling ==
  [d \in CeilingDimensions |->
     IF d \in AlwaysForbidden THEN "forbidden"
     ELSE IF d = "integration_branch_merge" THEN "conditional" ELSE "allowed"]

RunStatuses == {"pending", "active", "completed", "stopped", "failed"}
Stopping == {"stopped", "failed"}
RunTransitions ==
  [s \in RunStatuses |-> CASE s = "pending" -> {"active", "stopped"}
                           [] s = "active"  -> {"completed", "stopped", "failed"}
                           [] OTHER         -> {}]

UnitStatuses == {"draft", "ready", "in_progress", "waiting_decision", "blocked",
                 "verification", "review", "audit", "human_test",
                 "remediation_required", "done", "cancelled"}
Closed == {"done", "cancelled"}
UnitTransitions ==
  [s \in UnitStatuses |->
     CASE s = "draft" -> {"ready", "cancelled"}
       [] s = "ready" -> {"in_progress", "cancelled"}
       [] s = "in_progress" ->
            {"verification", "waiting_decision", "blocked", "ready", "cancelled"}
       [] s = "waiting_decision" -> {"in_progress", "blocked", "cancelled"}
       [] s = "blocked" -> {"in_progress", "ready", "cancelled"}
       [] s = "verification" ->
            {"review", "in_progress", "remediation_required", "done", "cancelled"}
       [] s = "review" ->
            {"audit", "verification", "remediation_required", "done", "cancelled"}
       [] s = "audit" ->
            {"human_test", "verification", "remediation_required", "done", "cancelled"}
       [] s = "human_test" -> {"done", "remediation_required", "verification", "cancelled"}
       [] s = "remediation_required" ->
            {"in_progress", "blocked", "verification", "cancelled"}
       [] OTHER -> {}]
ActiveCritical == {"in_progress", "verification", "review", "audit", "remediation_required"}

Critical == 3
Unattended == {"unattended_conservative", "unattended_extended",
               "unattended_maximal", "custom"}

ASSUME NoneAssumption ==
  None \notin Runs \cup WorkUnits \cup Leases \cup Grants \cup Merges \cup Decisions
ASSUME InputsAssumption ==
  /\ Presets \subseteq Unattended \cup {"supervised_copilots"}
  /\ Batches \subseteq SUBSET WorkUnits
  /\ InitialRisk \in [WorkUnits -> 0 .. Critical]
  /\ MaximumRisk \in 0 .. Critical
  /\ InitialStatus \in UnitStatuses
  /\ Statuses \subseteq UnitStatuses
  /\ Dimensions \subseteq CeilingDimensions
  /\ RequestedCeilings \subseteq [CeilingDimensions -> CeilingStates]
ASSUME LimitsAssumption ==
  /\ ParallelCaps \subseteq Nat
  /\ MaximumUses \in Nat /\ EntryUses \in Nat
  /\ MaximumSpend \in Nat /\ MaximumAttempts \in Nat

VARIABLES
  run,         \* run[r]: the Run document: status, preset, batch, cap, grant, revision, overdue
  held,        \* held[r][w]: entry of leases_by_work_unit: lease id and epoch
  ceiling,     \* ceiling[r][w][d]: execution_ceilings_by_work_unit
  lease,       \* lease[l]: the WorkerLease document
  unit,        \* unit[w]: status and risk class of the Work Unit document
  grant,       \* grant[g]: the RunAuthorizationGrant document
  decision,    \* decision[d]: the outcome of a recorded run decision
  checkpoint,  \* checkpoint[w]: the checkpoint document of w (one per Work Unit)
  merge        \* merge[m]: the lease that recorded integration merge m

vars == <<run, held, ceiling, lease, unit, grant, decision, checkpoint, merge>>

-----------------------------------------------------------------------------
(* Types *)

NoRun == [status |-> "none", preset |-> "supervised_copilots", batch |-> {}, cap |-> 0,
          grant |-> None, revision |-> 0, overdue |-> FALSE]
Run == [status : RunStatuses \cup {"none"},
        preset : Unattended \cup {"supervised_copilots"}, batch : SUBSET WorkUnits, cap : Nat,
        grant : Grants \cup {None}, revision : Nat, overdue : BOOLEAN]

NoEntry == [lease |-> None, epoch |-> 0]
Entry == [lease : Leases \cup {None}, epoch : Nat]

NoLease == [status |-> "none", run |-> None, wu |-> None, epoch |-> 0, fresh |-> FALSE]
WorkerLease == [status : {"none", "active", "superseded", "released", "revoked"},
                run : Runs \cup {None}, wu : WorkUnits \cup {None}, epoch : Nat,
                fresh : BOOLEAN]

NewGrant == [revoked |-> FALSE, expired |-> FALSE, uses |-> 0, spend |-> 0,
             menu |-> [e \in Entries |-> 0]]
Grant == [revoked : BOOLEAN, expired : BOOLEAN, uses : Nat, spend : Nat,
          menu : [Entries -> Nat]]

NoDecision == [run |-> None, entry |-> None, resolved |-> FALSE]

TypeOK ==
  /\ run \in [Runs -> Run]
  /\ held \in [Runs -> [WorkUnits -> Entry]]
  /\ ceiling \in [Runs -> [WorkUnits -> [CeilingDimensions -> CeilingStates]]]
  /\ lease \in [Leases -> WorkerLease]
  /\ unit \in [WorkUnits -> [status : UnitStatuses, risk : 0 .. Critical]]
  /\ grant \in [Grants -> Grant]
  /\ decision \in [Decisions -> [run : Runs \cup {None}, entry : Entries \cup {None},
                                 resolved : BOOLEAN]]
  /\ checkpoint \in [WorkUnits -> Leases \cup {None}]
  /\ merge \in [Merges -> Leases \cup {None}]

Init ==
  /\ run = [r \in Runs |-> NoRun]
  /\ held = [r \in Runs |-> [w \in WorkUnits |-> NoEntry]]
  /\ ceiling = [r \in Runs |-> [w \in WorkUnits |-> DefaultCeiling]]
  /\ lease = [l \in Leases |-> NoLease]
  /\ unit = [w \in WorkUnits |-> [status |-> InitialStatus, risk |-> InitialRisk[w]]]
  /\ grant = [g \in Grants |-> NewGrant]
  /\ decision = [d \in Decisions |-> NoDecision]
  /\ checkpoint = [w \in WorkUnits |-> None]
  /\ merge = [m \in Merges |-> None]

-----------------------------------------------------------------------------
(* State functions *)

Opened(r) == run[r].status # "none"
Issued(l) == lease[l].status # "none"
Leased(r) == {w \in WorkUnits : held[r][w] # NoEntry}

\* validate_execution_ceiling: three dimensions are pinned to forbidden.
ValidCeiling(c) == \A d \in AlwaysForbidden : c[d] = "forbidden"

\* unusable_reason: the grant is neither revoked nor expired.
Usable(g) == ~grant[g].revoked /\ ~grant[g].expired

\* Mutant: the grant's revocation and expiry are only checked by OpenRun.
AuthorizedByBudget(r) ==
  Opened(r) /\ ~run[r].overdue /\ grant[run[r].grant].spend < MaximumSpend

\* _authorize_existing_run_command: the grant bound to the Run still authorizes it.
Authorized(r) ==
  /\ Opened(r)
  /\ Usable(run[r].grant)
  /\ ~run[r].overdue
  /\ grant[run[r].grant].spend < MaximumSpend

\* Unattended handlers refuse a Run that is not active; supervised ones do not look.
Serving(r) == run[r].preset \in Unattended => run[r].status = "active"

\* Mutant: the epoch alone is compared, as is_epoch_current does.
EpochIsCurrent(r, w, l) == held[r][w].epoch = lease[l].epoch

\* is_epoch_current, and the lease id comparison beside it.
IsCurrent(r, w, l) == held[r][w] = [lease |-> l, epoch |-> lease[l].epoch]

\* A fencing-checked write of the worker that was issued lease l.
MayWrite(l) ==
  /\ Issued(l)
  /\ Authorized(lease[l].run)
  /\ Serving(lease[l].run)
  /\ IsCurrent(lease[l].run, lease[l].wu, l)

NextEpoch(r, w) == held[r][w].epoch + 1

\* The lease documents once the current lease of (r, w), if any, ends in status s.
Ended(r, w, s) ==
  IF held[r][w].lease = None THEN lease
  ELSE [lease EXCEPT ![held[r][w].lease].status = s]

\* The Run's leases_by_work_unit without its entry for w.
Dropped(r, w) == [held EXCEPT ![r][w] = NoEntry]

-----------------------------------------------------------------------------
(* Grants and the life of a Run *)

\* A pre-existing lapse of time: the grant reaches expires_at.
ExpireGrant(g) ==
  /\ ~grant[g].expired
  /\ grant' = [grant EXCEPT ![g].expired = TRUE]
  /\ UNCHANGED <<run, held, ceiling, lease, unit, decision, checkpoint, merge>>

RevokeGrant(g) ==
  /\ ~grant[g].revoked
  /\ grant' = [grant EXCEPT ![g].revoked = TRUE]
  /\ UNCHANGED <<run, held, ceiling, lease, unit, decision, checkpoint, merge>>

\* A lapse of time: the Run reaches maximum_duration_hours.
Overrun(r) ==
  /\ Opened(r) /\ ~run[r].overdue
  /\ run' = [run EXCEPT ![r].overdue = TRUE]
  /\ UNCHANGED <<held, ceiling, lease, unit, grant, decision, checkpoint, merge>>

\* A use of the grant is spent; the bound budget is not looked at here.
OpenRun(r, g, preset, batch, cap, status, requested) ==
  /\ ~Opened(r)
  /\ Usable(g) /\ grant[g].uses < MaximumUses
  /\ batch # {}
  /\ ValidCeiling(requested)
  /\ run' = [run EXCEPT ![r] = [status |-> status, preset |-> preset, batch |-> batch,
                                cap |-> cap, grant |-> g, revision |-> 1, overdue |-> FALSE]]
  /\ grant' = [grant EXCEPT ![g].uses = grant[g].uses + 1]
  /\ ceiling' = [ceiling EXCEPT ![r] = [w \in WorkUnits |-> requested]]
  /\ UNCHANGED <<held, lease, unit, decision, checkpoint, merge>>

\* Stopping a Run revokes the lease documents it points to and keeps the entries.
CloseRun(r, to, expected) ==
  /\ Opened(r)
  /\ Authorized(r) \/ to \in Stopping
  /\ expected = run[r].revision
  /\ to \in RunTransitions[run[r].status]
  /\ run' = [run EXCEPT ![r].status = to, ![r].revision = run[r].revision + 1]
  /\ lease' = [l \in Leases |->
                 IF /\ to \in Stopping
                    /\ \E w \in WorkUnits : held[r][w].lease = l
                    /\ lease[l].status = "active"
                 THEN [lease[l] EXCEPT !.status = "revoked"]
                 ELSE lease[l]]
  /\ UNCHANGED <<held, ceiling, unit, grant, decision, checkpoint, merge>>

-----------------------------------------------------------------------------
(* Worker leases *)

\* Mutant: the stale lease document is left as it is.
ReassignSilently(r, w, l) ==
  /\ held[r][w].lease # None
  /\ ~lease[held[r][w].lease].fresh
  /\ lease' = [lease EXCEPT
       ![l] = [status |-> "active", run |-> r, wu |-> w,
               epoch |-> NextEpoch(r, w), fresh |-> TRUE]]

\* The Work Unit has a lease whose heartbeat is too old: supersede it.
Reassign(r, w, l) ==
  LET old == held[r][w].lease
  IN /\ old # None
     /\ ~lease[old].fresh
     /\ lease' = [lease EXCEPT
          ![old].status = "superseded",
          ![l] = [status |-> "active", run |-> r, wu |-> w,
                  epoch |-> NextEpoch(r, w), fresh |-> TRUE]]

\* The Work Unit has no lease: the parallelism cap and the critical limit apply.
Staff(r, w, l) ==
  /\ held[r][w].lease = None
  /\ Cardinality(Leased(r)) < run[r].cap
  /\ unit[w].risk = Critical => \A o \in Leased(r) : unit[o].risk # Critical
  /\ lease' = [lease EXCEPT
       ![l] = [status |-> "active", run |-> r, wu |-> w,
               epoch |-> NextEpoch(r, w), fresh |-> TRUE]]

AcquireWorkerLease(r, w, l) ==
  /\ Authorized(r)
  /\ w \in run[r].batch
  /\ Serving(r)
  /\ ~Issued(l)
  /\ Reassign(r, w, l) \/ Staff(r, w, l)
  /\ held' = [held EXCEPT ![r][w] = [lease |-> l, epoch |-> NextEpoch(r, w)]]
  /\ UNCHANGED <<run, ceiling, unit, grant, decision, checkpoint, merge>>

\* A lapse of time: the heartbeat of l reaches stalled_after_minutes.
Stall(l) ==
  /\ lease[l].fresh
  /\ lease' = [lease EXCEPT ![l].fresh = FALSE]
  /\ UNCHANGED <<run, held, ceiling, unit, grant, decision, checkpoint, merge>>

RecordWorkerHeartbeat(l) ==
  /\ MayWrite(l)
  /\ lease[l].status = "active"
  /\ lease' = [lease EXCEPT ![l].fresh = TRUE]
  /\ UNCHANGED <<run, held, ceiling, unit, grant, decision, checkpoint, merge>>

\* No look at the status of the Run: a worker may let go at any time.
ReleaseWorkerLease(l) ==
  /\ Issued(l)
  /\ Authorized(lease[l].run)
  /\ IsCurrent(lease[l].run, lease[l].wu, l)
  /\ lease[l].status = "active"
  /\ lease' = [lease EXCEPT ![l].status = "released"]
  /\ held' = Dropped(lease[l].run, lease[l].wu)
  /\ UNCHANGED <<run, ceiling, unit, grant, decision, checkpoint, merge>>

WriteCheckpoint(l) ==
  /\ MayWrite(l)
  /\ checkpoint' = [checkpoint EXCEPT ![lease[l].wu] = l]
  /\ UNCHANGED <<run, held, ceiling, lease, unit, grant, decision, merge>>

RecordIntegrationMerge(l, m, attempts, revalidated) ==
  /\ MayWrite(l)
  /\ merge[m] = None
  /\ ceiling[lease[l].run][lease[l].wu]["integration_branch_merge"] # "forbidden"
  /\ attempts < MaximumAttempts
  /\ revalidated
  /\ merge' = [merge EXCEPT ![m] = l]
  /\ UNCHANGED <<run, held, ceiling, lease, unit, grant, decision, checkpoint>>

-----------------------------------------------------------------------------
(* Decisions, ceilings, risk and status *)

Forks(d, r, w) ==
  /\ decision[d] = NoDecision
  /\ Authorized(r)
  /\ w \in run[r].batch

\* The menu entry answers the fork: one of its uses is spent.
ResolveRunDecision(d, r, w, e) ==
  /\ Forks(d, r, w)
  /\ grant[run[r].grant].menu[e] < EntryUses
  /\ decision' = [decision EXCEPT ![d] = [run |-> r, entry |-> e, resolved |-> TRUE]]
  /\ grant' = [grant EXCEPT ![run[r].grant].menu[e] = grant[run[r].grant].menu[e] + 1]
  /\ unit' = [unit EXCEPT ![w].status =
                IF unit[w].status = "waiting_decision" THEN "in_progress" ELSE unit[w].status]
  /\ UNCHANGED <<run, held, ceiling, lease, checkpoint, merge>>

\* Mutant: an unanswered fork spends a use of the entry it proposed.
RejectSpendsUse(d, r, w, e) ==
  /\ Forks(d, r, w)
  /\ decision' = [decision EXCEPT ![d] = [run |-> r, entry |-> e, resolved |-> FALSE]]
  /\ grant' = [grant EXCEPT ![run[r].grant].menu[e] = grant[run[r].grant].menu[e] + 1]
  /\ lease' = Ended(r, w, "released")
  /\ held' = Dropped(r, w)
  /\ UNCHANGED <<run, unit, ceiling, checkpoint, merge>>

\* No usable entry: the Work Unit waits for a human and its worker is let go.
\* An entry with uses left may still be refused for its trigger, scope or evidence.
RejectRunDecision(d, r, w, e) ==
  /\ Forks(d, r, w)
  /\ decision' = [decision EXCEPT ![d] = [run |-> r, entry |-> e, resolved |-> FALSE]]
  /\ unit' = [unit EXCEPT ![w].status =
                IF unit[w].status = "in_progress" THEN "waiting_decision" ELSE unit[w].status]
  /\ lease' = Ended(r, w, "released")
  /\ held' = Dropped(r, w)
  /\ UNCHANGED <<run, ceiling, grant, checkpoint, merge>>

\* Mutant: any change of a dimension is taken for a tightening.
MoveExecutionCeiling(r, w, d, s, expected) ==
  /\ Authorized(r)
  /\ expected = run[r].revision
  /\ w \in run[r].batch
  /\ s # ceiling[r][w][d]
  /\ ceiling' = [ceiling EXCEPT ![r][w][d] = s]
  /\ run' = [run EXCEPT ![r].revision = run[r].revision + 1]
  /\ UNCHANGED <<held, lease, unit, grant, decision, checkpoint, merge>>

TightenExecutionCeiling(r, w, d, s, expected) ==
  /\ Authorized(r)
  /\ expected = run[r].revision
  /\ w \in run[r].batch
  /\ Rank[s] > Rank[ceiling[r][w][d]]
  /\ ceiling' = [ceiling EXCEPT ![r][w][d] = s]
  /\ run' = [run EXCEPT ![r].revision = run[r].revision + 1]
  /\ UNCHANGED <<held, lease, unit, grant, decision, checkpoint, merge>>

\* Another critical Work Unit of the Run is being worked on or holds a lease.
CriticalConflict(r, w) ==
  \E o \in run[r].batch \ {w} :
    unit[o].risk = Critical /\ (unit[o].status \in ActiveCritical \/ o \in Leased(r))

\* The supervised presets carry no policy, hence no maximum below critical.
RiskLimit(r) == IF run[r].preset \in Unattended THEN MaximumRisk ELSE Critical

EscalateWorkUnitRisk(r, w, class, expected) ==
  LET paused == \/ class > RiskLimit(r)
                \/ class = Critical /\ CriticalConflict(r, w)
      pausing == paused /\ unit[w].status \notin Closed
  IN /\ Authorized(r)
     /\ expected = run[r].revision
     /\ w \in run[r].batch
     /\ class > unit[w].risk
     /\ unit' = [unit EXCEPT ![w] =
          [status |-> IF pausing THEN "waiting_decision" ELSE unit[w].status,
           risk   |-> class]]
     /\ run' = [run EXCEPT ![r].revision = run[r].revision + 1]
     /\ lease' = IF pausing THEN Ended(r, w, "released") ELSE lease
     /\ held' = IF pausing THEN Dropped(r, w) ELSE held
     /\ UNCHANGED <<ceiling, grant, decision, checkpoint, merge>>

\* The done prerequisites are evidence of module-external documents: an input.
TransitionWorkUnit(w, to, prerequisites) ==
  /\ to \in UnitTransitions[unit[w].status]
  /\ to = "done" => prerequisites
  /\ unit' = [unit EXCEPT ![w].status = to]
  /\ UNCHANGED <<run, held, ceiling, lease, grant, decision, checkpoint, merge>>

-----------------------------------------------------------------------------

GrantStep ==
  \E g \in Grants :
    \/ ExpireGrant(g)
    \/ RevokeGrant(g)
    \/ \E r \in Runs, preset \in Presets, batch \in Batches, cap \in ParallelCaps,
          status \in {"pending", "active"}, requested \in RequestedCeilings :
         OpenRun(r, g, preset, batch, cap, status, requested)

RunStep ==
  \E r \in Runs :
    \/ Overrun(r)
    \/ \E to \in RunStatuses, expected \in 1 .. run[r].revision : CloseRun(r, to, expected)
    \/ \E w \in WorkUnits :
         \/ \E l \in Leases : AcquireWorkerLease(r, w, l)
         \/ \E expected \in 1 .. run[r].revision :
              \/ \E d \in Dimensions, s \in CeilingStates :
                   TightenExecutionCeiling(r, w, d, s, expected)
              \/ \E class \in 0 .. Critical : EscalateWorkUnitRisk(r, w, class, expected)
         \/ \E d \in Decisions, e \in Entries :
              \/ ResolveRunDecision(d, r, w, e)
              \/ RejectRunDecision(d, r, w, e)

WorkerStep ==
  \E l \in Leases :
    \/ Stall(l)
    \/ RecordWorkerHeartbeat(l)
    \/ ReleaseWorkerLease(l)
    \/ WriteCheckpoint(l)
    \/ \E m \in Merges, attempts \in 0 .. MaximumAttempts, revalidated \in BOOLEAN :
         RecordIntegrationMerge(l, m, attempts, revalidated)

UnitStep ==
  \E w \in WorkUnits, to \in Statuses, prerequisites \in BOOLEAN :
    TransitionWorkUnit(w, to, prerequisites)

Next == GrantStep \/ RunStep \/ WorkerStep \/ UnitStep

Spec == Init /\ [][Next]_vars

-----------------------------------------------------------------------------
(* Properties *)

ActiveLeases(r) == {l \in Leases : lease[l].status = "active" /\ lease[l].run = r}
LivesUnattended(r) == Opened(r) /\ run[r].preset \in Unattended

\* At most one worker holds a Work Unit of a Run: a lease document is active only
\* while the Run's own entry names it with its epoch (fencing.py; the lease and
\* the Run are two documents that five handlers rewrite together).
ActiveLeaseIsHeld ==
  \A l \in Leases : lease[l].status = "active" =>
    /\ lease[l].run # None /\ lease[l].wu # None
    /\ held[lease[l].run][lease[l].wu] = [lease |-> l, epoch |-> lease[l].epoch]

\* A stopped or failed unattended Run has no worker left: none survives CloseRun
\* and none is admitted after it (close_run.py, the is-active checks).
StoppedRunHasNoWorker ==
  \A r \in Runs : LivesUnattended(r) /\ run[r].status \in Stopping => ActiveLeases(r) = {}

\* Uses are spent exactly once: a grant's uses_count counts the Runs opened under
\* it, a menu entry's the decisions it resolved, and neither passes its maximum.
UsesAreConserved ==
  \A g \in Grants :
    LET under == {r \in Runs : run[r].grant = g}
        answered(e) == {d \in Decisions : /\ decision[d].run \in under
                                          /\ decision[d].entry = e
                                          /\ decision[d].resolved}
    IN /\ grant[g].uses = Cardinality(under) /\ grant[g].uses <= MaximumUses
       /\ \A e \in Entries : /\ grant[g].menu[e] = Cardinality(answered(e))
                             /\ grant[g].menu[e] <= EntryUses

\* The worker of an unattended Run whose lease was superseded, released or revoked
\* is silent for ever: its lease is not revived, its heartbeat, checkpoint and
\* merge are refused, although three of those handlers never read the lease.
EndedLeaseIsSilent ==
  [][\A l \in Leases :
       /\ lease[l].status \notin {"none", "active"}
       /\ run[lease[l].run].preset \in Unattended
       => /\ lease'[l].status # "active"
          /\ lease'[l].fresh => lease[l].fresh
          /\ \A w \in WorkUnits : checkpoint'[w] = l => checkpoint[w] = l
          /\ \A m \in Merges : merge'[m] = l => merge[m] = l]_vars

\* Under a revoked or expired grant nothing of the Run moves but its stop.
UnusableGrantFreezesRun ==
  [][\A r \in Runs : Opened(r) /\ ~Usable(run[r].grant) =>
       /\ held'[r] = held[r]
       /\ ceiling'[r] = ceiling[r]
       /\ run'[r].status # run[r].status => run'[r].status \in Stopping
       /\ \A l \in Leases : lease'[l].run = r => lease[l].run = r
       /\ \A d \in Decisions : decision'[d].run = r => decision[d].run = r
       /\ \A w \in WorkUnits : checkpoint'[w] # checkpoint[w] =>
                                 lease[checkpoint'[w]].run # r
       /\ \A m \in Merges : merge'[m] # merge[m] => lease[merge'[m]].run # r]_vars

\* During a Run a ceiling only tightens and a risk class only rises, and the
\* pinned dimensions are forbidden from the start.
NothingLoosens ==
  [][/\ \A r \in Runs, w \in WorkUnits, d \in CeilingDimensions :
          /\ Opened(r) => Rank[ceiling'[r][w][d]] >= Rank[ceiling[r][w][d]]
          /\ d \in AlwaysForbidden => ceiling'[r][w][d] = "forbidden"
     /\ \A w \in WorkUnits : unit'[w].risk >= unit[w].risk]_vars
=============================================================================
