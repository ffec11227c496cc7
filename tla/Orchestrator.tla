---------------------------- MODULE Orchestrator ----------------------------
(***************************************************************************)
(* The orchestrator process: worker threads that repeat run_scheduling_tick*)
(* for one unattended Run.  A tick reads the Run, judges whether it must   *)
(* stop, ends orphaned attempts, and then takes one action: it reassigns a *)
(* stale lease, starts a Work Unit, dispatches one attempt and follows it  *)
(* to its end, or closes the Run.  Each read and each Gateway command is a *)
(* step, so the other worker, the clock, the human who holds the grant and *)
(* a crash of the process come between any two of them.                    *)
(*                                                                         *)
(* The commands are projections of RunControl and Attempts to one Run: one *)
(* atomic step each (GatewayJournal), refused when a guard fails, and what *)
(* the tick does about a refusal is modelled.  Heartbeat and checkpoint    *)
(* are one step.  Abstracted: roles, prompts, context packages and checks  *)
(* (an outcome stands for them), the area filter and dependencies (no Work *)
(* Unit waits for another), risk classes (an escalation pauses or not).    *)
(***************************************************************************)
EXTENDS Naturals, FiniteSets

CONSTANTS
  Workers,       \* worker threads of the process
  Units,         \* Work Units of the Run
  InitialUnits,  \* possible initial statuses of a Work Unit: "ready", "audit"
  MaxLeases,     \* bound: leases ever issued
  MaxAttempts,   \* bound: attempts ever started
  MaxTries,      \* maximum_attempts_per_step
  Cap,           \* maximum_parallel_workers
  Maximal,       \* the preset is unattended_maximal
  Outcomes,      \* how an execution may end
  MaxTroubles,   \* bound: risk escalations, decisions, exceptions, crashes of the
                 \* process, leases whose heartbeat grows old, losses of the grant
  GrantLosses,   \* how the grant may end
  None

ASSUME OrchestratorAssumption ==
  /\ Workers # {} /\ {MaxAttempts, Cap, MaxTroubles} \subseteq Nat
  /\ {MaxLeases, MaxTries} \subseteq Nat \ {0} /\ Maximal \in BOOLEAN
  /\ InitialUnits \subseteq {"ready", "audit"} /\ None \notin Workers \cup Units \cup Nat
  /\ Outcomes \subseteq {"succeeded", "failed", "systemic", "timed_out", "blocked",
                         "outside", "isolation"}
  /\ GrantLosses \subseteq {"revoked", "expired", "spent"}

LeaseIds == 1 .. MaxLeases
AttemptIds == 1 .. MaxAttempts

VARIABLES
  run,       \* the Run document: status, stop_condition, revision, grant, release candidate
  ref,       \* leases_by_work_unit: the lease a Work Unit is under, or None
  lease,     \* lease documents
  unit,      \* Work Unit documents: status, revision, risk against the policy's maximum
  attempt,   \* execution attempts
  quiet,     \* no attempt ended and no Work Unit moved for stalled_after_minutes
  branch,    \* the integration branch: Work Units merged, merges recorded
  worker,    \* worker[v]: where the tick of v is, and what it has read
  halting,   \* stop_event: "no", "over", or "error"
  troubles   \* how many of MaxTroubles have happened

docs == <<run, ref, lease, unit, attempt, quiet>>
vars == <<docs, branch, worker, halting, troubles>>

-----------------------------------------------------------------------------
(* Tables *)

StatusToStep == [in_progress |-> "sandbox_implementation", verification |-> "verification",
                 review |-> "review", audit |-> "audit", remediation_required |-> "remediation"]
NextOnSuccess == [in_progress |-> "verification", verification |-> "review", review |-> "audit",
                  audit |-> "human_test", remediation_required |-> "verification"]
NextOnExhaustion == [in_progress |-> "blocked", verification |-> "remediation_required",
                     review |-> "remediation_required", audit |-> "remediation_required",
                     remediation_required |-> "blocked"]
\* is_transition_allowed, between the statuses a Run meets.
Allowed == [
  ready |-> {"in_progress"},
  in_progress |-> {"verification", "waiting_decision", "blocked", "ready"},
  waiting_decision |-> {"in_progress", "blocked"}, blocked |-> {"in_progress", "ready"},
  verification |-> {"review", "in_progress", "remediation_required"},
  review |-> {"audit", "verification", "remediation_required"},
  audit |-> {"human_test", "verification", "remediation_required"},
  human_test |-> {"remediation_required", "verification"},
  remediation_required |-> {"in_progress", "blocked", "verification"}, done |-> {}]

Startable == {"ready", "in_progress", "remediation_required"}
Dispatchable == DOMAIN StatusToStep \cup {"ready"}
\* "paused_for_risk_escalation" is the other one; no handler writes it.
HumanWait == {"human_test"}
PausedStatus == "waiting_decision"
UnitStatuses == Dispatchable \cup HumanWait \cup {"blocked", "waiting_decision", "done"}
Steps == {"sandbox_implementation", "verification", "review", "audit", "remediation",
          "security_review", "integration_review"}
Pcs == {"idle", "judge", "orphans", "choose", "start", "demote", "run", "fence", "merge",
        "verify", "record", "recordmerge", "after", "advance", "decide", "move", "letgo", "close"}

StopConditions == {"fencing_conflict", "kill_switch", "authorization_violation", "budget_exhausted",
  "stalled_no_progress", "repeated_systemic_failure", "no_dispatchable_work",
  "out_of_workspace_write", "worker_isolation_unguaranteed", "orchestrator_process_failure"}

NoLease == [status |-> "none", unit |-> None, worker |-> None, epoch |-> 0, fresh |-> FALSE]
NoAttempt == [status |-> "none", unit |-> None, lease |-> None, step |-> None]
NoRefs == [u \in Units |-> None]
NoSight == [u \in Units |-> [status |-> "ready", rev |-> 0, risk |-> "within"]]
Idle == [pc |-> "idle", rev |-> 0, ref |-> NoRefs, sight |-> NoSight, unit |-> None,
         lease |-> None, att |-> None, out |-> None, stop |-> None, next |-> None]

Run == [status : {"active", "completed", "stopped", "failed"}, stop : StopConditions \cup {None},
        rev : Nat, grant : {"usable", "revoked", "expired", "spent"}, candidate : BOOLEAN]
Lease == [status : {"none", "active", "superseded", "released", "revoked"},
          unit : Units \cup {None}, worker : Workers \cup {None}, epoch : Nat, fresh : BOOLEAN]
Unit == [status : UnitStatuses, rev : Nat, risk : {"within", "above"}]
Ended == Outcomes \cup {"succeeded", "failed", "timed_out"}
Attempt == [status : Ended \cup {"none", "started"}, unit : Units \cup {None},
            lease : LeaseIds \cup {None}, step : Steps \cup {None}]
References == [Units -> LeaseIds \cup {None}]
Sight == [Units -> Unit]
Worker == [pc : Pcs, rev : Nat, ref : References, sight : Sight, unit : Units \cup {None},
           lease : LeaseIds \cup {None}, att : AttemptIds \cup {None}, out : Ended \cup {None},
           stop : StopConditions \cup {None}, next : UnitStatuses \cup {"completed", "stopped", None}]

OrchestratorTypeOK ==
  /\ run \in Run
  /\ ref \in References
  /\ lease \in [LeaseIds -> Lease]
  /\ unit \in [Units -> Unit]
  /\ attempt \in [AttemptIds -> Attempt]
  /\ quiet \in BOOLEAN
  /\ branch \in [merged : SUBSET Units, recorded : SUBSET Units]
  /\ worker \in [Workers -> Worker]
  /\ halting \in {"no", "over", "error"}
  /\ troubles \in 0 .. MaxTroubles

-----------------------------------------------------------------------------
(* What the handlers look at *)

Active == run.status = "active"
Authorized == run.grant = "usable"
ActiveLeases(u) == {l \in LeaseIds : lease[l].unit = u /\ lease[l].status = "active"}
\* A fencing-checked write under lease l.
MayWrite(l) == Authorized /\ Active /\ ref[lease[l].unit] = l

Of(u, s) == {a \in AttemptIds : attempt[a].unit = u /\ attempt[a].step = s}
Succeeded(u, s) == \E a \in Of(u, s) : attempt[a].status = "succeeded"
Exhausted(u, s) == Cardinality(Of(u, s)) >= MaxTries

\* _dispatch_step: a Work Unit in audit is reviewed for security, audited, integrated.
DispatchStep(u, status) ==
  CASE status \notin DOMAIN StatusToStep -> None
    [] status \in DOMAIN StatusToStep \ {"audit"} -> StatusToStep[status]
    [] status = "audit" -> IF ~Succeeded(u, "security_review") THEN "security_review"
         ELSE IF Maximal /\ Succeeded(u, "audit") THEN "integration_review" ELSE "audit"

\* _global_stop_condition, from the Run v has read and the documents as they are
\* now; the first that holds.  A loss of the grant comes before quiet.
Conflict(v) == \E u \in Units :
  ActiveLeases(u) # IF worker[v].ref[u] = None THEN {} ELSE {worker[v].ref[u]}
Systemic == Cardinality({attempt[a].unit : a \in {b \in AttemptIds :
                                                    attempt[b].status = "systemic"}}) >= 2
\* Mutant: the progress of the Run is not looked at.
StopUnlessQuiet(v) ==
  CASE Conflict(v) -> "fencing_conflict"
    [] ~Conflict(v) /\ run.grant = "revoked" -> "kill_switch"
    [] ~Conflict(v) /\ run.grant = "expired" -> "authorization_violation"
    [] ~Conflict(v) /\ run.grant = "spent"   -> "budget_exhausted"
    [] OTHER -> None
GlobalStop(v) ==
  CASE Conflict(v) -> "fencing_conflict"
    [] ~Conflict(v) /\ run.grant = "revoked" -> "kill_switch"
    [] ~Conflict(v) /\ run.grant = "expired" -> "authorization_violation"
    [] ~Conflict(v) /\ run.grant = "spent"   -> "budget_exhausted"
    [] ~Conflict(v) /\ Authorized /\ quiet   -> "stalled_no_progress"
    [] ~Conflict(v) /\ Authorized /\ ~quiet /\ Systemic -> "repeated_systemic_failure"
    [] OTHER -> None

Goto(v, pc) == worker' = [worker EXCEPT ![v].pc = pc]
Return(v) == worker' = [worker EXCEPT ![v] = Idle]
Closing(v, status, stop) ==
  worker' = [worker EXCEPT ![v] = [Idle EXCEPT !.pc = "close", !.rev = worker[v].rev,
                                               !.next = status, !.stop = stop]]
OnlyWorker == UNCHANGED <<docs, branch, halting, troubles>>

-----------------------------------------------------------------------------
(* The head of a tick *)

\* A Run that is not active ends the session of every worker.
ReadRun(v) ==
  /\ worker[v].pc = "idle" /\ halting = "no"
  /\ IF Active
     THEN /\ worker' = [worker EXCEPT ![v] = [Idle EXCEPT !.pc = "judge", !.rev = run.rev,
                                                          !.ref = ref]]
          /\ UNCHANGED halting
     ELSE halting' = "over" /\ UNCHANGED worker
  /\ UNCHANGED <<docs, branch, troubles>>

\* The Work Units are read after the stop condition has been judged.
Judge(v) ==
  /\ worker[v].pc = "judge"
  /\ IF GlobalStop(v) # None THEN Closing(v, "stopped", GlobalStop(v))
     ELSE worker' = [worker EXCEPT ![v].pc = "orphans", ![v].sight = unit]
  /\ OnlyWorker

\* A started attempt whose lease is gone or stale.
IsOrphan(v, a) ==
  LET l == attempt[a].lease
  IN /\ attempt[a].status = "started"
     /\ ~(/\ lease[l].status = "active" /\ worker[v].ref[attempt[a].unit] = l
          /\ lease[l].fresh)

\* The attempts of a steward are refused to the control plane, and an attempt the
\* reader no longer knows as current is refused when it is: see Attempts.
Recoverable(v, a) ==
  /\ IsOrphan(v, a) /\ attempt[a].step # "integration_review" /\ Authorized /\ Active
  /\ worker[v].ref[attempt[a].unit] = attempt[a].lease /\ lease[attempt[a].lease].status = "active"
       <=> ref[attempt[a].unit] = attempt[a].lease

\* The Run is read again if an attempt was ended, for its revision.
RecoverOrphans(v) ==
  LET orphans == {a \in AttemptIds : Recoverable(v, a)} IN
  /\ worker[v].pc = "orphans"
  /\ attempt' = [a \in AttemptIds |-> IF a \in orphans
                   THEN [attempt[a] EXCEPT !.status = "timed_out"] ELSE attempt[a]]
  /\ quiet' = (quiet /\ orphans = {})
  /\ worker' = [worker EXCEPT ![v].pc = "choose",
                              ![v].rev = IF orphans = {} THEN @ ELSE run.rev]
  /\ UNCHANGED <<run, ref, lease, unit, branch, halting, troubles>>

-----------------------------------------------------------------------------
(* The one action of a tick, by priority *)

\* AcquireWorkerLease: over a stale lease, or a new one within the cap.
Acquirable(u) ==
  /\ Authorized /\ Active /\ lease[MaxLeases].status = "none"
  /\ IF ref[u] # None THEN ~lease[ref[u]].fresh
     ELSE Cardinality({x \in Units : ref[x] # None}) < Cap
NewLease == CHOOSE l \in LeaseIds : lease[l].status = "none"
Acquire(v, u) ==
  LET old == ref[u]
      next == [status |-> "active", unit |-> u, worker |-> v, fresh |-> TRUE,
               epoch |-> IF old = None THEN 1 ELSE lease[old].epoch + 1]
  IN /\ lease' = [l \in LeaseIds |-> CASE l = NewLease -> next
                    [] l = old -> [lease[l] EXCEPT !.status = "superseded"]
                    [] OTHER -> lease[l]]
     /\ ref' = [ref EXCEPT ![u] = NewLease]

Stale(v) == {u \in Units : LET l == worker[v].ref[u] IN
                           l # None /\ lease[l].status = "active" /\ ~lease[l].fresh}
Reassign(v) ==
  /\ worker[v].pc = "choose"
  /\ \E u \in Stale(v) : IF Acquirable(u) THEN Acquire(v, u) ELSE UNCHANGED <<lease, ref>>
  /\ Return(v)
  /\ UNCHANGED <<run, unit, attempt, quiet, branch, halting, troubles>>

Unstaffed(v) == {u \in Units : worker[v].ref[u] = None /\ worker[v].sight[u].status \in Startable}
Staff(v) ==
  /\ worker[v].pc = "choose" /\ Stale(v) = {}
  /\ \E u \in Unstaffed(v) :
       IF Acquirable(u)
       THEN /\ Acquire(v, u)
            /\ IF worker[v].sight[u].status = "ready"
               THEN worker' = [worker EXCEPT ![v] = [@ EXCEPT !.pc = "start", !.unit = u,
                                                              !.lease = NewLease]]
               ELSE Return(v)
       ELSE Return(v) /\ UNCHANGED <<lease, ref>>
  /\ UNCHANGED <<run, unit, attempt, quiet, branch, halting, troubles>>

\* TransitionWorkUnit compares the revision the tick has read.  It looks at the
\* grant, not at the Run or the lease.
Moved(v, u, to) ==
  /\ Authorized /\ unit[u].rev = worker[v].sight[u].rev /\ to \in Allowed[unit[u].status]
  /\ unit' = [unit EXCEPT ![u].status = to, ![u].rev = @ + 1]
  /\ quiet' = FALSE
Refused(v, u, to) ==
  /\ ~Authorized \/ unit[u].rev # worker[v].sight[u].rev \/ to \notin Allowed[unit[u].status]
  /\ UNCHANGED <<unit, quiet>>

StartUnit(v) ==
  /\ worker[v].pc = "start"
  /\ \/ Moved(v, worker[v].unit, "in_progress") /\ Return(v)
     \/ Refused(v, worker[v].unit, "in_progress") /\ Goto(v, "letgo")
  /\ UNCHANGED <<run, ref, lease, attempt, branch, halting, troubles>>

\* Units under a fresh lease of this worker whose status has a step.
Mine(v) == {u \in Units : LET l == worker[v].ref[u] IN
              /\ l # None /\ lease[l].status = "active" /\ lease[l].worker = v /\ lease[l].fresh
              /\ DispatchStep(u, worker[v].sight[u].status) # None}
\* An attempt is started, or the exhausted step demotes the Work Unit.
Dispatch(v) ==
  /\ worker[v].pc = "choose" /\ Stale(v) = {} /\ Unstaffed(v) = {}
  /\ \E u \in Mine(v) :
       LET step == DispatchStep(u, worker[v].sight[u].status)
           free == {a \in AttemptIds : attempt[a].status = "none"}
           l == worker[v].ref[u]
           here == [worker[v] EXCEPT !.unit = u, !.lease = l]
       IN IF Exhausted(u, step)
          THEN /\ worker' = [worker EXCEPT ![v] = [here EXCEPT !.pc = "demote",
                    !.next = NextOnExhaustion[worker[v].sight[u].status]]]
               /\ UNCHANGED attempt
          ELSE IF MayWrite(l) /\ free # {}
          THEN \E a \in free :
               /\ \A b \in free : a <= b
               /\ attempt' = [attempt EXCEPT ![a] = [status |-> "started", unit |-> u,
                                                     lease |-> l, step |-> step]]
               /\ worker' = [worker EXCEPT ![v] = [here EXCEPT !.pc = "run", !.att = a]]
          ELSE Return(v) /\ UNCHANGED attempt
  /\ UNCHANGED <<run, ref, lease, unit, quiet, branch, halting, troubles>>

Demote(v) ==
  /\ worker[v].pc = "demote"
  /\ \/ Moved(v, worker[v].unit, worker[v].next) /\ Goto(v, "letgo")
     \/ Refused(v, worker[v].unit, worker[v].next) /\ Return(v)
  /\ UNCHANGED <<run, ref, lease, attempt, branch, halting, troubles>>

\* Nothing to dispatch: complete, wait for a human, stop, or idle.
SightStatuses(v) == {worker[v].sight[u].status : u \in Units}
HasDispatchable(v) ==
  \/ SightStatuses(v) \cap Dispatchable # {}
  \/ \E l \in LeaseIds : lease[l].status = "active" /\ lease[l].fresh
\* Mutant: a Work Unit in audit is taken for one ready for the grouped review.
AuditIsReady(v) == SightStatuses(v) \subseteq {"audit", "human_test", "done"}
ReadyForReview(v) == SightStatuses(v) \subseteq {"human_test", "done"}

Conclude(v) ==
  /\ worker[v].pc = "choose" /\ Stale(v) = {} /\ Unstaffed(v) = {} /\ Mine(v) = {}
  /\ CASE ReadyForReview(v) /\ Maximal /\ ~run.candidate ->
            /\ run' = [run EXCEPT !.candidate = Authorized] /\ Return(v)
       [] ReadyForReview(v) /\ (Maximal => run.candidate) ->
            Closing(v, "completed", None) /\ UNCHANGED run
       [] /\ ~ReadyForReview(v) /\ ~HasDispatchable(v)
          /\ SightStatuses(v) \cap HumanWait = {} /\ SightStatuses(v) # {"done"} ->
            Closing(v, "stopped", "no_dispatchable_work") /\ UNCHANGED run
       [] OTHER -> Return(v) /\ UNCHANGED run
  /\ UNCHANGED <<ref, lease, unit, attempt, quiet, branch, halting, troubles>>

-----------------------------------------------------------------------------
(* One attempt, to its end *)

\* The governed execution may take hours, without a heartbeat.  An integration
\* review that succeeded goes on to the merge; any other outcome is recorded.
Integrates(v) == attempt[worker[v].att].step = "integration_review"
RunAgent(v) ==
  /\ worker[v].pc = "run" /\ Integrates(v)
  /\ Goto(v, "fence")
  /\ OnlyWorker

FenceIntegration(v) ==
  LET l == worker[v].lease IN
  /\ worker[v].pc = "fence"
  /\ IF MayWrite(l) /\ lease[l].status = "active"
     THEN lease' = [lease EXCEPT ![l].fresh = TRUE] /\ Goto(v, "merge")
     ELSE Return(v) /\ UNCHANGED lease
  /\ UNCHANGED <<run, ref, unit, attempt, quiet, branch, halting, troubles>>

\* Mutant: a merge that was aborted is taken for a merge.
MergeAborted(v) ==
  /\ worker[v].pc = "merge"
  /\ \/ branch' = [branch EXCEPT !.merged = @ \cup {worker[v].unit}]
     \/ UNCHANGED branch
  /\ Goto(v, "verify")
  /\ UNCHANGED <<docs, halting, troubles>>
\* git merge into the shared integration worktree; a conflict is aborted.
MergeBranch(v) ==
  /\ worker[v].pc = "merge"
  /\ \/ /\ branch' = [branch EXCEPT !.merged = @ \cup {worker[v].unit}]
        /\ Goto(v, "verify")
     \/ worker' = [worker EXCEPT ![v].pc = "record", ![v].out = "failed"] /\ UNCHANGED branch
  /\ UNCHANGED <<docs, halting, troubles>>

\* A failed revalidation leaves the merge in the branch.
Revalidate(v) ==
  /\ worker[v].pc = "verify"
  /\ \E out \in {"succeeded", "failed"} :
       worker' = [worker EXCEPT ![v].pc = "record", ![v].out = out]
  /\ OnlyWorker

\* How an attempt may end: no isolated worktree can be made for it, the governed
\* execution gives its verdict, or it wrote outside of the Work Unit's paths.
IsolationEnds == Outcomes \cap {"isolation"}
ExecutionEnds == Outcomes \cap {"succeeded", "failed", "systemic", "timed_out", "blocked"}
BoundaryEnds == Outcomes \cap {"outside"}
Ends(v) ==
  IF worker[v].pc = "record" THEN {worker[v].out}
  ELSE (IsolationEnds \cup ExecutionEnds \cup BoundaryEnds) \ IF Integrates(v) THEN {"succeeded"} ELSE {}
Recordable(v, out) ==
  /\ attempt[worker[v].att].status = "started" /\ MayWrite(worker[v].lease)
  /\ ~(out = "isolation" /\ Integrates(v))

\* The terminal record of the attempt, which may spend the last of the grant.  A
\* refusal is followed by a look for a reason to stop, from what was read before.
RecordAttempt(v) ==
  /\ worker[v].pc \in {"run", "record"}
  /\ \E out \in Ends(v) :
       \/ /\ Recordable(v, out)
          /\ attempt' = [attempt EXCEPT ![worker[v].att].status = out]
          /\ quiet' = FALSE
          /\ \/ run' = run
             \/ "spent" \in GrantLosses /\ run' = [run EXCEPT !.grant = "spent"]
          /\ CASE out = "outside"   -> Closing(v, "stopped", "out_of_workspace_write")
               [] out = "isolation" -> Closing(v, "stopped", "worker_isolation_unguaranteed")
               [] OTHER -> worker' = [worker EXCEPT ![v].out = out,
                    ![v].pc = IF out = "succeeded" /\ Integrates(v) THEN "recordmerge" ELSE "after",
                    ![v].stop = IF run' = run THEN None ELSE "budget_exhausted"]
       \/ /\ ~Recordable(v, out)
          /\ IF GlobalStop(v) # None /\ out # "isolation"
             THEN Closing(v, "stopped", GlobalStop(v)) ELSE Return(v)
          /\ UNCHANGED <<run, attempt, quiet>>
  /\ UNCHANGED <<ref, lease, unit, branch, halting, troubles>>

RecordMerge(v) ==
  /\ worker[v].pc = "recordmerge"
  /\ IF MayWrite(worker[v].lease)
     THEN branch' = [branch EXCEPT !.recorded = @ \cup {worker[v].unit}] /\ Goto(v, "after")
     ELSE Return(v) /\ UNCHANGED branch
  /\ UNCHANGED <<docs, halting, troubles>>

\* A spent grant or a systemic failure stops the Run; else heartbeat and checkpoint.
FollowUp(v) ==
  LET l == worker[v].lease IN
  /\ worker[v].pc = "after"
  /\ CASE worker[v].stop # None -> Closing(v, "stopped", worker[v].stop) /\ UNCHANGED lease
       [] worker[v].stop = None /\ GlobalStop(v) = "repeated_systemic_failure" ->
            Closing(v, "stopped", GlobalStop(v)) /\ UNCHANGED lease
       [] OTHER -> IF MayWrite(l) /\ lease[l].status = "active"
                   THEN lease' = [lease EXCEPT ![l].fresh = TRUE] /\ Goto(v, "advance")
                   ELSE Return(v) /\ UNCHANGED lease
  /\ UNCHANGED <<run, ref, unit, attempt, quiet, branch, halting, troubles>>

\* EscalateWorkUnitRisk with the Run read anew.  The risk only ever moves upward:
\* once it is above what the policy allows every escalation pauses the Work Unit
\* and ends the lease it is under, whoever holds it; otherwise the tick reads the
\* Work Unit again, and compares with its revision, not with its status.
Escalate(v) ==
  LET u == worker[v].unit
      current == ref[u] IN
  /\ worker[v].pc = "advance" /\ Authorized /\ troubles < MaxTroubles
  /\ troubles' = troubles + 1
  /\ run' = [run EXCEPT !.rev = @ + 1]
  /\ \/ /\ unit' = [unit EXCEPT ![u] = [status |-> PausedStatus, rev |-> unit[u].rev + 1,
                                        risk |-> "above"]]
        /\ lease' = [l \in LeaseIds |-> IF l = current THEN [lease[l] EXCEPT !.status = "released"]
                                        ELSE lease[l]]
        /\ ref' = [ref EXCEPT ![u] = None]
        /\ Return(v)
     \/ /\ unit[u].risk = "within"
        /\ unit' = [unit EXCEPT ![u].rev = @ + 1]
        /\ worker' = [worker EXCEPT ![v].sight[u].rev = unit[u].rev + 1, ![v].pc = "decide"]
        /\ UNCHANGED <<lease, ref>>
  /\ quiet' = FALSE
  /\ UNCHANGED <<attempt, branch, halting>>

\* ResolveRunDecision, after the escalation, with a matching entry opens a Work Unit
\* that waits again.
Answered(v) ==
  LET u == worker[v].unit IN
  /\ worker[v].pc \in {"advance", "decide"} /\ Authorized /\ troubles < MaxTroubles
  /\ troubles' = troubles + 1
  /\ IF unit[u].status = "waiting_decision"
     THEN /\ unit' = [unit EXCEPT ![u].status = "in_progress", ![u].rev = @ + 1]
          /\ quiet' = FALSE
     ELSE UNCHANGED <<unit, quiet>>
  /\ IF worker[v].out = "succeeded" THEN Goto(v, "move") ELSE Return(v)
  /\ UNCHANGED <<run, ref, lease, attempt, branch, halting>>

\* ResolveRunDecision without a matching entry ends the lease the Work Unit is
\* under, and the tick lets go of its own, which by then is refused; a Work Unit being
\* implemented waits for the decision, one in another step keeps its status.
Unanswered(v) ==
  LET u == worker[v].unit
      current == ref[u] IN
  /\ worker[v].pc \in {"advance", "decide"} /\ Authorized /\ troubles < MaxTroubles
  /\ troubles' = troubles + 1
  /\ IF unit[u].status = "in_progress"
     THEN /\ unit' = [unit EXCEPT ![u].status = PausedStatus, ![u].rev = @ + 1]
          /\ quiet' = FALSE
     ELSE UNCHANGED <<unit, quiet>>
  /\ lease' = [l \in LeaseIds |-> IF l = current THEN [lease[l] EXCEPT !.status = "released"]
                                  ELSE lease[l]]
  /\ ref' = [ref EXCEPT ![u] = None]
  /\ Return(v)
  /\ UNCHANGED <<run, attempt, branch, halting>>

\* An escalation or a decision that is refused ends the tick: the success on record
\* moves nothing, and the Work Unit keeps its status and its lease.
ProposalRefused(v) ==
  /\ worker[v].pc \in {"advance", "decide"} /\ troubles < MaxTroubles
  /\ troubles' = troubles + 1
  /\ Return(v)
  /\ UNCHANGED <<docs, branch, halting>>

\* Mutant: the step a success was at is not looked at.
StepUnseen(v) ==
  LET status == worker[v].sight[worker[v].unit].status
      step == attempt[worker[v].att].step
  IN CASE worker[v].out = "succeeded" -> NextOnSuccess[status]
       [] worker[v].out = "blocked" -> NextOnExhaustion[status]
       [] OTHER -> IF Exhausted(worker[v].unit, step) THEN NextOnExhaustion[status] ELSE None
\* Where the outcome takes the Work Unit; None when a later tick retries.
Destination(v) ==
  LET status == worker[v].sight[worker[v].unit].status
      step == attempt[worker[v].att].step
  IN CASE worker[v].out = "succeeded" ->
            IF step = "security_review" THEN None ELSE NextOnSuccess[status]
       [] worker[v].out = "blocked" -> NextOnExhaustion[status]
       [] OTHER -> IF Exhausted(worker[v].unit, step) THEN NextOnExhaustion[status] ELSE None

\* The lease goes with the Work Unit unless the same worker takes the next step.
Advance(v) ==
  LET to == Destination(v)
      u == worker[v].unit IN
  /\ worker[v].pc \in {"advance", "decide", "move"}
  /\ \/ to = None /\ Return(v) /\ UNCHANGED <<unit, quiet>>
     \/ /\ to # None /\ Moved(v, u, to)
        /\ IF worker[v].out = "succeeded" /\ to # "human_test" THEN Return(v) ELSE Goto(v, "letgo")
     \/ to # None /\ Refused(v, u, to) /\ Return(v)
  /\ UNCHANGED <<run, ref, lease, attempt, branch, halting, troubles>>

\* ReleaseWorkerLease does not look at the status of the Run.
LetGo(v) ==
  LET l == worker[v].lease
      u == worker[v].unit IN
  /\ worker[v].pc = "letgo"
  /\ IF Authorized /\ ref[u] = l /\ lease[l].status = "active"
     THEN /\ lease' = [lease EXCEPT ![l].status = "released"]
          /\ ref' = [ref EXCEPT ![u] = None]
     ELSE UNCHANGED <<lease, ref>>
  /\ Return(v)
  /\ UNCHANGED <<run, unit, attempt, quiet, branch, halting, troubles>>

-----------------------------------------------------------------------------
(* Closing the Run *)

\* CloseRun: a Run that is stopped revokes the leases it points to.
Close(status, stop) ==
  /\ run' = [run EXCEPT !.status = status, !.stop = stop, !.rev = @ + 1]
  /\ lease' = [l \in LeaseIds |-> IF /\ status # "completed" /\ lease[l].status = "active"
                                     /\ \E u \in Units : ref[u] = l
                                  THEN [lease[l] EXCEPT !.status = "revoked"] ELSE lease[l]]

\* A refusal is reported, and the next tick starts over.
CloseRun(v) ==
  /\ worker[v].pc = "close"
  /\ IF /\ Active /\ run.rev = worker[v].rev
        /\ worker[v].next = "completed" => Authorized
     THEN Close(worker[v].next, worker[v].stop) /\ halting' = "over"
     ELSE UNCHANGED <<run, lease, halting>>
  /\ Return(v)
  /\ UNCHANGED <<ref, unit, attempt, quiet, branch, troubles>>

\* An exception ends the session of every worker at the end of its tick.
Raise(v) ==
  /\ worker[v].pc # "idle" /\ troubles < MaxTroubles
  /\ troubles' = troubles + 1
  /\ halting' = "error"
  /\ Return(v)
  /\ UNCHANGED <<docs, branch>>

\* _close_run_after_process_failure reads the Run it closes.
CloseAfterFailure ==
  /\ halting = "error" /\ \A v \in Workers : worker[v].pc = "idle"
  /\ IF Active THEN Close("failed", "orchestrator_process_failure") ELSE UNCHANGED <<run, lease>>
  /\ halting' = "over"
  /\ UNCHANGED <<ref, unit, attempt, quiet, branch, worker, troubles>>

\* The process dies; the Supervisor starts it again with the same worker ids.
Crash ==
  /\ troubles < MaxTroubles /\ halting # "over"
  /\ troubles' = troubles + 1
  /\ worker' = [v \in Workers |-> Idle]
  /\ halting' = "no"
  /\ UNCHANGED <<docs, branch>>

-----------------------------------------------------------------------------
(* Time, and the human who issued the grant *)

\* The heartbeat just recorded does not grow old before the merge it is for.
Stall(l) ==
  /\ Active /\ lease[l].status = "active" /\ lease[l].fresh /\ troubles < MaxTroubles
  /\ \A v \in Workers : ~(worker[v].pc = "merge" /\ worker[v].lease = l)
  /\ troubles' = troubles + 1
  /\ lease' = [lease EXCEPT ![l].fresh = FALSE]
  /\ UNCHANGED <<run, ref, unit, attempt, quiet, branch, worker, halting>>

Quieten ==
  /\ Active /\ ~quiet
  /\ quiet' = TRUE
  /\ UNCHANGED <<run, ref, lease, unit, attempt, branch, worker, halting, troubles>>

LoseGrant(how) ==
  /\ Active /\ Authorized /\ how \in GrantLosses /\ troubles < MaxTroubles
  /\ troubles' = troubles + 1
  /\ run' = [run EXCEPT !.grant = how]
  /\ UNCHANGED <<ref, lease, unit, attempt, quiet, branch, worker, halting>>

\* A Work Unit is ready, or it is in audit under a lease of a worker of the Run.
Init ==
  /\ run = [status |-> "active", stop |-> None, rev |-> 1, grant |-> "usable", candidate |-> FALSE]
  /\ unit \in [Units -> [status : InitialUnits, rev : {1}, risk : {"within"}]]
  /\ \E u0 \in {None} \cup {u \in Units : unit[u].status = "audit"} :
       /\ \A u \in Units \ {u0} : unit[u].status = "ready"
       /\ ref = [u \in Units |-> IF u = u0 THEN 1 ELSE None]
       /\ lease = [l \in LeaseIds |-> IF l = 1 /\ u0 # None
            THEN [status |-> "active", unit |-> u0, worker |-> CHOOSE v \in Workers : TRUE,
                  epoch |-> 1, fresh |-> TRUE]
            ELSE NoLease]
  /\ attempt = [a \in AttemptIds |-> NoAttempt]
  /\ quiet = FALSE
  /\ branch = [merged |-> {}, recorded |-> {}]
  /\ worker = [v \in Workers |-> Idle]
  /\ halting = "no"
  /\ troubles = 0

Tick(v) ==
  \/ ReadRun(v) \/ Judge(v) \/ RecoverOrphans(v) \/ Reassign(v) \/ Staff(v) \/ StartUnit(v)
  \/ Dispatch(v) \/ Demote(v) \/ Conclude(v) \/ RunAgent(v) \/ FenceIntegration(v)
  \/ MergeBranch(v) \/ Revalidate(v) \/ RecordAttempt(v) \/ RecordMerge(v) \/ FollowUp(v)
  \/ Escalate(v) \/ Answered(v) \/ Unanswered(v) \/ ProposalRefused(v) \/ Advance(v)
  \/ LetGo(v) \/ CloseRun(v)

Next ==
  \/ \E v \in Workers : Tick(v) \/ Raise(v)
  \/ CloseAfterFailure \/ Crash \/ Quieten
  \/ \E l \in LeaseIds : Stall(l)
  \/ \E how \in GrantLosses : LoseGrant(how)

\* Every thread is scheduled, every execution ends in its timeout, time passes.
Fairness == /\ \A v \in Workers : WF_vars(Tick(v))
            /\ WF_vars(CloseAfterFailure) /\ WF_vars(Quieten)

Spec == Init /\ [][Next]_vars /\ Fairness

-----------------------------------------------------------------------------
(* Properties *)

\* "`human_test` is the successful unattended terminal point: implementation,
\* verification, review, audit and (where required) integration succeeded"
\* (morning_report.py:14-16); unattended_maximal requires it (tick.py:555-561).
HumanTestIsIntegrated == \A u \in Units : unit[u].status = "human_test" /\ Maximal =>
  Succeeded(u, "integration_review")

\* "Invalidate affected evidence and re-run checks when the evaluated SHA changes"
\* (procedures/orchestrator.json:35): the security review that lets a Work Unit
\* reach its human test is of the code as last remediated.
SecurityReviewIsCurrent == \A u \in Units : unit[u].status = "human_test" =>
  \A a \in Of(u, "remediation") : attempt[a].status = "succeeded" =>
    \E b \in Of(u, "security_review") : b > a /\ attempt[b].status = "succeeded"

\* A Run is completed only when every Work Unit has been through its security
\* review and its audit and, in the maximal preset, its release candidate is
\* there, although the statuses were read at the start of the tick that completes
\* it, and another worker may have sent a Work Unit back since.
CompletedIsReviewed == [][run.status # "completed" /\ run'.status = "completed" =>
  /\ \A u \in Units : unit[u].status # "done" =>
       Succeeded(u, "audit") /\ Succeeded(u, "security_review")
  /\ Maximal => run.candidate]_vars

\* A Work Unit moves forward only after an attempt at the step of the status it
\* leaves succeeded, and out of its audit only if it was reviewed for security,
\* whichever worker moves it, whatever it had read and after any crash or
\* reassignment.  A remediation is the exception: Escalate lets a worker that was
\* superseded move the Work Unit on the implementation it had recorded.
AdvanceIsEarned == [][\A u \in Units :
  LET from == unit[u].status IN
  from \in DOMAIN NextOnSuccess /\ unit'[u].status = NextOnSuccess[from] =>
    /\ \/ Succeeded(u, StatusToStep[from])
       \/ from = "remediation_required" /\ Succeeded(u, "sandbox_implementation")
    /\ from = "audit" => Succeeded(u, "security_review")]_vars

\* A merge on record was made, and the integration review it is part of is on
\* record as a success, across every refusal and crash between the three steps.
RecordedIsMerged == \A u \in branch.recorded :
  u \in branch.merged /\ Succeeded(u, "integration_review")

\* Every Run ends: it is completed, stopped or failed, whatever is lost.
RunEnds == <>(run.status # "active")
=============================================================================
