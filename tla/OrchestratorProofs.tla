-------------------------- MODULE OrchestratorProofs --------------------------
(***************************************************************************)
(* Proofs about the worker threads of one unattended Run: merges on record *)
(* were made and reviewed, a Work Unit moves forward only on a success of  *)
(* the step it leaves, and a Run is completed only on reviews.  For any    *)
(* workers, Work Units, outcomes, refusals and crashes.                    *)
(***************************************************************************)
EXTENDS Orchestrator, TLAPS

-----------------------------------------------------------------------------
(* The inductive invariant *)

Reviewed(u) == Succeeded(u, "audit") /\ Succeeded(u, "security_review")

\* A Work Unit that was in remediation comes back here only by a pausing escalation.
Early == {"ready", "in_progress", "waiting_decision"}

UnitInv == \A u \in Units :
  /\ unit[u].status # "done"
  /\ unit[u].status = "human_test" => Reviewed(u)

\* What a tick has read of a Work Unit: it is old at most, what it says was true, and
\* when the revision is still the one that was read so is the status, or an escalation
\* came between, which cannot make a remediation of an implementation.
Reading == {"orphans", "choose", "start"}
Knows(v, u) ==
  LET seen == worker[v].sight[u] IN
  /\ seen.rev <= unit[u].rev
  /\ seen.status # "done"
  /\ seen.status = "human_test" => Reviewed(u)
  /\ seen.status = "remediation_required" =>
       /\ unit[u].status \in Early => unit[u].risk = "above"
       /\ seen.rev = unit[u].rev => unit[u].status # "in_progress"
  /\ worker[v].pc \in Reading /\ seen.rev = unit[u].rev => seen.status = unit[u].status

\* The step an attempt at u was dispatched for, by the status it was seen in.
Fits(u, status, step) ==
  \/ status \in DOMAIN StatusToStep \ {"audit"} /\ step = StatusToStep[status]
  \/ /\ status = "audit"
     /\ \/ step = "security_review"
        \/ step = "audit" /\ Succeeded(u, "security_review")
        \/ step = "integration_review" /\ Reviewed(u)

Attempting == {"run", "fence", "merge", "verify", "record", "recordmerge", "after", "advance",
               "decide", "move"}
Recorded == {"recordmerge", "after", "advance", "decide", "move"}
Merged(v) == \/ worker[v].pc \in {"verify", "recordmerge"}
             \/ worker[v].pc = "record" /\ worker[v].out = "succeeded"
\* The attempt a tick follows to its end.
Attempts(v) ==
  LET w == worker[v] IN
  /\ w.unit \in Units /\ w.att \in AttemptIds
  /\ attempt[w.att].status # "none" /\ attempt[w.att].unit = w.unit
  /\ Fits(w.unit, w.sight[w.unit].status, attempt[w.att].step)
  /\ w.pc \in Recorded /\ w.out = "succeeded" => attempt[w.att].status = "succeeded"
  /\ Merged(v) => w.unit \in branch.merged
  /\ w.pc = "record" => w.out \in Ended
  /\ w.pc = "recordmerge" => w.out = "succeeded" /\ attempt[w.att].step = "integration_review"

\* What the other steps of a tick rest on.
Ready(v) ==
  LET w == worker[v] IN
  /\ w.pc = "start" => w.unit \in Units /\ w.sight[w.unit].status = "ready"
  /\ w.pc = "demote" => w.unit \in Units /\ w.next \in {"blocked", "remediation_required"}
  /\ w.pc = "close" => w.next \in {"completed", "stopped"}
  /\ w.pc = "close" /\ w.next = "completed" =>
       (\A u \in Units : Reviewed(u)) /\ (Maximal => run.candidate)

Sound(v) == /\ worker[v].pc \in Attempting => Attempts(v)
            /\ Ready(v)
            /\ \A u \in Units : Knows(v, u)

OInv == OrchestratorTypeOK /\ UnitInv /\ RecordedIsMerged /\ \A v \in Workers : Sound(v)

-----------------------------------------------------------------------------
(* Tables, and what a write does to the record of a worker *)

LEMMA Tables ==
  /\ UnitStatuses = {"ready", "in_progress", "verification", "review", "audit", "blocked",
                     "remediation_required", "human_test", "waiting_decision", "done"}
  /\ DOMAIN StatusToStep = {"in_progress", "verification", "review", "audit",
                            "remediation_required"}
  /\ DOMAIN NextOnSuccess = DOMAIN StatusToStep
  /\ \A s \in DOMAIN StatusToStep :
       /\ StatusToStep[s] \in Steps \ {"security_review", "integration_review"}
       /\ NextOnSuccess[s] \in {"verification", "review", "audit", "human_test"}
       /\ NextOnSuccess[s] = "human_test" => s = "audit"
       /\ NextOnExhaustion[s] \in {"blocked", "remediation_required"}
<1>1. DOMAIN StatusToStep = {"in_progress", "verification", "review", "audit",
                             "remediation_required"}
  BY DEF StatusToStep
<1>2. DOMAIN NextOnSuccess = DOMAIN StatusToStep  BY <1>1 DEF NextOnSuccess
<1>3. UnitStatuses = {"ready", "in_progress", "verification", "review", "audit", "blocked",
                      "remediation_required", "human_test", "waiting_decision", "done"}
  BY <1>1 DEF UnitStatuses, Dispatchable, HumanWait
<1> QED
  BY <1>1, <1>2, <1>3 DEF StatusToStep, NextOnSuccess, NextOnExhaustion, Steps

\* Two statuses with the same successor are the same, or an implementation and a remediation.
LEMMA SameSuccessor ==
  \A s, t \in DOMAIN StatusToStep : NextOnSuccess[s] = NextOnSuccess[t] =>
    \/ s = t
    \/ s = "in_progress" /\ t = "remediation_required"
    \/ s = "remediation_required" /\ t = "in_progress"
BY Tables DEF NextOnSuccess

LEMMA IdleType ==
  /\ Idle \in Worker
  /\ Idle.pc = "idle" /\ Idle.sight = NoSight /\ NoRefs \in References /\ NoSight \in Sight
<1>1. NoRefs \in References  BY DEF NoRefs, References
<1>2. [status |-> "ready", rev |-> 0, risk |-> "within"] \in Unit  BY Tables DEF Unit
<1>3. NoSight \in Sight  BY <1>2 DEF NoSight, Sight
<1>4. "idle" \in Pcs  BY DEF Pcs
<1>5. Idle \in Worker  BY <1>1, <1>3, <1>4 DEF Idle, Worker
<1> QED  BY <1>1, <1>3, <1>5 DEF Idle

LEMMA WorkerWritten ==
  ASSUME OrchestratorTypeOK, NEW v \in Workers, NEW x \in Worker,
         worker' = [worker EXCEPT ![v] = x]
  PROVE  /\ worker' \in [Workers -> Worker] /\ worker'[v] = x
         /\ \A p \in Workers : p # v => worker'[p] = worker[p]
BY DEF OrchestratorTypeOK

-----------------------------------------------------------------------------
(* What every step leaves true: a success stays one, revisions grow, merges stay *)

Kept == \A a \in AttemptIds : attempt[a].status # "none" =>
  /\ attempt'[a].status # "none" /\ attempt'[a].unit = attempt[a].unit
  /\ attempt'[a].step = attempt[a].step
  /\ attempt[a].status = "succeeded" => attempt'[a].status = "succeeded"

Moves(u) ==
  /\ unit'[u].rev > unit[u].rev
  /\ unit[u].risk = "above" => unit'[u].risk = "above"
  /\ unit'[u].status \in Early => unit[u].status \in Early \/ unit'[u].risk = "above"
  /\ unit'[u].status # "done"
  /\ unit'[u].status = "human_test" => Reviewed(u)
Onward == \A u \in Units : unit'[u] = unit[u] \/ Moves(u)

Frame == /\ Kept /\ Onward
         /\ branch.merged \subseteq branch'.merged
         /\ run.candidate => run'.candidate
Others(v) == \A p \in Workers : p # v => worker'[p] = worker[p]

LEMMA SuccessStays ==
  ASSUME Kept, NEW u
  PROVE  /\ \A s : Succeeded(u, s) => Succeeded(u, s)'
         /\ Reviewed(u) => Reviewed(u)'
         /\ \A status, step : Fits(u, status, step) => Fits(u, status, step)'
<1>1. ASSUME NEW s, Succeeded(u, s) PROVE Succeeded(u, s)'
  <2>1. PICK a \in AttemptIds :
          attempt[a].unit = u /\ attempt[a].step = s /\ attempt[a].status = "succeeded"
    BY <1>1 DEF Succeeded, Of
  <2>2. attempt'[a].unit = u /\ attempt'[a].step = s /\ attempt'[a].status = "succeeded"
    BY <2>1 DEF Kept
  <2> QED  BY <2>2 DEF Succeeded, Of
<1>2. Reviewed(u) => Reviewed(u)'  BY <1>1 DEF Reviewed
<1>3. ASSUME NEW status, NEW step, Fits(u, status, step) PROVE Fits(u, status, step)'
  BY <1>1, <1>2, <1>3 DEF Fits
<1> QED  BY <1>1, <1>2, <1>3

LEMMA KnowsStays ==
  ASSUME OrchestratorTypeOK, OrchestratorTypeOK', Frame, NEW p \in Workers, NEW u \in Units,
         Knows(p, u), worker'[p].sight = worker[p].sight,
         worker'[p].pc \in Reading => worker[p].pc \in Reading
  PROVE  Knows(p, u)'
<1>1. /\ unit[u].rev \in Nat /\ unit'[u].rev \in Nat
      /\ worker[p].sight[u].rev \in Nat
  BY DEF OrchestratorTypeOK, Unit, Worker, Sight
<1>2. unit'[u] = unit[u] \/ Moves(u)  BY DEF Frame, Onward
<1>3. Reviewed(u) => Reviewed(u)'  BY SuccessStays DEF Frame
<1> HIDE DEF OrchestratorTypeOK, Frame
<1>4. CASE unit'[u] = unit[u]  BY <1>1, <1>3, <1>4 DEF Knows
<1>5. CASE Moves(u)
  <2>1. worker[p].sight[u].rev # unit'[u].rev /\ worker[p].sight[u].rev <= unit'[u].rev
    BY <1>1, <1>5 DEF Knows, Moves
  <2> QED  BY <1>3, <1>5, <2>1 DEF Knows, Moves
<1> QED  BY <1>2, <1>4, <1>5

LEMMA SoundStays ==
  ASSUME OrchestratorTypeOK, OrchestratorTypeOK', Frame, NEW p \in Workers,
         Sound(p), worker'[p] = worker[p]
  PROVE  Sound(p)'
<1>1. \A u \in Units : Knows(p, u)'  BY KnowsStays DEF Sound
<1>2. ASSUME worker[p].pc \in Attempting PROVE Attempts(p)'
  <2>1. Attempts(p)  BY <1>2 DEF Sound
  <2>2. /\ attempt'[worker[p].att].status # "none"
        /\ attempt'[worker[p].att].unit = attempt[worker[p].att].unit
        /\ attempt'[worker[p].att].step = attempt[worker[p].att].step
        /\ attempt[worker[p].att].status = "succeeded" =>
             attempt'[worker[p].att].status = "succeeded"
    BY <2>1 DEF Frame, Kept, Attempts
  <2>3. Fits(worker[p].unit, worker[p].sight[worker[p].unit].status,
             attempt[worker[p].att].step)'
    BY <2>1, <2>2, SuccessStays DEF Attempts, Frame
  <2>4. Merged(p)' => Merged(p)  BY DEF Merged
  <2>5. branch.merged \subseteq branch'.merged  BY DEF Frame
  <2> QED  BY <2>1, <2>2, <2>3, <2>4, <2>5 DEF Attempts
<1>3. Ready(p)'
  <2>1. Ready(p) /\ (run.candidate => run'.candidate)  BY DEF Sound, Frame
  <2>2. \A u \in Units : Reviewed(u) => Reviewed(u)'  BY SuccessStays DEF Frame
  <2> QED  BY <2>1, <2>2 DEF Ready
<1> QED  BY <1>1, <1>2, <1>3 DEF Sound

\* A step of one worker: it has to keep its own record sound.
LEMMA OwnStep ==
  ASSUME OInv, OrchestratorTypeOK', Frame, NEW v \in Workers, Others(v), Sound(v)',
         branch'.recorded = branch.recorded \/ RecordedIsMerged'
  PROVE  OInv'
<1>1. OrchestratorTypeOK  BY DEF OInv
<1>2. \A p \in Workers : Sound(p)'  BY <1>1, SoundStays DEF OInv, Others
<1>3. \A u \in Units : Reviewed(u) => Reviewed(u)'  BY SuccessStays DEF Frame
<1>4. UnitInv'
  <2>1. UnitInv /\ Onward  BY DEF OInv, Frame
  <2> QED  BY <1>3, <2>1 DEF UnitInv, Onward, Moves
<1>5. RecordedIsMerged'
  <2> SUFFICES ASSUME branch'.recorded = branch.recorded PROVE RecordedIsMerged'
    OBVIOUS
  <2>1. \A u : Succeeded(u, "integration_review") => Succeeded(u, "integration_review")'
    BY SuccessStays DEF Frame
  <2>2. RecordedIsMerged /\ branch.merged \subseteq branch'.merged  BY DEF OInv, Frame
  <2> QED  BY <2>1, <2>2 DEF RecordedIsMerged
<1> QED  BY <1>2, <1>4, <1>5 DEF OInv

\* A step of the world: no worker moves.
LEMMA WorldStep ==
  ASSUME OInv, OrchestratorTypeOK', Frame, UNCHANGED <<worker, branch>>
  PROVE  OInv'
<1>1. PICK v \in Workers : TRUE  BY OrchestratorAssumption
<1>2. OrchestratorTypeOK /\ Sound(v)  BY DEF OInv
<1>3. Sound(v)'  BY <1>2, SoundStays
<1> QED  BY <1>3, OwnStep DEF Others

-----------------------------------------------------------------------------
(* How a step may leave its worker: at the start of a tick, closing, or going on *)

RestOK == /\ run \in Run /\ ref \in References /\ lease \in [LeaseIds -> Lease]
          /\ unit \in [Units -> Unit] /\ attempt \in [AttemptIds -> Attempt] /\ quiet \in BOOLEAN
          /\ branch \in [merged : SUBSET Units, recorded : SUBSET Units]
          /\ halting \in {"no", "over", "error"} /\ troubles \in 0 .. MaxTroubles

LEMMA TypeParts == OrchestratorTypeOK <=> RestOK /\ worker \in [Workers -> Worker]
BY DEF OrchestratorTypeOK, RestOK

LEMMA TypePartsNext == OrchestratorTypeOK' <=> RestOK' /\ worker' \in [Workers -> Worker]
BY DEF OrchestratorTypeOK, RestOK

\* A worker that has read nothing of the Work Units.
LEMMA BlindStep ==
  ASSUME OInv, RestOK', Frame, NEW v \in Workers, NEW x \in Worker,
         worker' = [worker EXCEPT ![v] = x], x.sight = NoSight,
         \/ x.pc \in {"idle", "judge"}
         \/ x.pc = "close" /\ x.next = "stopped"
         \/ /\ x.pc = "close" /\ x.next = "completed"
            /\ \A u \in Units : Reviewed(u)
            /\ Maximal => run.candidate,
         branch'.recorded = branch.recorded
  PROVE  OInv'
<1>1. OrchestratorTypeOK  BY DEF OInv
<1>2. worker' \in [Workers -> Worker] /\ worker'[v] = x /\ Others(v)
  BY <1>1, WorkerWritten DEF Others
<1>3. OrchestratorTypeOK'  BY <1>2, TypePartsNext
<1>4. worker'[v].pc \notin Attempting /\ worker'[v].pc \notin Reading
  BY <1>2 DEF Attempting, Reading
<1>5. Ready(v)'
  <2>1. \A u \in Units : Reviewed(u) => Reviewed(u)'  BY SuccessStays DEF Frame
  <2>2. run.candidate => run'.candidate  BY DEF Frame
  <2> QED  BY <1>2, <2>1, <2>2 DEF Ready
<1>6. \A u \in Units : Knows(v, u)'
  <2>1. \A u \in Units : NoSight[u].status = "ready" /\ NoSight[u].rev = 0  BY DEF NoSight
  <2>2. \A u \in Units : unit'[u].rev \in Nat  BY DEF RestOK, Unit
  <2> QED  BY <1>2, <1>4, <2>1, <2>2 DEF Knows
<1> QED  BY <1>2, <1>3, <1>4, <1>5, <1>6, OwnStep DEF Sound

LEMMA ReturnStep ==
  ASSUME OInv, RestOK', Frame, NEW v \in Workers, Return(v), branch'.recorded = branch.recorded
  PROVE  OInv'
BY IdleType, BlindStep DEF Return

LEMMA ClosingStep ==
  ASSUME OInv, RestOK', Frame, NEW v \in Workers, NEW status, NEW stop \in StopConditions \cup {None},
         Closing(v, status, stop),
         \/ status = "stopped"
         \/ status = "completed" /\ (\A u \in Units : Reviewed(u)) /\ (Maximal => run.candidate),
         branch'.recorded = branch.recorded
  PROVE  OInv'
<1> DEFINE x == [Idle EXCEPT !.pc = "close", !.rev = worker[v].rev, !.next = status, !.stop = stop]
<1>1. worker[v].rev \in Nat  BY DEF OInv, OrchestratorTypeOK, Worker
<1>2. x \in Worker  BY <1>1, IdleType DEF Worker, Pcs
<1>3. x.sight = NoSight /\ x.pc = "close" /\ x.next = status  BY IdleType DEF Worker
<1>4. worker' = [worker EXCEPT ![v] = x]  BY DEF Closing
<1> HIDE DEF x
<1> QED  BY <1>2, <1>3, <1>4, BlindStep

\* A worker that goes on with its attempt.
LEMMA GoingStep ==
  ASSUME OInv, RestOK', Frame, NEW v \in Workers, worker[v].pc \in Attempting, NEW x \in Worker,
         worker' = [worker EXCEPT ![v] = x], x.pc \in Attempting \cup {"letgo"},
         x.sight = worker[v].sight, x.unit = worker[v].unit, x.att = worker[v].att,
         x.pc \in Recorded /\ x.out = "succeeded" => attempt'[x.att].status = "succeeded",
         x.pc \in {"verify", "recordmerge"} \/ (x.pc = "record" /\ x.out = "succeeded") =>
           x.unit \in branch'.merged,
         x.pc = "record" => x.out \in Ended,
         x.pc = "recordmerge" =>
           x.out = "succeeded" /\ attempt[x.att].step = "integration_review",
         branch'.recorded = branch.recorded \/ RecordedIsMerged'
  PROVE  OInv'
<1>1. OrchestratorTypeOK /\ Sound(v) /\ Attempts(v)  BY DEF OInv, Sound
<1>2. worker' \in [Workers -> Worker] /\ worker'[v] = x /\ Others(v)
  BY <1>1, WorkerWritten DEF Others
<1>3. OrchestratorTypeOK'  BY <1>2, TypePartsNext
<1>4. Attempts(v)'
  <2>1. /\ attempt'[x.att].status # "none" /\ attempt'[x.att].unit = x.unit
        /\ attempt'[x.att].step = attempt[x.att].step
    BY <1>1 DEF Frame, Kept, Attempts
  <2>2. PICK s, step : s = x.sight[x.unit].status /\ step = attempt[x.att].step
    OBVIOUS
  <2>3. Fits(x.unit, s, step)  BY <1>1, <2>2 DEF Attempts
  <2>4. Fits(x.unit, s, step)'  BY <2>3, SuccessStays DEF Frame
  <2> QED  BY <1>1, <1>2, <2>1, <2>2, <2>4 DEF Attempts, Merged
<1>5. Ready(v)'  BY <1>2 DEF Ready, Attempting
<1>6. \A u \in Units : Knows(v, u)'
  <2>1. worker'[v].pc \notin Reading  BY <1>2 DEF Reading, Attempting
  <2> QED  BY <1>1, <1>2, <1>3, <2>1, KnowsStays DEF Sound
<1> QED  BY <1>2, <1>3, <1>4, <1>5, <1>6, OwnStep DEF Sound

\* A tick that goes on reading: what it knows stays.
LEMMA ReadingStep ==
  ASSUME OInv, RestOK', Frame, NEW v \in Workers, worker[v].pc \in Reading, NEW x \in Worker,
         worker' = [worker EXCEPT ![v] = x], x.sight = worker[v].sight,
         x.pc \in {"choose", "start", "demote", "run", "letgo"},
         x.pc = "start" => x.unit \in Units /\ x.sight[x.unit].status = "ready",
         x.pc = "demote" => x.unit \in Units /\ x.next \in {"blocked", "remediation_required"},
         x.pc = "run" =>
           /\ x.unit \in Units /\ x.att \in AttemptIds
           /\ attempt'[x.att].status # "none" /\ attempt'[x.att].unit = x.unit
           /\ Fits(x.unit, x.sight[x.unit].status, attempt'[x.att].step),
         branch'.recorded = branch.recorded
  PROVE  OInv'
<1>1. OrchestratorTypeOK /\ Sound(v)  BY DEF OInv
<1>2. worker' \in [Workers -> Worker] /\ worker'[v] = x /\ Others(v)
  BY <1>1, WorkerWritten DEF Others
<1>3. OrchestratorTypeOK'  BY <1>2, TypePartsNext
<1>4. ASSUME x.pc = "run" PROVE Attempts(v)'
  <2>1. PICK step : step = attempt'[x.att].step /\ Fits(x.unit, x.sight[x.unit].status, step)
    BY <1>4
  <2>2. Fits(x.unit, x.sight[x.unit].status, step)'  BY <2>1, SuccessStays DEF Frame
  <2> QED  BY <1>2, <1>4, <2>1, <2>2 DEF Attempts, Merged, Recorded
<1>5. Ready(v)'  BY <1>2 DEF Ready
<1>6. \A u \in Units : Knows(v, u)'  BY <1>1, <1>2, <1>3, KnowsStays DEF Sound
<1>7. x.pc \in Attempting => x.pc = "run"  BY DEF Attempting
<1> QED  BY <1>2, <1>3, <1>4, <1>5, <1>6, <1>7, OwnStep DEF Sound

\* A tick whose last step is to let go of its lease.
LEMMA LettingGo ==
  ASSUME OInv, RestOK', Frame, NEW v \in Workers, NEW x \in Worker,
         worker' = [worker EXCEPT ![v] = x], x.sight = worker[v].sight, x.pc = "letgo",
         branch'.recorded = branch.recorded
  PROVE  OInv'
<1>1. OrchestratorTypeOK /\ Sound(v)  BY DEF OInv
<1>2. worker' \in [Workers -> Worker] /\ worker'[v] = x /\ Others(v)
  BY <1>1, WorkerWritten DEF Others
<1>3. OrchestratorTypeOK'  BY <1>2, TypePartsNext
<1>4. worker'[v].pc \notin Attempting \cup Reading  BY <1>2 DEF Attempting, Reading
<1>5. Ready(v)'  BY <1>2 DEF Ready
<1>6. \A u \in Units : Knows(v, u)'  BY <1>1, <1>2, <1>3, <1>4, KnowsStays DEF Sound
<1> QED  BY <1>2, <1>3, <1>4, <1>5, <1>6, OwnStep DEF Sound

\* A merge that was tried is put on record, with its outcome.
LEMMA OutcomeStep ==
  ASSUME OInv, RestOK', Frame, NEW v \in Workers, worker[v].pc \in Attempting, NEW out \in Ended,
         worker' = [worker EXCEPT ![v].pc = "record", ![v].out = out],
         out = "succeeded" => worker[v].unit \in branch'.merged,
         branch'.recorded = branch.recorded
  PROVE  OInv'
<1> DEFINE x == [worker[v] EXCEPT !.pc = "record", !.out = out]
<1>1. worker[v] \in Worker  BY DEF OInv, OrchestratorTypeOK
<1>2. worker' = [worker EXCEPT ![v] = x]  OBVIOUS
<1>3. x \in Worker  BY <1>1 DEF Worker, Pcs
<1>4. /\ x.pc = "record" /\ x.out = out /\ x.sight = worker[v].sight
      /\ x.unit = worker[v].unit /\ x.att = worker[v].att
  BY <1>1 DEF Worker
<1> HIDE DEF x
<1>5. "record" \in Attempting /\ "record" \notin Recorded  BY DEF Attempting, Recorded
<1>6. x.pc \in Attempting /\ x.pc \notin Recorded  BY <1>4, <1>5
<1>7. x.out = "succeeded" => x.unit \in branch'.merged  BY <1>4
<1> QED  BY <1>2, <1>3, <1>4, <1>6, <1>7, GoingStep

-----------------------------------------------------------------------------
(* The head of a tick *)

LEMMA StillFrame ==
  ASSUME OInv, UNCHANGED <<attempt, unit, branch>>, run.candidate => run'.candidate
  PROVE  Frame
BY DEF Frame, Kept, Onward

LEMMA GlobalStopType == ASSUME NEW v PROVE GlobalStop(v) \in StopConditions \cup {None}
BY DEF GlobalStop, StopConditions

LEMMA ReadRunStep == ASSUME OInv, NEW v \in Workers, ReadRun(v) PROVE OInv'
<1> DEFINE x == [Idle EXCEPT !.pc = "judge", !.rev = run.rev, !.ref = ref]
<1>1. OrchestratorTypeOK /\ UNCHANGED <<docs, branch, troubles>>  BY DEF OInv, ReadRun
<1>2. Frame  BY <1>1, StillFrame DEF docs
<1>3. CASE worker' = [worker EXCEPT ![v] = x] /\ UNCHANGED halting
  <2>1. run.rev \in Nat /\ ref \in References  BY <1>1 DEF OrchestratorTypeOK, Run
  <2>2. x \in Worker  BY <2>1, IdleType DEF Worker, Pcs
  <2>3. x.sight = NoSight /\ x.pc = "judge"  BY IdleType DEF Worker
  <2> HIDE DEF x
  <2>4. RestOK'  BY <1>1, <1>3 DEF OrchestratorTypeOK, RestOK, docs
  <2> QED  BY <1>1, <1>2, <1>3, <2>2, <2>3, <2>4, BlindStep
<1>4. CASE halting' = "over" /\ UNCHANGED worker
  <2>1. OrchestratorTypeOK'  BY <1>1, <1>4 DEF OrchestratorTypeOK, docs
  <2> QED  BY <1>1, <1>2, <1>4, <2>1, WorldStep
<1> QED  BY <1>3, <1>4 DEF ReadRun

LEMMA JudgeStep == ASSUME OInv, NEW v \in Workers, Judge(v) PROVE OInv'
<1> DEFINE x == [worker[v] EXCEPT !.pc = "orphans", !.sight = unit]
<1>1. OrchestratorTypeOK /\ UNCHANGED <<docs, branch, halting, troubles>>
  BY DEF OInv, Judge, OnlyWorker
<1>2. Frame /\ RestOK'
  BY <1>1, StillFrame DEF docs, OrchestratorTypeOK, RestOK
<1>3. CASE GlobalStop(v) # None /\ Closing(v, "stopped", GlobalStop(v))
  BY <1>1, <1>2, <1>3, GlobalStopType, ClosingStep
<1>4. CASE worker' = [worker EXCEPT ![v].pc = "orphans", ![v].sight = unit]
  <2>1. worker[v] \in Worker /\ unit \in Sight  BY <1>1 DEF OrchestratorTypeOK, Sight
  <2>2. x \in Worker  BY <2>1 DEF Worker, Pcs
  <2>3. x.pc = "orphans" /\ x.sight = unit  BY <2>1 DEF Worker
  <2>4. worker' = [worker EXCEPT ![v] = x]  BY <1>4
  <2> HIDE DEF x
  <2>5. worker' \in [Workers -> Worker] /\ worker'[v] = x /\ Others(v)
    BY <1>1, <2>2, <2>4, WorkerWritten DEF Others
  <2>6. OrchestratorTypeOK'  BY <1>2, <2>5, TypePartsNext
  <2>7. \A u \in Units : Knows(v, u)'
    <3>1. UnitInv /\ unit' = unit /\ \A u \in Units : unit[u].rev \in Nat
      BY <1>1 DEF OInv, docs, OrchestratorTypeOK, Unit
    <3>2. \A u \in Units : Reviewed(u) => Reviewed(u)'  BY <1>2, SuccessStays DEF Frame
    <3> QED  BY <2>3, <2>5, <3>1, <3>2 DEF Knows, UnitInv, Early
  <2>8. Ready(v)' /\ worker'[v].pc \notin Attempting  BY <2>3, <2>5 DEF Ready, Attempting
  <2> QED  BY <1>1, <1>2, <2>5, <2>6, <2>7, <2>8, OwnStep DEF Sound
<1> QED  BY <1>3, <1>4 DEF Judge

LEMMA RecoverOrphansStep == ASSUME OInv, NEW v \in Workers, RecoverOrphans(v) PROVE OInv'
<1> DEFINE orphans == {a \in AttemptIds : Recoverable(v, a)}
           rev == IF orphans = {} THEN worker[v].rev ELSE run.rev
           x == [worker[v] EXCEPT !.pc = "choose", !.rev = rev]
<1>1. /\ OrchestratorTypeOK /\ worker[v].pc = "orphans"
      /\ attempt' = [a \in AttemptIds |-> IF a \in orphans
                       THEN [attempt[a] EXCEPT !.status = "timed_out"] ELSE attempt[a]]
      /\ quiet' = (quiet /\ orphans = {})
      /\ worker' = [worker EXCEPT ![v].pc = "choose", ![v].rev = rev]
      /\ UNCHANGED <<run, ref, lease, unit, branch, halting, troubles>>
  BY DEF OInv, RecoverOrphans
<1>2. \A a \in orphans : attempt[a].status = "started"  BY DEF Recoverable, IsOrphan
<1> HIDE DEF orphans
<1>3. \A a \in AttemptIds : /\ attempt'[a] \in Attempt
                            /\ a \notin orphans => attempt'[a] = attempt[a]
                            /\ a \in orphans => attempt'[a].status = "timed_out"
                            /\ attempt'[a].unit = attempt[a].unit
                            /\ attempt'[a].step = attempt[a].step
  <2> SUFFICES ASSUME NEW a \in AttemptIds
               PROVE  /\ attempt'[a] \in Attempt
                      /\ a \notin orphans => attempt'[a] = attempt[a]
                      /\ a \in orphans => attempt'[a].status = "timed_out"
                      /\ attempt'[a].unit = attempt[a].unit
                      /\ attempt'[a].step = attempt[a].step
    OBVIOUS
  <2>1. attempt[a] \in Attempt  BY <1>1 DEF OrchestratorTypeOK
  <2>2. attempt'[a] = IF a \in orphans THEN [attempt[a] EXCEPT !.status = "timed_out"]
                      ELSE attempt[a]
    BY <1>1
  <2> QED  BY <2>1, <2>2 DEF Attempt, Ended
<1>4. RestOK'
  <2>1. attempt' \in [AttemptIds -> Attempt]  BY <1>1, <1>3
  <2>2. quiet' \in BOOLEAN  BY <1>1
  <2> QED  BY <1>1, <2>1, <2>2 DEF OrchestratorTypeOK, RestOK
<1>5. Frame
  <2>1. Kept  BY <1>2, <1>3 DEF Kept
  <2> QED  BY <1>1, <2>1 DEF Frame, Onward
<1>6. worker[v] \in Worker /\ rev \in Nat  BY <1>1 DEF OrchestratorTypeOK, Worker, Run
<1>7. worker' = [worker EXCEPT ![v] = x]  BY <1>1
<1> HIDE DEF rev
<1>8. x \in Worker  BY <1>6 DEF Worker, Pcs
<1>9. x.pc = "choose" /\ x.sight = worker[v].sight  BY <1>6 DEF Worker
<1> HIDE DEF x
<1> QED  BY <1>1, <1>4, <1>5, <1>7, <1>8, <1>9, ReadingStep DEF Reading

-----------------------------------------------------------------------------
(* The one action of a tick *)

LEMMA AcquireType ==
  ASSUME OrchestratorTypeOK, NEW v \in Workers, NEW u \in Units, Acquirable(u), Acquire(v, u)
  PROVE  /\ NewLease \in LeaseIds
         /\ lease' \in [LeaseIds -> Lease] /\ ref' \in References
<1>1. MaxLeases \in LeaseIds  BY OrchestratorAssumption DEF LeaseIds
<1>2. NewLease \in LeaseIds  BY <1>1 DEF NewLease, Acquirable
<1> DEFINE old == ref[u]
           epoch == IF old = None THEN 1 ELSE lease[old].epoch + 1
           next == [status |-> "active", unit |-> u, worker |-> v, fresh |-> TRUE, epoch |-> epoch]
<1>3. /\ lease' = [l \in LeaseIds |-> CASE l = NewLease -> next
                     [] l = old -> [lease[l] EXCEPT !.status = "superseded"]
                     [] OTHER -> lease[l]]
      /\ ref' = [ref EXCEPT ![u] = NewLease]
  BY DEF Acquire
<1>4. epoch \in Nat
  <2>1. old \in LeaseIds \cup {None}  BY DEF OrchestratorTypeOK, References
  <2>2. \A l \in LeaseIds : lease[l].epoch \in Nat  BY DEF OrchestratorTypeOK, Lease
  <2> QED  BY <2>1, <2>2
<1> HIDE DEF epoch
<1>5. next \in Lease  BY <1>4 DEF Lease
<1> HIDE DEF next, old
<1>6. ASSUME NEW l \in LeaseIds PROVE lease'[l] \in Lease
  <2>1. lease[l] \in Lease  BY DEF OrchestratorTypeOK
  <2>2. [lease[l] EXCEPT !.status = "superseded"] \in Lease  BY <2>1 DEF Lease
  <2>3. lease'[l] \in {next, [lease[l] EXCEPT !.status = "superseded"], lease[l]}
    BY <1>3
  <2> QED  BY <1>5, <2>1, <2>2, <2>3
<1>7. ref' \in References  BY <1>2, <1>3 DEF OrchestratorTypeOK, References
<1> QED  BY <1>2, <1>3, <1>6, <1>7

LEMMA ReassignStep == ASSUME OInv, NEW v \in Workers, Reassign(v) PROVE OInv'
<1>1. /\ OrchestratorTypeOK /\ Return(v)
      /\ UNCHANGED <<run, unit, attempt, quiet, branch, halting, troubles>>
  BY DEF OInv, Reassign
<1>2. lease' \in [LeaseIds -> Lease] /\ ref' \in References
  <2>1. PICK u \in Stale(v) : IF Acquirable(u) THEN Acquire(v, u) ELSE UNCHANGED <<lease, ref>>
    BY DEF Reassign
  <2>2. u \in Units  BY DEF Stale
  <2> QED  BY <1>1, <2>1, <2>2, AcquireType DEF OrchestratorTypeOK
<1>3. RestOK' /\ Frame  BY <1>1, <1>2, StillFrame DEF OrchestratorTypeOK, RestOK
<1> QED  BY <1>1, <1>3, ReturnStep

LEMMA StaffStep == ASSUME OInv, NEW v \in Workers, Staff(v) PROVE OInv'
<1>1. /\ OrchestratorTypeOK /\ worker[v].pc = "choose"
      /\ UNCHANGED <<run, unit, attempt, quiet, branch, halting, troubles>>
  BY DEF OInv, Staff
<1>2. PICK u \in Unstaffed(v) :
        \/ /\ Acquirable(u) /\ Acquire(v, u) /\ worker[v].sight[u].status = "ready"
           /\ worker' = [worker EXCEPT ![v] = [@ EXCEPT !.pc = "start", !.unit = u,
                                                        !.lease = NewLease]]
        \/ Acquirable(u) /\ Acquire(v, u) /\ Return(v)
        \/ Return(v) /\ UNCHANGED <<lease, ref>>
  BY DEF Staff
<1>3. u \in Units  BY DEF Unstaffed
<1>4. Frame  BY <1>1, StillFrame
<1>5. ASSUME Acquire(v, u), Acquirable(u) PROVE RestOK' /\ NewLease \in LeaseIds
  BY <1>1, <1>3, <1>5, AcquireType DEF OrchestratorTypeOK, RestOK
<1>6. ASSUME UNCHANGED <<lease, ref>> PROVE RestOK'
  BY <1>1, <1>6 DEF OrchestratorTypeOK, RestOK
<1>7. ASSUME Acquirable(u), Acquire(v, u), worker[v].sight[u].status = "ready",
             worker' = [worker EXCEPT ![v] = [@ EXCEPT !.pc = "start", !.unit = u,
                                                       !.lease = NewLease]]
      PROVE  OInv'
  <2> DEFINE x == [worker[v] EXCEPT !.pc = "start", !.unit = u, !.lease = NewLease]
  <2>1. worker[v] \in Worker /\ NewLease \in LeaseIds /\ RestOK'
    BY <1>1, <1>5, <1>7 DEF OrchestratorTypeOK
  <2>2. x \in Worker  BY <1>3, <2>1 DEF Worker, Pcs
  <2>3. x.pc = "start" /\ x.unit = u /\ x.sight = worker[v].sight  BY <2>1 DEF Worker
  <2>4. worker' = [worker EXCEPT ![v] = x]  BY <1>7
  <2> HIDE DEF x
  <2> QED  BY <1>1, <1>3, <1>4, <1>7, <2>1, <2>2, <2>3, <2>4, ReadingStep DEF Reading
<1> QED  BY <1>1, <1>2, <1>4, <1>5, <1>6, <1>7, ReturnStep

\* A transition of a Work Unit whose revision is the one the tick has read.
LEMMA MovedUnit ==
  ASSUME OInv, NEW v \in Workers, NEW u \in Units, NEW to, Moved(v, u, to),
         to \in Early => unit[u].status \in Early,
         to = "human_test" => Reviewed(u),
         UNCHANGED <<run, attempt, branch>>
  PROVE  /\ unit' \in [Units -> Unit] /\ quiet' \in BOOLEAN /\ Frame
         /\ unit'[u].status = to /\ \A w \in Units : w # u => unit'[w] = unit[w]
<1>1. /\ unit[u] \in Unit /\ unit \in [Units -> Unit] /\ quiet' = FALSE
      /\ to \in Allowed[unit[u].status] /\ unit[u].status \in UnitStatuses
      /\ unit' = [unit EXCEPT ![u].status = to, ![u].rev = @ + 1]
  BY DEF OInv, OrchestratorTypeOK, Moved, Unit
<1>2. to \in UnitStatuses /\ to # "done"  BY <1>1, Tables DEF Allowed
<1>3. [unit[u] EXCEPT !.status = to, !.rev = @ + 1] \in Unit  BY <1>1, <1>2 DEF Unit
<1>4. /\ unit' \in [Units -> Unit]
      /\ unit'[u].status = to /\ unit'[u].rev = unit[u].rev + 1 /\ unit'[u].risk = unit[u].risk
      /\ \A w \in Units : w # u => unit'[w] = unit[w]
  BY <1>1, <1>3 DEF Unit
<1>5. unit[u].rev \in Nat  BY <1>1 DEF Unit
<1>6. Moves(u)  BY <1>2, <1>4, <1>5 DEF Moves
<1>7. Frame  BY <1>4, <1>6 DEF Frame, Kept, Onward
<1> QED  BY <1>1, <1>4, <1>7

LEMMA StartUnitStep == ASSUME OInv, NEW v \in Workers, StartUnit(v) PROVE OInv'
<1> DEFINE u == worker[v].unit
<1>1. /\ OrchestratorTypeOK /\ worker[v].pc = "start" /\ Sound(v)
      /\ UNCHANGED <<run, ref, lease, attempt, branch, halting, troubles>>
  BY DEF OInv, StartUnit
<1>2. u \in Units /\ worker[v].sight[u].status = "ready"  BY <1>1 DEF Sound, Ready
<1>3. CASE Moved(v, u, "in_progress") /\ Return(v)
  <2>1. unit[u].status = "ready"
    BY <1>1, <1>2, <1>3 DEF Sound, Knows, Moved, Reading
  <2>2. unit' \in [Units -> Unit] /\ quiet' \in BOOLEAN /\ Frame
    BY <1>1, <1>2, <1>3, <2>1, MovedUnit DEF Early
  <2>3. RestOK'  BY <1>1, <2>2 DEF OrchestratorTypeOK, RestOK
  <2> QED  BY <1>1, <1>3, <2>2, <2>3, ReturnStep
<1>4. CASE Refused(v, u, "in_progress") /\ Goto(v, "letgo")
  <2> DEFINE x == [worker[v] EXCEPT !.pc = "letgo"]
  <2>1. UNCHANGED <<unit, quiet>>  BY <1>4 DEF Refused
  <2>2. RestOK' /\ Frame  BY <1>1, <2>1, StillFrame DEF OrchestratorTypeOK, RestOK
  <2>3. worker[v] \in Worker  BY <1>1 DEF OrchestratorTypeOK
  <2>4. x \in Worker /\ x.pc = "letgo" /\ x.sight = worker[v].sight  BY <2>3 DEF Worker, Pcs
  <2>5. worker' = [worker EXCEPT ![v] = x]  BY <1>4 DEF Goto
  <2> HIDE DEF x
  <2> QED  BY <1>1, <2>2, <2>4, <2>5, ReadingStep DEF Reading
<1> QED  BY <1>3, <1>4 DEF StartUnit

\* The step of a Work Unit is the one its status asks for, in audit after its reviews.
LEMMA DispatchFits ==
  ASSUME NEW u, NEW status, DispatchStep(u, status) # None
  PROVE  /\ status \in DOMAIN StatusToStep
         /\ DispatchStep(u, status) \in Steps
         /\ Fits(u, status, DispatchStep(u, status))
<1>1. CASE status \notin DOMAIN StatusToStep
  BY <1>1, Tables DEF DispatchStep
<1>2. CASE status \in DOMAIN StatusToStep \ {"audit"}
  <2>1. DispatchStep(u, status) = StatusToStep[status]  BY <1>2 DEF DispatchStep
  <2> QED  BY <1>2, <2>1, Tables DEF Fits
<1>3. CASE status = "audit"
  <2>1. status \in DOMAIN StatusToStep  BY <1>3, Tables
  <2>2. DispatchStep(u, status) =
          IF ~Succeeded(u, "security_review") THEN "security_review"
          ELSE IF Maximal /\ Succeeded(u, "audit") THEN "integration_review" ELSE "audit"
    BY <1>3, <2>1 DEF DispatchStep
  <2> QED  BY <1>3, <2>1, <2>2 DEF Fits, Reviewed, Steps
<1> QED  BY <1>1, <1>2, <1>3

LEMMA DispatchStarts == ASSUME OInv, NEW v \in Workers, Dispatch(v) PROVE OInv'
<1>1. /\ OrchestratorTypeOK /\ worker[v].pc = "choose"
      /\ UNCHANGED <<run, ref, lease, unit, quiet, branch, halting, troubles>>
  BY DEF OInv, Dispatch
<1>2. PICK u \in Mine(v) :
        LET step == DispatchStep(u, worker[v].sight[u].status)
            free == {a \in AttemptIds : attempt[a].status = "none"}
            l == worker[v].ref[u]
            here == [worker[v] EXCEPT !.unit = u, !.lease = l]
        IN \/ /\ worker' = [worker EXCEPT ![v] = [here EXCEPT !.pc = "demote",
                     !.next = NextOnExhaustion[worker[v].sight[u].status]]]
              /\ UNCHANGED attempt
           \/ \E a \in free :
                /\ attempt' = [attempt EXCEPT ![a] = [status |-> "started", unit |-> u,
                                                      lease |-> l, step |-> step]]
                /\ worker' = [worker EXCEPT ![v] = [here EXCEPT !.pc = "run", !.att = a]]
           \/ Return(v) /\ UNCHANGED attempt
  BY DEF Dispatch
<1> DEFINE status == worker[v].sight[u].status
           step == DispatchStep(u, status)
           l == worker[v].ref[u]
<1>3. u \in Units /\ step # None  BY DEF Mine
<1>4. status \in DOMAIN StatusToStep /\ step \in Steps /\ Fits(u, status, step)
  BY <1>3, DispatchFits
<1>5. worker[v] \in Worker  BY <1>1 DEF OrchestratorTypeOK
<1>6. l \in LeaseIds \cup {None}  BY <1>3, <1>5 DEF Worker, References
<1>7. NextOnExhaustion[status] \in {"blocked", "remediation_required"}  BY <1>4, Tables
<1> HIDE DEF step, l
<1>8. ASSUME UNCHANGED attempt PROVE RestOK' /\ Frame
  BY <1>1, <1>8, StillFrame DEF OrchestratorTypeOK, RestOK
<1>9. CASE /\ worker' = [worker EXCEPT ![v] = [worker[v] EXCEPT !.unit = u, !.lease = l,
                           !.pc = "demote", !.next = NextOnExhaustion[status]]]
           /\ UNCHANGED attempt
  <2> DEFINE n == NextOnExhaustion[status]
             x == [worker[v] EXCEPT !.unit = u, !.lease = l, !.pc = "demote", !.next = n]
  <2>1. n \in {"blocked", "remediation_required"} /\ n \in UnitStatuses  BY <1>7, Tables
  <2>2. worker' = [worker EXCEPT ![v] = x]  BY <1>9
  <2> HIDE DEF n
  <2>3. x \in Worker  BY <1>3, <1>5, <1>6, <2>1 DEF Worker, Pcs
  <2>4. x.pc = "demote" /\ x.unit = u /\ x.next = n /\ x.sight = worker[v].sight
    BY <1>5 DEF Worker
  <2> HIDE DEF x
  <2> QED  BY <1>1, <1>3, <1>8, <1>9, <2>1, <2>2, <2>3, <2>4, ReadingStep DEF Reading
<1>10. ASSUME NEW a \in AttemptIds, attempt[a].status = "none",
              attempt' = [attempt EXCEPT ![a] = [status |-> "started", unit |-> u,
                                                 lease |-> l, step |-> step]],
              worker' = [worker EXCEPT ![v] = [worker[v] EXCEPT !.unit = u, !.lease = l,
                                                                !.pc = "run", !.att = a]]
       PROVE  OInv'
  <2> DEFINE new == [status |-> "started", unit |-> u, lease |-> l, step |-> step]
             x == [worker[v] EXCEPT !.unit = u, !.lease = l, !.pc = "run", !.att = a]
  <2>1. new \in Attempt  BY <1>3, <1>4, <1>6 DEF Attempt
  <2>2. new.status = "started" /\ new.unit = u /\ new.step = step  OBVIOUS
  <2>3. worker' = [worker EXCEPT ![v] = x] /\ attempt' = [attempt EXCEPT ![a] = new]  BY <1>10
  <2> HIDE DEF new
  <2>4. /\ attempt' \in [AttemptIds -> Attempt] /\ attempt'[a] = new
        /\ \A b \in AttemptIds : b # a => attempt'[b] = attempt[b]
    BY <1>1, <2>1, <2>3 DEF OrchestratorTypeOK
  <2>5. RestOK'  BY <1>1, <2>4 DEF OrchestratorTypeOK, RestOK
  <2>6. Kept  BY <1>10, <2>4 DEF Kept
  <2>7. Frame  BY <1>1, <2>6 DEF Frame, Onward
  <2>8. x \in Worker  BY <1>3, <1>5, <1>6 DEF Worker, Pcs
  <2>9. x.pc = "run" /\ x.unit = u /\ x.att = a /\ x.sight = worker[v].sight  BY <1>5 DEF Worker
  <2> HIDE DEF x
  <2>10. Fits(x.unit, x.sight[x.unit].status, attempt'[x.att].step)
    BY <1>4, <2>2, <2>4, <2>9
  <2> QED
    BY <1>1, <1>3, <2>2, <2>3, <2>4, <2>5, <2>7, <2>8, <2>9, <2>10, ReadingStep DEF Reading
<1>11. CASE Return(v) /\ UNCHANGED attempt  BY <1>1, <1>8, <1>11, ReturnStep
<1> QED  BY <1>2, <1>9, <1>10, <1>11 DEF step, l

LEMMA DemoteStep == ASSUME OInv, NEW v \in Workers, Demote(v) PROVE OInv'
<1> DEFINE u == worker[v].unit
           to == worker[v].next
<1>1. /\ OrchestratorTypeOK /\ worker[v].pc = "demote" /\ Sound(v)
      /\ UNCHANGED <<run, ref, lease, attempt, branch, halting, troubles>>
  BY DEF OInv, Demote
<1>2. u \in Units /\ to \in {"blocked", "remediation_required"}  BY <1>1 DEF Sound, Ready
<1>3. CASE Moved(v, u, to) /\ Goto(v, "letgo")
  <2> DEFINE x == [worker[v] EXCEPT !.pc = "letgo"]
  <2>1. unit' \in [Units -> Unit] /\ quiet' \in BOOLEAN /\ Frame
    BY <1>1, <1>2, <1>3, MovedUnit DEF Early
  <2>2. RestOK'  BY <1>1, <2>1 DEF OrchestratorTypeOK, RestOK
  <2>3. worker[v] \in Worker  BY <1>1 DEF OrchestratorTypeOK
  <2>4. x \in Worker /\ x.pc = "letgo" /\ x.sight = worker[v].sight  BY <2>3 DEF Worker, Pcs
  <2>5. worker' = [worker EXCEPT ![v] = x]  BY <1>3 DEF Goto
  <2> HIDE DEF x
  <2> QED  BY <1>1, <2>1, <2>2, <2>4, <2>5, LettingGo
<1>4. CASE Refused(v, u, to) /\ Return(v)
  <2>1. UNCHANGED <<unit, quiet>>  BY <1>4 DEF Refused
  <2>2. RestOK' /\ Frame  BY <1>1, <2>1, StillFrame DEF OrchestratorTypeOK, RestOK
  <2> QED  BY <1>1, <1>4, <2>2, ReturnStep
<1> QED  BY <1>3, <1>4 DEF Demote

LEMMA ConcludeStep == ASSUME OInv, NEW v \in Workers, Conclude(v) PROVE OInv'
<1>1. /\ OrchestratorTypeOK /\ Sound(v) /\ run \in Run
      /\ UNCHANGED <<ref, lease, unit, attempt, quiet, branch, halting, troubles>>
  BY DEF OInv, OrchestratorTypeOK, Conclude
<1>2. \/ ~run.candidate /\ run' = [run EXCEPT !.candidate = Authorized] /\ Return(v)
      \/ ReadyForReview(v) /\ (Maximal => run.candidate) /\ Closing(v, "completed", None)
         /\ UNCHANGED run
      \/ Closing(v, "stopped", "no_dispatchable_work") /\ UNCHANGED run
      \/ Return(v) /\ UNCHANGED run
  BY DEF Conclude
<1>3. ASSUME UNCHANGED run PROVE RestOK' /\ Frame
  BY <1>1, <1>3, StillFrame DEF OrchestratorTypeOK, RestOK
<1>4. CASE ~run.candidate /\ run' = [run EXCEPT !.candidate = Authorized] /\ Return(v)
  <2>1. Authorized \in BOOLEAN  BY DEF Authorized
  <2>2. run' \in Run  BY <1>1, <1>4, <2>1 DEF Run
  <2>3. RestOK' /\ Frame  BY <1>1, <1>4, <2>2, StillFrame DEF OrchestratorTypeOK, RestOK
  <2> QED  BY <1>1, <1>4, <2>3, ReturnStep
<1>5. CASE ReadyForReview(v) /\ (Maximal => run.candidate) /\ Closing(v, "completed", None)
           /\ UNCHANGED run
  <2>1. \A u \in Units : worker[v].sight[u].status \in {"human_test", "done"}
    BY <1>5 DEF ReadyForReview, SightStatuses
  <2>2. \A u \in Units : Reviewed(u)  BY <1>1, <2>1 DEF Sound, Knows
  <2> QED  BY <1>1, <1>3, <1>5, <2>2, ClosingStep
<1>6. CASE Closing(v, "stopped", "no_dispatchable_work") /\ UNCHANGED run
  <2>1. "no_dispatchable_work" \in StopConditions  BY DEF StopConditions
  <2> QED  BY <1>1, <1>3, <1>6, <2>1, ClosingStep
<1>7. CASE Return(v) /\ UNCHANGED run  BY <1>1, <1>3, <1>7, ReturnStep
<1> QED  BY <1>2, <1>4, <1>5, <1>6, <1>7

-----------------------------------------------------------------------------
(* One attempt, to its end *)

\* The tick goes to its next step and nothing else about it changes.
LEMMA GotoStep ==
  ASSUME OInv, RestOK', Frame, NEW v \in Workers, worker[v].pc \in Attempting,
         NEW pc \in {"fence", "merge", "verify", "after", "advance", "move", "letgo"}, Goto(v, pc),
         pc \in Recorded => worker[v].pc \in Recorded,
         pc = "verify" => worker[v].unit \in branch'.merged,
         branch'.recorded = branch.recorded \/ RecordedIsMerged'
  PROVE  OInv'
<1> DEFINE x == [worker[v] EXCEPT !.pc = pc]
<1>1. OrchestratorTypeOK /\ Attempts(v) /\ worker[v] \in Worker
  BY DEF OInv, Sound, OrchestratorTypeOK
<1>2. worker' = [worker EXCEPT ![v] = x]  BY DEF Goto
<1>3. x \in Worker  BY <1>1 DEF Worker, Pcs
<1>4. /\ x.pc = pc /\ x.out = worker[v].out /\ x.sight = worker[v].sight
      /\ x.unit = worker[v].unit /\ x.att = worker[v].att
  BY <1>1 DEF Worker
<1> HIDE DEF x
<1>5. pc \in Recorded /\ worker[v].out = "succeeded" =>
        attempt'[worker[v].att].status = "succeeded"
  BY <1>1 DEF Attempts, Frame, Kept
<1>6. pc \in Attempting \cup {"letgo"}  BY DEF Attempting
<1> QED  BY <1>2, <1>3, <1>4, <1>5, <1>6, GoingStep

LEMMA RunAgentStep == ASSUME OInv, NEW v \in Workers, RunAgent(v) PROVE OInv'
<1>1. /\ OrchestratorTypeOK /\ worker[v].pc \in Attempting /\ Goto(v, "fence")
      /\ UNCHANGED <<docs, branch, halting, troubles>>
  BY DEF OInv, RunAgent, OnlyWorker, Attempting
<1>2. RestOK' /\ Frame  BY <1>1, StillFrame DEF OrchestratorTypeOK, RestOK, docs
<1> QED  BY <1>1, <1>2, GotoStep DEF Recorded

\* The heartbeat that FenceIntegration and FollowUp record.
LEMMA FreshType ==
  ASSUME OrchestratorTypeOK, NEW l, NEW b \in BOOLEAN, lease' = [lease EXCEPT ![l].fresh = b]
  PROVE  lease' \in [LeaseIds -> Lease]
<1>1. \A k \in LeaseIds : lease[k] \in Lease /\ [lease[k] EXCEPT !.fresh = b] \in Lease
  BY DEF OrchestratorTypeOK, Lease
<1> QED  BY <1>1 DEF OrchestratorTypeOK

LEMMA FenceIntegrationStep == ASSUME OInv, NEW v \in Workers, FenceIntegration(v) PROVE OInv'
<1> DEFINE l == worker[v].lease
<1>1. /\ OrchestratorTypeOK /\ worker[v].pc \in Attempting
      /\ UNCHANGED <<run, ref, unit, attempt, quiet, branch, halting, troubles>>
      /\ \/ lease' = [lease EXCEPT ![l].fresh = TRUE] /\ Goto(v, "merge")
         \/ Return(v) /\ UNCHANGED lease
  BY DEF OInv, FenceIntegration, Attempting
<1>2. lease' \in [LeaseIds -> Lease]  BY <1>1, FreshType DEF OrchestratorTypeOK
<1>3. RestOK' /\ Frame  BY <1>1, <1>2, StillFrame DEF OrchestratorTypeOK, RestOK
<1> QED  BY <1>1, <1>3, GotoStep, ReturnStep DEF Recorded

LEMMA MergeBranchStep == ASSUME OInv, NEW v \in Workers, MergeBranch(v) PROVE OInv'
<1> DEFINE u == worker[v].unit
<1>1. /\ OrchestratorTypeOK /\ worker[v].pc \in Attempting /\ u \in Units
      /\ branch \in [merged : SUBSET Units, recorded : SUBSET Units]
      /\ UNCHANGED <<docs, halting, troubles>>
  BY DEF OInv, Sound, Attempts, OrchestratorTypeOK, MergeBranch, Attempting
<1>2. CASE branch' = [branch EXCEPT !.merged = @ \cup {u}] /\ Goto(v, "verify")
  <2>1. /\ branch' \in [merged : SUBSET Units, recorded : SUBSET Units]
        /\ branch'.merged = branch.merged \cup {u} /\ branch'.recorded = branch.recorded
    BY <1>1, <1>2
  <2>2. RestOK'  BY <1>1, <2>1 DEF OrchestratorTypeOK, RestOK, docs
  <2>3. Frame  BY <1>1, <2>1 DEF Frame, Kept, Onward, docs
  <2> QED  BY <1>1, <1>2, <2>1, <2>2, <2>3, GotoStep DEF Recorded
<1>3. CASE worker' = [worker EXCEPT ![v].pc = "record", ![v].out = "failed"] /\ UNCHANGED branch
  <2>1. RestOK' /\ Frame  BY <1>1, <1>3, StillFrame DEF OrchestratorTypeOK, RestOK, docs
  <2>2. worker' = [worker EXCEPT ![v].pc = "record", ![v].out = "failed"]  BY <1>3
  <2> QED  BY <1>1, <1>3, <2>1, <2>2, OutcomeStep DEF Ended
<1> QED  BY <1>2, <1>3 DEF MergeBranch

LEMMA RevalidateStep == ASSUME OInv, NEW v \in Workers, Revalidate(v) PROVE OInv'
<1>1. /\ OrchestratorTypeOK /\ worker[v].pc \in Attempting /\ worker[v].unit \in branch.merged
      /\ UNCHANGED <<docs, branch, halting, troubles>>
  BY DEF OInv, Sound, Attempts, Merged, Revalidate, Attempting, OnlyWorker
<1>2. RestOK' /\ Frame  BY <1>1, StillFrame DEF OrchestratorTypeOK, RestOK, docs
<1>3. PICK out \in {"succeeded", "failed"} :
        worker' = [worker EXCEPT ![v].pc = "record", ![v].out = out]
  BY DEF Revalidate
<1> QED  BY <1>1, <1>2, <1>3, OutcomeStep DEF Ended

LEMMA RecordAttemptStep == ASSUME OInv, NEW v \in Workers, RecordAttempt(v) PROVE OInv'
<1> DEFINE a == worker[v].att
<1>1. /\ OrchestratorTypeOK /\ worker[v].pc \in {"run", "record"} /\ Attempts(v)
      /\ worker[v].pc \in Attempting
      /\ UNCHANGED <<ref, lease, unit, branch, halting, troubles>>
  BY DEF OInv, Sound, RecordAttempt, Attempting
<1>2. PICK out \in Ends(v) :
       \/ /\ Recordable(v, out)
          /\ attempt' = [attempt EXCEPT ![a].status = out]
          /\ quiet' = FALSE
          /\ run' = run \/ run' = [run EXCEPT !.grant = "spent"]
          /\ CASE out = "outside"   -> Closing(v, "stopped", "out_of_workspace_write")
               [] out = "isolation" -> Closing(v, "stopped", "worker_isolation_unguaranteed")
               [] OTHER -> worker' = [worker EXCEPT ![v].out = out,
                    ![v].pc = IF out = "succeeded" /\ Integrates(v) THEN "recordmerge" ELSE "after",
                    ![v].stop = IF run' = run THEN None ELSE "budget_exhausted"]
       \/ /\ ~Recordable(v, out)
          /\ IF GlobalStop(v) # None /\ out # "isolation"
             THEN Closing(v, "stopped", GlobalStop(v)) ELSE Return(v)
          /\ UNCHANGED <<run, attempt, quiet>>
  BY DEF RecordAttempt
<1>3. out \in Ended
  <2>1. worker[v].pc = "record" => worker[v].out \in Ended  BY <1>1 DEF Attempts
  <2>2. worker[v].pc = "run" => out \in Outcomes
    BY DEF Ends, IsolationEnds, ExecutionEnds, BoundaryEnds
  <2>3. worker[v].pc = "record" => out = worker[v].out  BY DEF Ends
  <2> QED  BY <1>1, <2>1, <2>2, <2>3 DEF Ended
<1>4. out = "succeeded" /\ Integrates(v) => worker[v].pc = "record" /\ worker[v].out = "succeeded"
  BY <1>1 DEF Ends
<1>5. ASSUME /\ Recordable(v, out)
             /\ attempt' = [attempt EXCEPT ![a].status = out]
             /\ quiet' = FALSE
             /\ run' = run \/ run' = [run EXCEPT !.grant = "spent"]
      PROVE  RestOK' /\ Frame /\ attempt'[a].status = out
  <2>1. attempt[a] \in Attempt /\ attempt[a].status = "started" /\ a \in AttemptIds
    BY <1>1, <1>5 DEF OrchestratorTypeOK, Attempts, Recordable
  <2>2. [attempt[a] EXCEPT !.status = out] \in Attempt  BY <1>3, <2>1 DEF Attempt
  <2>3. /\ attempt' \in [AttemptIds -> Attempt]
        /\ attempt'[a].status = out /\ attempt'[a].unit = attempt[a].unit
        /\ attempt'[a].step = attempt[a].step
        /\ \A b \in AttemptIds : b # a => attempt'[b] = attempt[b]
    BY <1>1, <1>5, <2>1, <2>2 DEF OrchestratorTypeOK, Attempt
  <2>4. out # "none"  BY <1>3, OrchestratorAssumption DEF Ended
  <2>5. Kept  BY <2>1, <2>3, <2>4 DEF Kept
  <2>6. run \in Run  BY <1>1 DEF OrchestratorTypeOK
  <2>7. run' \in Run /\ run'.candidate = run.candidate  BY <1>5, <2>6 DEF Run
  <2>8. RestOK'  BY <1>1, <1>5, <2>3, <2>7 DEF OrchestratorTypeOK, RestOK
  <2>9. Frame  BY <1>1, <2>5, <2>7 DEF Frame, Onward
  <2> QED  BY <2>3, <2>8, <2>9
<1>6. ASSUME /\ Recordable(v, out)
             /\ attempt' = [attempt EXCEPT ![a].status = out]
             /\ quiet' = FALSE
             /\ run' = run \/ run' = [run EXCEPT !.grant = "spent"],
             worker' = [worker EXCEPT ![v].out = out,
                 ![v].pc = IF out = "succeeded" /\ Integrates(v) THEN "recordmerge" ELSE "after",
                 ![v].stop = IF run' = run THEN None ELSE "budget_exhausted"]
      PROVE  OInv'
  <2> DEFINE pc == IF out = "succeeded" /\ Integrates(v) THEN "recordmerge" ELSE "after"
             stop == IF run' = run THEN None ELSE "budget_exhausted"
  <2>1. /\ pc \in {"recordmerge", "after"} /\ stop \in StopConditions \cup {None}
        /\ pc = "recordmerge" => out = "succeeded" /\ attempt[a].step = "integration_review"
    BY DEF StopConditions, Integrates
  <2> DEFINE x == [worker[v] EXCEPT !.out = out, !.pc = pc, !.stop = stop]
  <2>2. worker' = [worker EXCEPT ![v] = x]  BY <1>6
  <2> HIDE DEF pc, stop
  <2>3. worker[v] \in Worker  BY <1>1 DEF OrchestratorTypeOK
  <2>4. x \in Worker  BY <1>3, <2>1, <2>3 DEF Worker, Pcs
  <2>5. /\ x.pc = pc /\ x.out = out /\ x.sight = worker[v].sight
        /\ x.unit = worker[v].unit /\ x.att = a
    BY <2>3 DEF Worker
  <2> HIDE DEF x
  <2>6. pc = "recordmerge" => worker[v].unit \in branch'.merged
    BY <1>1, <1>4, <2>1 DEF Attempts, Merged, Integrates
  <2>7. pc \in Attempting /\ pc \notin {"verify", "record"}  BY <2>1 DEF Attempting
  <2>8. RestOK' /\ Frame /\ attempt'[a].status = out  BY <1>5, <1>6
  <2> QED  BY <1>1, <1>3, <2>1, <2>2, <2>4, <2>5, <2>6, <2>7, <2>8, GoingStep
<1>7. ASSUME NEW stop \in StopConditions, Closing(v, "stopped", stop),
             /\ Recordable(v, out)
             /\ attempt' = [attempt EXCEPT ![a].status = out]
             /\ quiet' = FALSE
             /\ run' = run \/ run' = [run EXCEPT !.grant = "spent"]
      PROVE  OInv'
  BY <1>1, <1>5, <1>7, ClosingStep
<1>8. CASE /\ IF GlobalStop(v) # None /\ out # "isolation"
              THEN Closing(v, "stopped", GlobalStop(v)) ELSE Return(v)
           /\ UNCHANGED <<run, attempt, quiet>>
  <2>1. RestOK' /\ Frame  BY <1>1, <1>8, StillFrame DEF OrchestratorTypeOK, RestOK
  <2> QED  BY <1>1, <1>8, <2>1, GlobalStopType, ClosingStep, ReturnStep
<1>9. {"out_of_workspace_write", "worker_isolation_unguaranteed"} \subseteq StopConditions
  BY DEF StopConditions
<1> HIDE DEF a
<1>10. CASE out = "outside"  BY <1>2, <1>7, <1>8, <1>9, <1>10
<1>11. CASE out = "isolation"  BY <1>2, <1>7, <1>8, <1>9, <1>11
<1>12. CASE out \notin {"outside", "isolation"}  BY <1>2, <1>6, <1>8, <1>12
<1> QED  BY <1>10, <1>11, <1>12

LEMMA RecordMergeStep == ASSUME OInv, NEW v \in Workers, RecordMerge(v) PROVE OInv'
<1> DEFINE u == worker[v].unit
<1>1. /\ OrchestratorTypeOK /\ worker[v].pc = "recordmerge" /\ Attempts(v)
      /\ branch \in [merged : SUBSET Units, recorded : SUBSET Units]
      /\ UNCHANGED <<docs, halting, troubles>>
  BY DEF OInv, Sound, OrchestratorTypeOK, RecordMerge, Attempting
<1>2. CASE branch' = [branch EXCEPT !.recorded = @ \cup {u}] /\ Goto(v, "after")
  <2>1. u \in Units /\ u \in branch.merged  BY <1>1 DEF Attempts, Merged
  <2>2. Succeeded(u, "integration_review")
    BY <1>1 DEF Attempts, Succeeded, Of, Recorded
  <2>3. /\ branch' \in [merged : SUBSET Units, recorded : SUBSET Units]
        /\ branch'.merged = branch.merged /\ branch'.recorded = branch.recorded \cup {u}
    BY <1>1, <1>2, <2>1
  <2>4. RestOK'  BY <1>1, <2>3 DEF OrchestratorTypeOK, RestOK, docs
  <2>5. Frame  BY <1>1, <2>3 DEF Frame, Kept, Onward, docs
  <2>6. RecordedIsMerged'
    <3>1. \A w : Succeeded(w, "integration_review") => Succeeded(w, "integration_review")'
      BY <2>5, SuccessStays DEF Frame
    <3>2. RecordedIsMerged  BY DEF OInv
    <3> QED  BY <2>1, <2>2, <2>3, <3>1, <3>2 DEF RecordedIsMerged
  <2> QED  BY <1>1, <1>2, <2>4, <2>5, <2>6, GotoStep DEF Recorded, Attempting
<1>3. CASE Return(v) /\ UNCHANGED branch
  <2>1. RestOK' /\ Frame  BY <1>1, <1>3, StillFrame DEF OrchestratorTypeOK, RestOK, docs
  <2> QED  BY <1>1, <1>3, <2>1, ReturnStep
<1> QED  BY <1>2, <1>3 DEF RecordMerge

LEMMA FollowUpStep == ASSUME OInv, NEW v \in Workers, FollowUp(v) PROVE OInv'
<1> DEFINE l == worker[v].lease
<1>1. /\ OrchestratorTypeOK /\ worker[v].pc = "after"
      /\ UNCHANGED <<run, ref, unit, attempt, quiet, branch, halting, troubles>>
  BY DEF OInv, FollowUp
<1>2. \/ Closing(v, "stopped", worker[v].stop) /\ UNCHANGED lease
      \/ Closing(v, "stopped", GlobalStop(v)) /\ UNCHANGED lease
      \/ lease' = [lease EXCEPT ![l].fresh = TRUE] /\ Goto(v, "advance")
      \/ Return(v) /\ UNCHANGED lease
  BY DEF FollowUp
<1>3. lease' \in [LeaseIds -> Lease]  BY <1>1, <1>2, FreshType DEF OrchestratorTypeOK
<1>4. RestOK' /\ Frame  BY <1>1, <1>3, StillFrame DEF OrchestratorTypeOK, RestOK
<1>5. worker[v].stop \in StopConditions \cup {None} /\ GlobalStop(v) \in StopConditions \cup {None}
  BY <1>1, GlobalStopType DEF OrchestratorTypeOK, Worker
<1>6. worker[v].pc \in Attempting /\ worker[v].pc \in Recorded
  BY <1>1 DEF Attempting, Recorded
<1> QED  BY <1>1, <1>2, <1>4, <1>5, <1>6, ClosingStep, GotoStep, ReturnStep

\* A pause or a reassignment ends leases, whoever holds them.
LEMMA EndedLeases ==
  ASSUME OrchestratorTypeOK, NEW how \in {"released", "revoked"}, NEW ls,
         lease' = [l \in LeaseIds |-> IF l \in ls THEN [lease[l] EXCEPT !.status = how]
                                      ELSE lease[l]]
  PROVE  lease' \in [LeaseIds -> Lease]
<1>1. \A l \in LeaseIds : lease[l] \in Lease /\ [lease[l] EXCEPT !.status = how] \in Lease
  BY DEF OrchestratorTypeOK, Lease
<1> QED  BY <1>1

LEMMA Unleased ==
  ASSUME OrchestratorTypeOK, NEW u, ref' = [ref EXCEPT ![u] = None] PROVE ref' \in References
BY DEF OrchestratorTypeOK, References

\* A Work Unit whose document an escalation or a decision writes.
LEMMA UnitWritten ==
  ASSUME OInv, NEW u \in Units, NEW x \in Unit, unit' = [unit EXCEPT ![u] = x],
         x.rev = unit[u].rev + 1, x.risk = unit[u].risk \/ x.risk = "above",
         \/ x.status = unit[u].status
         \/ x.status = "waiting_decision" /\ x.risk = "above"
         \/ unit[u].status \in Early /\ x.status \in Early,
         UNCHANGED <<attempt, branch>>, run.candidate => run'.candidate
  PROVE  unit' \in [Units -> Unit] /\ unit'[u] = x /\ Frame
<1>1. unit \in [Units -> Unit] /\ unit[u].rev \in Nat
  BY DEF OInv, OrchestratorTypeOK, Unit
<1>2. /\ unit' \in [Units -> Unit] /\ unit'[u] = x
      /\ \A w \in Units : w # u => unit'[w] = unit[w]
  BY <1>1
<1>3. unit[u].status # "done" /\ (unit[u].status = "human_test" => Reviewed(u))
  BY DEF OInv, UnitInv
<1>4. Moves(u)  BY <1>1, <1>2, <1>3 DEF Moves, Early
<1>5. Frame  BY <1>2, <1>4 DEF Frame, Kept, Onward
<1> QED  BY <1>2, <1>5

LEMMA EscalateStep == ASSUME OInv, NEW v \in Workers, Escalate(v) PROVE OInv'
<1> PICK u \in Units : u = worker[v].unit
  BY DEF OInv, Sound, Escalate, Attempting, Attempts
<1> DEFINE current == ref[u]
<1>1. /\ OrchestratorTypeOK /\ worker[v].pc = "advance" /\ Sound(v) /\ Attempts(v)
      /\ run' = [run EXCEPT !.rev = @ + 1] /\ quiet' = FALSE
      /\ troubles < MaxTroubles /\ troubles' = troubles + 1
      /\ UNCHANGED <<attempt, branch, halting>>
  BY DEF OInv, Sound, Escalate, Attempting
<1>2. u \in Units /\ run \in Run /\ unit[u] \in Unit /\ worker[v] \in Worker
  BY <1>1 DEF Attempts, OrchestratorTypeOK
<1>3. run' \in Run /\ run'.candidate = run.candidate  BY <1>1, <1>2 DEF Run
<1>4. troubles' \in 0 .. MaxTroubles
  BY <1>1, OrchestratorAssumption DEF OrchestratorTypeOK
<1>5. ASSUME unit' = [unit EXCEPT ![u] = [status |-> PausedStatus, rev |-> unit[u].rev + 1,
                                          risk |-> "above"]],
             lease' = [l \in LeaseIds |-> IF l = current THEN [lease[l] EXCEPT !.status = "released"]
                                          ELSE lease[l]],
             ref' = [ref EXCEPT ![u] = None], Return(v)
      PROVE  OInv'
  <2> DEFINE x == [status |-> PausedStatus, rev |-> unit[u].rev + 1, risk |-> "above"]
  <2>1. x \in Unit  BY <1>2, Tables DEF Unit, PausedStatus
  <2>2. x.status = "waiting_decision" /\ x.rev = unit[u].rev + 1 /\ x.risk = "above"
    BY DEF PausedStatus
  <2>3. unit' = [unit EXCEPT ![u] = x]  BY <1>5
  <2> HIDE DEF x
  <2>4. unit' \in [Units -> Unit] /\ Frame
    BY <1>1, <1>2, <1>3, <2>1, <2>2, <2>3, UnitWritten
  <2>5. lease' \in [LeaseIds -> Lease]
    <3>1. lease' = [l \in LeaseIds |-> IF l \in {current}
                      THEN [lease[l] EXCEPT !.status = "released"] ELSE lease[l]]
      BY <1>5
    <3> QED  BY <1>1, <3>1, EndedLeases
  <2>6. ref' \in References  BY <1>1, <1>5, Unleased
  <2>7. RestOK'  BY <1>1, <1>3, <1>4, <2>4, <2>5, <2>6 DEF OrchestratorTypeOK, RestOK
  <2> QED  BY <1>1, <1>5, <2>4, <2>7, ReturnStep
<1>6. ASSUME unit[u].risk = "within", unit' = [unit EXCEPT ![u].rev = @ + 1],
             worker' = [worker EXCEPT ![v].sight[u].rev = unit[u].rev + 1, ![v].pc = "decide"],
             UNCHANGED <<lease, ref>>
      PROVE  OInv'
  <2> DEFINE x == [unit[u] EXCEPT !.rev = @ + 1]
             seen == [worker[v].sight[u] EXCEPT !.rev = unit[u].rev + 1]
             sight == [worker[v].sight EXCEPT ![u] = seen]
             y == [worker[v] EXCEPT !.sight = sight, !.pc = "decide"]
  <2>1. x \in Unit /\ x.rev = unit[u].rev + 1 /\ x.risk = "within" /\ x.status = unit[u].status
    BY <1>2, <1>6 DEF Unit
  <2>2. unit' = [unit EXCEPT ![u] = x]  BY <1>6
  <2> HIDE DEF x
  <2>3. unit' \in [Units -> Unit] /\ unit'[u] = x /\ Frame
    <3>1. x.risk = unit[u].risk  BY <1>6, <2>1
    <3>2. UNCHANGED <<attempt, branch>> /\ run'.candidate = run.candidate  BY <1>1, <1>3
    <3> QED  BY <2>1, <2>2, <3>1, <3>2, UnitWritten
  <2>4. RestOK'  BY <1>1, <1>3, <1>4, <1>6, <2>3 DEF OrchestratorTypeOK, RestOK
  <2>5. worker[v].sight \in Sight /\ worker[v].sight[u] \in Unit /\ unit[u].rev \in Nat
    BY <1>2 DEF Worker, Sight, Unit
  <2>6. /\ seen \in Unit /\ seen.rev = unit[u].rev + 1
        /\ seen.status = worker[v].sight[u].status
    BY <2>5 DEF Unit
  <2> HIDE DEF seen
  <2>7. sight \in Sight /\ sight[u] = seen /\ \A w \in Units : w # u => sight[w] = worker[v].sight[w]
    BY <1>2, <2>5, <2>6 DEF Sight
  <2>8. worker' = [worker EXCEPT ![v] = y]  BY <1>6 DEF seen
  <2> HIDE DEF sight
  <2>9. y \in Worker  BY <1>2, <2>7 DEF Worker, Pcs
  <2>10. /\ y.sight = sight /\ y.pc = "decide" /\ y.unit = u /\ y.att = worker[v].att
         /\ y.out = worker[v].out
    BY <1>2 DEF Worker
  <2> HIDE DEF y
  <2>11. worker' \in [Workers -> Worker] /\ worker'[v] = y /\ Others(v)
    BY <1>1, <2>8, <2>9, WorkerWritten DEF Others
  <2>12. OrchestratorTypeOK'  BY <2>4, <2>11, TypePartsNext
  <2>13. Attempts(v)'
    <3>1. PICK s, a, step :
            s = worker[v].sight[u].status /\ a = worker[v].att /\ step = attempt[a].step
      OBVIOUS
    <3>2. Fits(u, s, step)  BY <1>1, <3>1 DEF Attempts
    <3>3. Fits(u, s, step)'  BY <2>3, <3>2, SuccessStays DEF Frame
    <3>4. /\ worker'[v].pc = "decide" /\ worker'[v].unit = u /\ worker'[v].att = a
          /\ worker'[v].out = worker[v].out /\ worker'[v].sight[u].status = s
          /\ attempt' = attempt
      BY <1>1, <2>6, <2>7, <2>10, <2>11, <3>1
    <3> QED  BY <1>1, <3>1, <3>3, <3>4 DEF Attempts, Merged, Recorded
  <2>14. Ready(v)'  BY <2>10, <2>11 DEF Ready
  <2>15. ASSUME NEW w \in Units PROVE Knows(v, w)'
    <3>1. worker'[v].pc \notin Reading  BY <2>10, <2>11 DEF Reading
    <3>2. CASE w # u
      <4>1. Knows(v, w) /\ unit'[w] = unit[w]  BY <1>1, <2>2, <3>2 DEF Sound, OrchestratorTypeOK
      <4>2. worker'[v].sight[w] = worker[v].sight[w]  BY <2>7, <2>10, <2>11, <3>2
      <4>3. Reviewed(w) => Reviewed(w)'  BY <2>3, SuccessStays DEF Frame
      <4> QED  BY <3>1, <4>1, <4>2, <4>3 DEF Knows
    <3>3. CASE w = u
      <4>1. Knows(v, u)  BY <1>1, <1>2 DEF Sound
      <4>2. Reviewed(u) => Reviewed(u)'  BY <2>3, SuccessStays DEF Frame
      <4>3. /\ worker'[v].sight[u].status = worker[v].sight[u].status
            /\ worker'[v].sight[u].rev = unit'[u].rev
            /\ unit'[u].status = unit[u].status /\ unit'[u].rev \in Nat
        BY <2>1, <2>3, <2>5, <2>6, <2>7, <2>10, <2>11
      <4>4. worker[v].sight[u].status = "remediation_required" => unit[u].status \notin Early
        BY <1>6, <4>1 DEF Knows
      <4> QED  BY <3>1, <3>3, <4>1, <4>2, <4>3, <4>4 DEF Knows, Early
    <3> QED  BY <3>2, <3>3
  <2> QED  BY <1>1, <2>3, <2>11, <2>12, <2>13, <2>14, <2>15, OwnStep DEF Sound
<1> QED  BY <1>5, <1>6 DEF Escalate

LEMMA AnsweredStep == ASSUME OInv, NEW v \in Workers, Answered(v) PROVE OInv'
<1>1. /\ OrchestratorTypeOK /\ worker[v].pc \in {"advance", "decide"}
      /\ worker[v].pc \in Attempting /\ worker[v].pc \in Recorded
      /\ troubles < MaxTroubles /\ troubles' = troubles + 1
      /\ UNCHANGED <<run, ref, lease, attempt, branch, halting>>
  BY DEF OInv, Answered, Attempting, Recorded
<1> PICK u \in Units : u = worker[v].unit  BY <1>1 DEF OInv, Sound, Attempts
<1>2. troubles' \in 0 .. MaxTroubles
  BY <1>1, OrchestratorAssumption DEF OrchestratorTypeOK
<1>3. unit' \in [Units -> Unit] /\ quiet' \in BOOLEAN /\ Frame
  <2>1. CASE /\ unit[u].status = "waiting_decision"
             /\ unit' = [unit EXCEPT ![u].status = "in_progress", ![u].rev = @ + 1]
             /\ quiet' = FALSE
    <3> DEFINE x == [unit[u] EXCEPT !.status = "in_progress", !.rev = @ + 1]
    <3>1. unit[u] \in Unit  BY <1>1 DEF OrchestratorTypeOK
    <3>2. unit[u].rev + 1 \in Nat /\ "in_progress" \in UnitStatuses  BY <3>1, Tables DEF Unit
    <3>3. x = [unit[u] EXCEPT !.status = "in_progress", !.rev = unit[u].rev + 1]
      BY <3>1 DEF Unit
    <3>4. x \in Unit  BY <3>1, <3>2, <3>3 DEF Unit
    <3>5. x.status = "in_progress" /\ x.rev = unit[u].rev + 1 /\ x.risk = unit[u].risk
      BY <3>1 DEF Unit
    <3>6. unit' = [unit EXCEPT ![u] = x]  BY <2>1
    <3> HIDE DEF x
    <3> QED  BY <1>1, <2>1, <3>4, <3>5, <3>6, UnitWritten DEF Early
  <2>2. CASE UNCHANGED <<unit, quiet>>
    BY <1>1, <2>2, StillFrame DEF OrchestratorTypeOK
  <2> QED  BY <2>1, <2>2 DEF Answered
<1>4. RestOK'  BY <1>1, <1>2, <1>3 DEF OrchestratorTypeOK, RestOK
<1>5. Goto(v, "move") \/ Return(v)  BY DEF Answered
<1> QED  BY <1>1, <1>3, <1>4, <1>5, GotoStep, ReturnStep

LEMMA UnansweredStep == ASSUME OInv, NEW v \in Workers, Unanswered(v) PROVE OInv'
<1>1. /\ OrchestratorTypeOK /\ worker[v].pc \in Attempting /\ Return(v)
      /\ troubles < MaxTroubles /\ troubles' = troubles + 1
      /\ UNCHANGED <<run, attempt, branch, halting>>
  BY DEF OInv, Unanswered, Attempting
<1> PICK u \in Units : u = worker[v].unit  BY <1>1 DEF OInv, Sound, Attempts
<1>2. troubles' \in 0 .. MaxTroubles
  BY <1>1, OrchestratorAssumption DEF OrchestratorTypeOK
<1>3. unit' \in [Units -> Unit] /\ quiet' \in BOOLEAN /\ Frame
  <2>1. CASE /\ unit[u].status = "in_progress"
             /\ unit' = [unit EXCEPT ![u].status = PausedStatus, ![u].rev = @ + 1]
             /\ quiet' = FALSE
    <3> DEFINE x == [unit[u] EXCEPT !.status = PausedStatus, !.rev = @ + 1]
    <3>1. unit[u] \in Unit  BY <1>1 DEF OrchestratorTypeOK
    <3>2. unit[u].rev + 1 \in Nat /\ PausedStatus \in UnitStatuses
      BY <3>1, Tables DEF Unit, PausedStatus
    <3>3. x = [unit[u] EXCEPT !.status = PausedStatus, !.rev = unit[u].rev + 1]
      BY <3>1 DEF Unit
    <3>4. x \in Unit  BY <3>1, <3>2, <3>3 DEF Unit
    <3>5. x.status = "waiting_decision" /\ x.rev = unit[u].rev + 1 /\ x.risk = unit[u].risk
      BY <3>1 DEF Unit, PausedStatus
    <3>6. unit' = [unit EXCEPT ![u] = x]  BY <2>1
    <3> HIDE DEF x
    <3> QED  BY <1>1, <2>1, <3>4, <3>5, <3>6, UnitWritten DEF Early
  <2>2. CASE UNCHANGED <<unit, quiet>>
    BY <1>1, <2>2, StillFrame DEF OrchestratorTypeOK
  <2> QED  BY <2>1, <2>2 DEF Unanswered
<1>4. lease' \in [LeaseIds -> Lease] /\ ref' \in References
  <2>1. /\ lease' = [l \in LeaseIds |-> IF l \in {ref[u]}
                      THEN [lease[l] EXCEPT !.status = "released"] ELSE lease[l]]
        /\ ref' = [ref EXCEPT ![u] = None]
    BY DEF Unanswered
  <2> QED  BY <1>1, <2>1, EndedLeases, Unleased
<1>5. RestOK'  BY <1>1, <1>2, <1>3, <1>4 DEF OrchestratorTypeOK, RestOK
<1> QED  BY <1>1, <1>3, <1>5, ReturnStep

\* A tick that is given up, without a write.
LEMMA GivenUp ==
  ASSUME OInv, NEW v \in Workers, Return(v), troubles < MaxTroubles, troubles' = troubles + 1,
         halting' \in {"no", "over", "error"}, UNCHANGED <<docs, branch>>
  PROVE  OInv'
<1>1. OrchestratorTypeOK  BY DEF OInv
<1>2. troubles' \in 0 .. MaxTroubles
  BY <1>1, OrchestratorAssumption DEF OrchestratorTypeOK
<1>3. RestOK' /\ Frame  BY <1>1, <1>2, StillFrame DEF OrchestratorTypeOK, RestOK, docs
<1> QED  BY <1>3, ReturnStep

LEMMA ProposalRefusedStep == ASSUME OInv, NEW v \in Workers, ProposalRefused(v) PROVE OInv'
<1>1. halting' \in {"no", "over", "error"}
  BY DEF ProposalRefused, OInv, OrchestratorTypeOK
<1> QED  BY <1>1, GivenUp DEF ProposalRefused

LEMMA RaiseStep == ASSUME OInv, NEW v \in Workers, Raise(v) PROVE OInv'
BY GivenUp DEF Raise

\* Where a success may take a Work Unit: on, or to a human after both reviews; anything
\* else takes it back.
LEMMA DestinationEarned ==
  ASSUME OInv, NEW v \in Workers, worker[v].pc \in {"advance", "decide", "move"},
         NEW u \in Units, u = worker[v].unit, NEW to, to = Destination(v), to # None
  PROVE  \/ to \in {"blocked", "remediation_required"}
         \/ /\ worker[v].sight[u].status \in DOMAIN StatusToStep
            /\ to = NextOnSuccess[worker[v].sight[u].status]
            /\ worker[v].sight[u].status # "audit" =>
                 Succeeded(u, StatusToStep[worker[v].sight[u].status])
            /\ worker[v].sight[u].status = "audit" => Reviewed(u)
<1>1. Attempts(v)  BY DEF OInv, Sound, Attempting
<1> DEFINE status == worker[v].sight[u].status
           step == attempt[worker[v].att].step
<1>2. Fits(u, status, step)  BY <1>1 DEF Attempts
<1>3. status \in DOMAIN StatusToStep  BY <1>2, Tables DEF Fits
<1>4. CASE worker[v].out = "succeeded"
  <2>1. worker[v].att \in AttemptIds /\ attempt[worker[v].att].status = "succeeded"
        /\ attempt[worker[v].att].unit = u
    BY <1>1, <1>4 DEF Attempts, Recorded
  <2>2. Succeeded(u, step)  BY <2>1 DEF Succeeded, Of
  <2>3. step # "security_review" /\ to = NextOnSuccess[status]
    BY <1>4 DEF Destination
  <2>4. status # "audit" => step = StatusToStep[status]  BY <1>2 DEF Fits
  <2>5. status = "audit" => Reviewed(u)  BY <1>2, <2>2, <2>3 DEF Fits, Reviewed
  <2> QED  BY <1>3, <2>2, <2>3, <2>4, <2>5
<1>5. CASE worker[v].out # "succeeded"
  <2>1. to = NextOnExhaustion[status]  BY <1>5 DEF Destination
  <2> QED  BY <1>3, <2>1, Tables
<1> QED  BY <1>4, <1>5

LEMMA AdvanceStep == ASSUME OInv, NEW v \in Workers, Advance(v) PROVE OInv'
<1>1. /\ OrchestratorTypeOK /\ worker[v].pc \in {"advance", "decide", "move"}
      /\ worker[v].pc \in Attempting /\ worker[v].pc \in Recorded
      /\ UNCHANGED <<run, ref, lease, attempt, branch, halting, troubles>>
  BY DEF OInv, Advance, Attempting, Recorded
<1> PICK u \in Units : u = worker[v].unit  BY <1>1 DEF OInv, Sound, Attempts
<1> PICK to : to = Destination(v)  OBVIOUS
<1>2. CASE UNCHANGED <<unit, quiet>> /\ Return(v)
  <2>1. RestOK' /\ Frame  BY <1>1, <1>2, StillFrame DEF OrchestratorTypeOK, RestOK
  <2> QED  BY <1>1, <1>2, <2>1, ReturnStep
<1>3. CASE to # None /\ Moved(v, u, to) /\ (Return(v) \/ Goto(v, "letgo"))
  <2>1. to \notin Early /\ (to = "human_test" => Reviewed(u))
    <3>1. CASE to \in {"blocked", "remediation_required"}  BY <3>1 DEF Early
    <3>2. CASE to \notin {"blocked", "remediation_required"}
      BY <1>1, <1>3, <3>2, DestinationEarned, Tables DEF Early
    <3> QED  BY <3>1, <3>2
  <2>2. unit' \in [Units -> Unit] /\ quiet' \in BOOLEAN /\ Frame
    BY <1>1, <1>3, <2>1, MovedUnit
  <2>3. RestOK'  BY <1>1, <2>2 DEF OrchestratorTypeOK, RestOK
  <2>4. "letgo" \notin Recorded  BY DEF Recorded
  <2> QED  BY <1>1, <1>3, <2>2, <2>3, <2>4, GotoStep, ReturnStep
<1> QED  BY <1>2, <1>3 DEF Advance, Refused

LEMMA LetGoStep == ASSUME OInv, NEW v \in Workers, LetGo(v) PROVE OInv'
<1> DEFINE l == worker[v].lease
           u == worker[v].unit
<1>1. /\ OrchestratorTypeOK /\ Return(v)
      /\ UNCHANGED <<run, unit, attempt, quiet, branch, halting, troubles>>
      /\ \/ /\ lease' = [lease EXCEPT ![l].status = "released"]
            /\ ref' = [ref EXCEPT ![u] = None]
         \/ UNCHANGED <<lease, ref>>
  BY DEF OInv, LetGo
<1>2. CASE /\ lease' = [lease EXCEPT ![l].status = "released"]
           /\ ref' = [ref EXCEPT ![u] = None]
  <2>1. \A k \in LeaseIds : lease[k] \in Lease /\ [lease[k] EXCEPT !.status = "released"] \in Lease
    BY <1>1 DEF OrchestratorTypeOK, Lease
  <2>2. lease' \in [LeaseIds -> Lease]  BY <1>1, <1>2, <2>1 DEF OrchestratorTypeOK
  <2>3. ref' \in References  BY <1>1, <1>2, Unleased
  <2>4. RestOK' /\ Frame  BY <1>1, <2>2, <2>3, StillFrame DEF OrchestratorTypeOK, RestOK
  <2> QED  BY <1>1, <2>4, ReturnStep
<1>3. CASE UNCHANGED <<lease, ref>>
  <2>1. RestOK' /\ Frame  BY <1>1, <1>3, StillFrame DEF OrchestratorTypeOK, RestOK
  <2> QED  BY <1>1, <2>1, ReturnStep
<1> QED  BY <1>1, <1>2, <1>3

-----------------------------------------------------------------------------
(* Closing the Run, and the world *)

LEMMA CloseType ==
  ASSUME OrchestratorTypeOK, NEW status \in {"completed", "stopped", "failed"},
         NEW stop \in StopConditions \cup {None}, Close(status, stop)
  PROVE  /\ run' \in Run /\ run'.candidate = run.candidate /\ run'.status = status
         /\ lease' \in [LeaseIds -> Lease]
<1>1. run \in Run /\ run' = [run EXCEPT !.status = status, !.stop = stop, !.rev = @ + 1]
  BY DEF OrchestratorTypeOK, Close
<1>2. run' \in Run /\ run'.candidate = run.candidate /\ run'.status = status
  <2>1. run.rev + 1 \in Nat  BY <1>1 DEF Run
  <2>2. run' = [run EXCEPT !.status = status, !.stop = stop, !.rev = run.rev + 1]
    BY <1>1 DEF Run
  <2> QED  BY <1>1, <2>1, <2>2 DEF Run
<1> DEFINE ls == {l \in LeaseIds : /\ status # "completed" /\ lease[l].status = "active"
                                   /\ \E u \in Units : ref[u] = l}
<1>3. lease' = [l \in LeaseIds |-> IF l \in ls THEN [lease[l] EXCEPT !.status = "revoked"]
                                   ELSE lease[l]]
  BY DEF Close
<1> HIDE DEF ls
<1>4. lease' \in [LeaseIds -> Lease]  BY <1>3, EndedLeases
<1> QED  BY <1>2, <1>4

LEMMA CloseRunStep == ASSUME OInv, NEW v \in Workers, CloseRun(v) PROVE OInv'
<1>1. /\ OrchestratorTypeOK /\ worker[v].pc = "close" /\ Ready(v) /\ Return(v)
      /\ UNCHANGED <<ref, unit, attempt, quiet, branch, troubles>>
      /\ \/ Close(worker[v].next, worker[v].stop) /\ halting' = "over"
         \/ UNCHANGED <<run, lease, halting>>
  BY DEF OInv, Sound, CloseRun
<1>2. worker[v].next \in {"completed", "stopped"} /\ worker[v].stop \in StopConditions \cup {None}
  BY <1>1 DEF Ready, OrchestratorTypeOK, Worker
<1>3. /\ run' \in Run /\ run'.candidate = run.candidate /\ lease' \in [LeaseIds -> Lease]
      /\ halting' \in {"no", "over", "error"}
  BY <1>1, <1>2, CloseType DEF OrchestratorTypeOK
<1>4. RestOK' /\ Frame  BY <1>1, <1>3, StillFrame DEF OrchestratorTypeOK, RestOK
<1> QED  BY <1>1, <1>4, ReturnStep

LEMMA CloseAfterFailureStep == ASSUME OInv, CloseAfterFailure PROVE OInv'
<1>1. /\ OrchestratorTypeOK /\ halting' = "over"
      /\ UNCHANGED <<ref, unit, attempt, quiet, branch, worker, troubles>>
      /\ Close("failed", "orchestrator_process_failure") \/ UNCHANGED <<run, lease>>
  BY DEF OInv, CloseAfterFailure
<1>2. "orchestrator_process_failure" \in StopConditions  BY DEF StopConditions
<1>3. run' \in Run /\ run'.candidate = run.candidate /\ lease' \in [LeaseIds -> Lease]
  BY <1>1, <1>2, CloseType DEF OrchestratorTypeOK
<1>4. OrchestratorTypeOK' /\ Frame  BY <1>1, <1>3, StillFrame DEF OrchestratorTypeOK
<1> QED  BY <1>1, <1>4, WorldStep

LEMMA CrashStep == ASSUME OInv, Crash PROVE OInv'
<1>1. /\ OrchestratorTypeOK /\ worker' = [v \in Workers |-> Idle] /\ halting' = "no"
      /\ troubles < MaxTroubles /\ troubles' = troubles + 1 /\ UNCHANGED <<docs, branch>>
  BY DEF OInv, Crash
<1>2. troubles' \in 0 .. MaxTroubles
  BY <1>1, OrchestratorAssumption DEF OrchestratorTypeOK
<1>3. OrchestratorTypeOK' /\ Frame
  BY <1>1, <1>2, IdleType, StillFrame DEF OrchestratorTypeOK, docs
<1>4. ASSUME NEW v \in Workers PROVE Sound(v)'
  <2>1. /\ worker'[v].pc = "idle"
        /\ \A u \in Units : worker'[v].sight[u].status = "ready" /\ worker'[v].sight[u].rev = 0
    BY <1>1, IdleType DEF NoSight
  <2>2. \A u \in Units : unit'[u].rev \in Nat  BY <1>3 DEF OrchestratorTypeOK, Unit
  <2> QED  BY <2>1, <2>2 DEF Sound, Attempting, Ready, Knows, Reading
<1>5. UnitInv' /\ RecordedIsMerged'
  <2>1. UnitInv /\ RecordedIsMerged  BY DEF OInv
  <2>2. UNCHANGED <<unit, attempt, branch>>  BY <1>1 DEF docs
  <2> QED
    BY <2>1, <2>2 DEF UnitInv, RecordedIsMerged, Reviewed, Succeeded, Of
<1> QED  BY <1>3, <1>4, <1>5 DEF OInv

LEMMA StallStep == ASSUME OInv, NEW l \in LeaseIds, Stall(l) PROVE OInv'
<1>1. /\ OrchestratorTypeOK /\ lease' = [lease EXCEPT ![l].fresh = FALSE]
      /\ troubles < MaxTroubles /\ troubles' = troubles + 1
      /\ UNCHANGED <<run, ref, unit, attempt, quiet, branch, worker, halting>>
  BY DEF OInv, Stall
<1>2. troubles' \in 0 .. MaxTroubles /\ lease' \in [LeaseIds -> Lease]
  <2>1. troubles' \in 0 .. MaxTroubles
    BY <1>1, OrchestratorAssumption DEF OrchestratorTypeOK
  <2>2. lease' \in [LeaseIds -> Lease]  BY <1>1, FreshType
  <2> QED  BY <2>1, <2>2
<1>3. OrchestratorTypeOK' /\ Frame  BY <1>1, <1>2, StillFrame DEF OrchestratorTypeOK
<1> QED  BY <1>1, <1>3, WorldStep

LEMMA QuietenStep == ASSUME OInv, Quieten PROVE OInv'
<1>1. OrchestratorTypeOK' /\ Frame
  BY StillFrame DEF OInv, Quieten, OrchestratorTypeOK
<1> QED  BY <1>1, WorldStep DEF Quieten

LEMMA LoseGrantStep == ASSUME OInv, NEW how \in GrantLosses, LoseGrant(how) PROVE OInv'
<1>1. /\ OrchestratorTypeOK /\ run \in Run /\ run' = [run EXCEPT !.grant = how]
      /\ troubles < MaxTroubles /\ troubles' = troubles + 1
      /\ UNCHANGED <<ref, lease, unit, attempt, quiet, branch, worker, halting>>
  BY DEF OInv, OrchestratorTypeOK, LoseGrant
<1>2. run' \in Run /\ run'.candidate = run.candidate  BY <1>1, OrchestratorAssumption DEF Run
<1>3. troubles' \in 0 .. MaxTroubles
  BY <1>1, OrchestratorAssumption DEF OrchestratorTypeOK
<1>4. OrchestratorTypeOK' /\ Frame  BY <1>1, <1>2, <1>3, StillFrame DEF OrchestratorTypeOK
<1> QED  BY <1>1, <1>4, WorldStep

-----------------------------------------------------------------------------
(* The invariant is inductive *)

LEMMA InitOInv == ASSUME Init PROVE OInv
<1>1. OrchestratorTypeOK
  <2>1. run \in Run  BY DEF Init, Run
  <2>2. unit \in [Units -> Unit]
    <3>1. \A u \in Units : unit[u].status \in {"ready", "audit"} /\ unit[u] \in
            [status : InitialUnits, rev : {1}, risk : {"within"}]
      BY OrchestratorAssumption DEF Init
    <3>2. \A u \in Units : unit[u] \in Unit  BY <3>1, Tables DEF Unit
    <3> QED  BY <3>2 DEF Init
  <2>3. ref \in References /\ lease \in [LeaseIds -> Lease]
    <3>1. PICK u0 \in {None} \cup {u \in Units : unit[u].status = "audit"} :
            /\ ref = [u \in Units |-> IF u = u0 THEN 1 ELSE None]
            /\ lease = [l \in LeaseIds |-> IF l = 1 /\ u0 # None
                 THEN [status |-> "active", unit |-> u0, worker |-> CHOOSE v \in Workers : TRUE,
                       epoch |-> 1, fresh |-> TRUE]
                 ELSE NoLease]
      BY DEF Init
    <3>2. 1 \in LeaseIds  BY OrchestratorAssumption DEF LeaseIds
    <3>3. (CHOOSE v \in Workers : TRUE) \in Workers  BY OrchestratorAssumption
    <3>4. NoLease \in Lease  BY DEF NoLease, Lease
    <3>5. [status |-> "active", unit |-> u0, worker |-> CHOOSE v \in Workers : TRUE,
           epoch |-> 1, fresh |-> TRUE] \in Lease
      BY <3>3 DEF Lease
    <3>6. lease \in [LeaseIds -> Lease]  BY <3>1, <3>4, <3>5
    <3>7. ref \in References  BY <3>1, <3>2 DEF References
    <3> QED  BY <3>6, <3>7
  <2>4. NoAttempt \in Attempt  BY DEF NoAttempt, Attempt
  <2>5. attempt \in [AttemptIds -> Attempt]  BY <2>4 DEF Init
  <2>6. worker \in [Workers -> Worker]  BY IdleType DEF Init
  <2>7. troubles \in 0 .. MaxTroubles  BY OrchestratorAssumption DEF Init
  <2>8. branch \in [merged : SUBSET Units, recorded : SUBSET Units]  BY DEF Init
  <2> QED  BY <2>1, <2>2, <2>3, <2>5, <2>6, <2>7, <2>8 DEF Init, OrchestratorTypeOK
<1>2. UnitInv
  <2>1. \A u \in Units : unit[u].status \in {"ready", "audit"}
    BY OrchestratorAssumption DEF Init
  <2> QED  BY <2>1 DEF UnitInv
<1>3. RecordedIsMerged  BY DEF Init, RecordedIsMerged
<1>4. ASSUME NEW v \in Workers PROVE Sound(v)
  <2>1. /\ worker[v].pc = "idle"
        /\ \A u \in Units : worker[v].sight[u].status = "ready" /\ worker[v].sight[u].rev = 0
    BY IdleType DEF Init, NoSight
  <2>2. \A u \in Units : unit[u].rev \in Nat  BY <1>1 DEF OrchestratorTypeOK, Unit
  <2> QED  BY <2>1, <2>2 DEF Sound, Attempting, Ready, Knows, Reading
<1> QED  BY <1>1, <1>2, <1>3, <1>4 DEF OInv

LEMMA NextStep == ASSUME OInv, [Next]_vars PROVE OInv'
<1>1. ASSUME NEW v \in Workers, Tick(v) PROVE OInv'
  BY <1>1, ReadRunStep, JudgeStep, RecoverOrphansStep, ReassignStep, StaffStep, StartUnitStep,
     DispatchStarts, DemoteStep, ConcludeStep, RunAgentStep, FenceIntegrationStep,
     MergeBranchStep, RevalidateStep, RecordAttemptStep, RecordMergeStep, FollowUpStep,
     EscalateStep, AnsweredStep, UnansweredStep, ProposalRefusedStep, AdvanceStep, LetGoStep,
     CloseRunStep DEF Tick
<1>2. CASE UNCHANGED vars
  <2>1. OrchestratorTypeOK'  BY <1>2 DEF OInv, OrchestratorTypeOK, vars, docs
  <2>2. UNCHANGED <<worker, branch, attempt, unit>> /\ run' = run  BY <1>2 DEF vars, docs
  <2> QED  BY <2>1, <2>2, StillFrame, WorldStep
<1>3. CASE Next
  BY <1>1, <1>3, RaiseStep, CloseAfterFailureStep, CrashStep, QuietenStep, StallStep,
     LoseGrantStep DEF Next
<1> QED  BY <1>2, <1>3

THEOREM Inductive == Spec => []OInv
BY InitOInv, NextStep, PTL DEF Spec

-----------------------------------------------------------------------------
(* The theorems *)

\* The documents of a Run, its leases and the records of its workers keep their shape.
THEOREM TypeCorrect == Spec => []OrchestratorTypeOK
<1>1. OInv => OrchestratorTypeOK  BY DEF OInv
<1> QED  BY <1>1, Inductive, PTL

\* A merge on record was made and its integration review succeeded, whatever is refused
\* or dies between the merge, the record of the attempt and the record of the merge
\* (tick.py:2002-2231).
THEOREM MergesOnRecordWereMade == Spec => []RecordedIsMerged
<1>1. OInv => RecordedIsMerged  BY DEF OInv
<1> QED  BY <1>1, Inductive, PTL

\* Only CloseRun completes a Run.
LEMMA OnlyCloseRunCompletes ==
  ASSUME OInv, Next, run.status # "completed", run'.status = "completed"
  PROVE  \E v \in Workers : CloseRun(v) /\ Close(worker[v].next, worker[v].stop)
<1>1. OrchestratorTypeOK /\ run \in Run  BY DEF OInv, OrchestratorTypeOK
<1>2. ASSUME NEW v \in Workers, Tick(v) PROVE CloseRun(v)
  <2>1. \/ ReadRun(v) \/ Judge(v) \/ RunAgent(v) \/ MergeBranch(v) \/ Revalidate(v)
        \/ RecordMerge(v) \/ ProposalRefused(v)
        => run' = run
    BY DEF ReadRun, Judge, RunAgent, MergeBranch, Revalidate, RecordMerge, ProposalRefused,
           OnlyWorker, docs
  <2>2. \/ RecoverOrphans(v) \/ Reassign(v) \/ Staff(v) \/ StartUnit(v) \/ Dispatch(v)
        \/ Demote(v) \/ FenceIntegration(v) \/ FollowUp(v)
        => run' = run
    BY DEF RecoverOrphans, Reassign, Staff, StartUnit, Dispatch, Demote, FenceIntegration,
           FollowUp
  <2>3. Answered(v) \/ Unanswered(v) \/ Advance(v) \/ LetGo(v) => run' = run
    BY DEF Answered, Unanswered, Advance, LetGo
  <2>4. Conclude(v) => run' = run \/ run' = [run EXCEPT !.candidate = Authorized]
    BY DEF Conclude
  <2>5. RecordAttempt(v) => run' = run \/ run' = [run EXCEPT !.grant = "spent"]
    BY DEF RecordAttempt
  <2>6. Escalate(v) => run' = [run EXCEPT !.rev = @ + 1]  BY DEF Escalate
  <2>7. Conclude(v) \/ RecordAttempt(v) \/ Escalate(v) => run'.status = run.status
    BY <1>1, <2>4, <2>5, <2>6 DEF Run
  <2> QED  BY <1>2, <2>1, <2>2, <2>3, <2>7 DEF Tick
<1>3. ASSUME NEW v \in Workers, Raise(v) PROVE FALSE  BY <1>3 DEF Raise, docs
<1>4. ASSUME CloseAfterFailure PROVE FALSE
  BY <1>1, <1>4 DEF CloseAfterFailure, Close, Run
<1>5. ASSUME Crash \/ Quieten PROVE FALSE  BY <1>5 DEF Crash, Quieten, docs
<1>6. ASSUME NEW l \in LeaseIds, Stall(l) PROVE FALSE  BY <1>6 DEF Stall
<1>7. ASSUME NEW how \in GrantLosses, LoseGrant(how) PROVE FALSE
  BY <1>1, <1>7 DEF LoseGrant, Run
<1>8. PICK v \in Workers : CloseRun(v)
  BY <1>2, <1>3, <1>4, <1>5, <1>6, <1>7 DEF Next
<1> QED  BY <1>8 DEF CloseRun

\* A Run is completed only when each of its Work Units was reviewed and audited, and its
\* release candidate is there, although other workers, crashes and a human come between
\* the reading and the closing (tick.py:786-794, 2614-2778).
THEOREM CompletionIsReviewed == Spec => CompletedIsReviewed
<1> DEFINE A == run.status # "completed" /\ run'.status = "completed" =>
                  /\ \A u \in Units : unit[u].status # "done" =>
                       Succeeded(u, "audit") /\ Succeeded(u, "security_review")
                  /\ Maximal => run.candidate
<1>1. OInv /\ [Next]_vars => [A]_vars
  <2> SUFFICES ASSUME OInv, Next, run.status # "completed", run'.status = "completed"
               PROVE  (\A u \in Units : Reviewed(u)) /\ (Maximal => run.candidate)
    BY DEF Reviewed
  <2>1. PICK v \in Workers : CloseRun(v) /\ Close(worker[v].next, worker[v].stop)
    BY OnlyCloseRunCompletes
  <2>2. worker[v].pc = "close" /\ Ready(v)  BY <2>1 DEF CloseRun, OInv, Sound
  <2>3. run \in Run  BY DEF OInv, OrchestratorTypeOK
  <2>4. run'.status = worker[v].next  BY <2>1, <2>3 DEF Close, Run
  <2> QED  BY <2>2, <2>4 DEF Ready
<1> QED  BY <1>1, Inductive, PTL DEF Spec, CompletedIsReviewed

\* Only Advance moves a Work Unit forward.
LEMMA OnlyAdvanceMovesOn ==
  ASSUME OInv, Next, NEW u \in Units, unit[u].status \in DOMAIN NextOnSuccess,
         unit'[u].status = NextOnSuccess[unit[u].status]
  PROVE  \E v \in Workers : /\ worker[v].pc \in {"advance", "decide", "move"}
                            /\ worker[v].unit = u /\ Destination(v) # None
                            /\ Moved(v, u, Destination(v))
<1>1. OrchestratorTypeOK /\ unit \in [Units -> Unit]  BY DEF OInv, OrchestratorTypeOK
<1>2. /\ unit'[u].status \in {"verification", "review", "audit", "human_test"}
      /\ unit'[u].status # unit[u].status
  BY Tables, SameSuccessor DEF NextOnSuccess
<1>3. ASSUME NEW v \in Workers, NEW to, Moved(v, worker[v].unit, to)
      PROVE  worker[v].unit = u /\ to = unit'[u].status
  BY <1>1, <1>2, <1>3 DEF Moved, Unit
<1>4. ASSUME NEW v \in Workers, Tick(v) PROVE Advance(v)
  <2>1. \/ ReadRun(v) \/ Judge(v) \/ RunAgent(v) \/ MergeBranch(v) \/ Revalidate(v)
        \/ RecordMerge(v) \/ ProposalRefused(v)
        => unit' = unit
    BY DEF ReadRun, Judge, RunAgent, MergeBranch, Revalidate, RecordMerge, ProposalRefused,
           OnlyWorker, docs
  <2>2. \/ RecoverOrphans(v) \/ Reassign(v) \/ Staff(v) \/ Dispatch(v)
        \/ FenceIntegration(v) \/ FollowUp(v) \/ Conclude(v) \/ RecordAttempt(v)
        => unit' = unit
    BY DEF RecoverOrphans, Reassign, Staff, Dispatch, FenceIntegration, FollowUp, Conclude,
           RecordAttempt
  <2>3. LetGo(v) \/ CloseRun(v) => unit' = unit  BY DEF LetGo, CloseRun
  <2>4. ~StartUnit(v)
    BY <1>2, <1>3 DEF StartUnit, Refused
  <2>5. ASSUME Demote(v) PROVE FALSE
    <3>1. worker[v].next \in {"blocked", "remediation_required"}
      BY <2>5 DEF Demote, OInv, Sound, Ready
    <3> QED  BY <1>2, <1>3, <2>5, <3>1 DEF Demote, Refused
  <2>6. ASSUME Escalate(v) \/ Answered(v) \/ Unanswered(v) PROVE FALSE
    <3>1. PICK w : w = worker[v].unit  OBVIOUS
    <3>2. \/ unit' = unit
          \/ \E rev, risk : unit' = [unit EXCEPT ![w] = [status |-> PausedStatus, rev |-> rev,
                                                         risk |-> risk]]
          \/ unit' = [unit EXCEPT ![w].rev = @ + 1]
          \/ unit' = [unit EXCEPT ![w].status = "in_progress", ![w].rev = @ + 1]
          \/ unit' = [unit EXCEPT ![w].status = PausedStatus, ![w].rev = @ + 1]
      BY <2>6, <3>1 DEF Escalate, Answered, Unanswered
    <3>3. unit'[u].status \in {unit[u].status, "waiting_decision", "in_progress"}
      BY <1>1, <3>2 DEF Unit, PausedStatus
    <3> QED  BY <1>2, <3>3
  <2> QED  BY <1>2, <1>4, <2>1, <2>2, <2>3, <2>4, <2>5, <2>6 DEF Tick
<1>5. ASSUME NEW v \in Workers, Raise(v) PROVE FALSE  BY <1>2, <1>5 DEF Raise, docs
<1>6. ASSUME Crash \/ Quieten \/ CloseAfterFailure PROVE FALSE
  BY <1>2, <1>6 DEF Crash, Quieten, CloseAfterFailure, docs
<1>7. ASSUME NEW l \in LeaseIds, Stall(l) PROVE FALSE  BY <1>2, <1>7 DEF Stall
<1>8. ASSUME NEW how \in GrantLosses, LoseGrant(how) PROVE FALSE
  BY <1>2, <1>8 DEF LoseGrant
<1>9. PICK v \in Workers : Advance(v)
  BY <1>4, <1>5, <1>6, <1>7, <1>8 DEF Next
<1>10. Destination(v) # None /\ Moved(v, worker[v].unit, Destination(v))
  BY <1>2, <1>9 DEF Advance, Refused
<1> QED  BY <1>3, <1>9, <1>10 DEF Advance

\* A Work Unit moves forward only after an attempt at the step of the status it leaves
\* succeeded, and out of its audit only if it was reviewed for security, whichever
\* worker moves it and whatever it had read (tick.py:2448-2600).
THEOREM AdvancesAreEarned == Spec => AdvanceIsEarned
<1> DEFINE A == \A u \in Units :
                  LET from == unit[u].status IN
                  from \in DOMAIN NextOnSuccess /\ unit'[u].status = NextOnSuccess[from] =>
                    /\ \/ Succeeded(u, StatusToStep[from])
                       \/ from = "remediation_required" /\ Succeeded(u, "sandbox_implementation")
                    /\ from = "audit" => Succeeded(u, "security_review")
<1>1. OInv /\ [Next]_vars => [A]_vars
  <2> SUFFICES ASSUME OInv, Next, NEW u \in Units, NEW from, from = unit[u].status,
                      from \in DOMAIN NextOnSuccess, unit'[u].status = NextOnSuccess[from]
               PROVE  /\ \/ Succeeded(u, StatusToStep[from])
                         \/ from = "remediation_required" /\ Succeeded(u, "sandbox_implementation")
                      /\ from = "audit" => Succeeded(u, "security_review")
    OBVIOUS
  <2>1. PICK v \in Workers : /\ worker[v].pc \in {"advance", "decide", "move"}
                             /\ worker[v].unit = u /\ Destination(v) # None
                             /\ Moved(v, u, Destination(v))
    BY OnlyAdvanceMovesOn
  <2>2. PICK to, seen : to = Destination(v) /\ seen = worker[v].sight[u].status
    OBVIOUS
  <2>3. unit'[u].status = to
    BY <2>1, <2>2 DEF Moved, OInv, OrchestratorTypeOK, Unit
  <2>4. to \notin {"blocked", "remediation_required"}  BY <2>3, Tables
  <2>5. /\ seen \in DOMAIN StatusToStep /\ to = NextOnSuccess[seen]
        /\ seen # "audit" => Succeeded(u, StatusToStep[seen])
        /\ seen = "audit" => Reviewed(u)
    BY <2>1, <2>2, <2>4, DestinationEarned
  <2>6. from \in DOMAIN StatusToStep  BY Tables
  <2>7. \/ seen = from
        \/ seen = "in_progress" /\ from = "remediation_required"
        \/ seen = "remediation_required" /\ from = "in_progress"
    BY <2>3, <2>5, <2>6, SameSuccessor
  <2>8. ~(seen = "remediation_required" /\ from = "in_progress")
    <3>1. worker[v].sight[u].rev = unit[u].rev /\ Knows(v, u)
      BY <2>1 DEF Moved, OInv, Sound
    <3> QED  BY <2>2, <3>1 DEF Knows
  <2>9. StatusToStep["in_progress"] = "sandbox_implementation" /\ StatusToStep["audit"] = "audit"
    BY DEF StatusToStep
  <2> QED  BY <2>5, <2>7, <2>8, <2>9 DEF Reviewed
<1> QED  BY <1>1, Inductive, PTL DEF Spec, AdvanceIsEarned
=============================================================================
