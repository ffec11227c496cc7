--------------------------- MODULE RunControlProofs ---------------------------
(***************************************************************************)
(* Theorems about RunControl for every set of Runs, Work Units, leases,    *)
(* grants and decisions, every autonomy preset, risk class and ceiling;    *)
(* and, at the end, about Attempts, where RecordExecutionAttempt runs      *)
(* beside the commands of RunControl, for every set of attempts and steps. *)
(***************************************************************************)
EXTENDS Attempts, TLAPS, FiniteSetTheorems

\* A Run is bound to a grant from the moment it is opened.
GrantInv == \A r \in Runs : Opened(r) => run[r].grant \in Grants

\* An issued lease names an opened Run and a Work Unit.
KnownInv ==
  \A l \in Leases : Issued(l) =>
    lease[l].run \in Runs /\ lease[l].wu \in WorkUnits /\ Opened(lease[l].run)

\* An entry of leases_by_work_unit and the lease document it names agree.
HeldInv ==
  \A r \in Runs, w \in WorkUnits :
    LET l == held[r][w].lease IN
    IF l = None THEN held[r][w] = NoEntry
    ELSE /\ lease[l].status # "none" /\ lease[l].run = r /\ lease[l].wu = w
         /\ lease[l].epoch = held[r][w].epoch

\* While the Run is not stopped, the lease an entry names is active.
AliveInv ==
  \A r \in Runs, w \in WorkUnits :
    held[r][w].lease # None /\ run[r].status \notin Stopping =>
      lease[held[r][w].lease].status = "active"

\* The three pinned dimensions are forbidden for every Work Unit of every Run.
PinnedInv ==
  \A r \in Runs, w \in WorkUnits, d \in AlwaysForbidden : ceiling[r][w][d] = "forbidden"

\* A step that leaves the status, the preset and the grant of every Run alone.
SameRuns ==
  \A q \in Runs : /\ run'[q].status = run[q].status /\ run'[q].preset = run[q].preset
                  /\ run'[q].grant = run[q].grant

\* What a lease document says of whom it was issued to.
SameOwner(l) == /\ lease'[l].run = lease[l].run /\ lease'[l].wu = lease[l].wu
                /\ lease'[l].epoch = lease[l].epoch

LeaseInv == KnownInv /\ HeldInv /\ AliveInv /\ ActiveLeaseIsHeld /\ StoppedRunHasNoWorker

IInv == TypeOK /\ GrantInv /\ LeaseInv /\ PinnedInv

-----------------------------------------------------------------------------
(* Types *)

LEMMA RunUpdate ==
  ASSUME NEW x \in Run, NEW to \in RunStatuses
  PROVE  /\ [x EXCEPT !.overdue = TRUE] \in Run
         /\ [x EXCEPT !.revision = x.revision + 1] \in Run
         /\ [x EXCEPT !.status = to, !.revision = x.revision + 1] \in Run
<1>1. x.revision + 1 \in Nat /\ to \in RunStatuses \cup {"none"}  BY DEF Run
<1>2. [x EXCEPT !.overdue = TRUE] \in Run  BY DEF Run
<1>3. [x EXCEPT !.revision = x.revision + 1] \in Run  BY <1>1 DEF Run
<1>4. [x EXCEPT !.status = to, !.revision = x.revision + 1] \in Run  BY <1>1 DEF Run
<1> QED  BY <1>2, <1>3, <1>4

LEMMA LeaseUpdate ==
  ASSUME NEW x \in WorkerLease
  PROVE  /\ \A s \in {"superseded", "released", "revoked"} : [x EXCEPT !.status = s] \in WorkerLease
         /\ \A b \in BOOLEAN : [x EXCEPT !.fresh = b] \in WorkerLease
BY DEF WorkerLease

LEMMA GrantUpdate ==
  ASSUME NEW x \in Grant
  PROVE  /\ [x EXCEPT !.expired = TRUE] \in Grant
         /\ [x EXCEPT !.revoked = TRUE] \in Grant
         /\ [x EXCEPT !.uses = x.uses + 1] \in Grant
         /\ \A e \in Entries :
              [x EXCEPT !.menu = [x.menu EXCEPT ![e] = x.menu[e] + 1]] \in Grant
<1>1. [x EXCEPT !.expired = TRUE] \in Grant /\ [x EXCEPT !.revoked = TRUE] \in Grant
  BY DEF Grant
<1>3. [x EXCEPT !.uses = x.uses + 1] \in Grant
  <2>1. x.uses + 1 \in Nat  BY DEF Grant
  <2> QED  BY <2>1 DEF Grant
<1>2. ASSUME NEW e \in Entries
      PROVE  [x EXCEPT !.menu = [x.menu EXCEPT ![e] = x.menu[e] + 1]] \in Grant
  <2>1. x.menu \in [Entries -> Nat]  BY DEF Grant
  <2>2. [x.menu EXCEPT ![e] = x.menu[e] + 1] \in [Entries -> Nat]  BY <2>1
  <2> QED  BY <2>2 DEF Grant
<1> QED  BY <1>1, <1>2, <1>3

LEMMA UnitUpdate ==
  ASSUME NEW x \in [status : UnitStatuses, risk : 0 .. Critical], NEW to \in UnitStatuses
  PROVE  [x EXCEPT !.status = to] \in [status : UnitStatuses, risk : 0 .. Critical]
OBVIOUS

LEMMA EndedType ==
  ASSUME TypeOK, NEW r \in Runs, NEW w \in WorkUnits
  PROVE  Ended(r, w, "released") \in [Leases -> WorkerLease]
<1>1. held[r][w] \in Entry  BY DEF TypeOK
<1>2. CASE held[r][w].lease = None  BY <1>2 DEF Ended, TypeOK
<1>3. CASE held[r][w].lease # None
  <2>1. held[r][w].lease \in Leases  BY <1>1, <1>3 DEF Entry
  <2>2. lease[held[r][w].lease] \in WorkerLease  BY <2>1 DEF TypeOK
  <2>3. [lease[held[r][w].lease] EXCEPT !.status = "released"] \in WorkerLease
    BY <2>2, LeaseUpdate
  <2> QED  BY <1>3, <2>1, <2>3 DEF Ended, TypeOK
<1> QED  BY <1>2, <1>3

LEMMA DroppedType ==
  ASSUME TypeOK, NEW r \in Runs, NEW w \in WorkUnits
  PROVE  Dropped(r, w) \in [Runs -> [WorkUnits -> Entry]]
<1>1. NoEntry \in Entry  BY DEF NoEntry, Entry
<1> QED  BY <1>1 DEF Dropped, TypeOK

LEMMA InitType == Init => TypeOK
<1> SUFFICES ASSUME Init PROVE TypeOK  OBVIOUS
<1>1. NoRun \in Run /\ NoEntry \in Entry /\ NoLease \in WorkerLease /\ NewGrant \in Grant
  BY DEF NoRun, Run, NoEntry, Entry, NoLease, WorkerLease, NewGrant, Grant
<1>2. DefaultCeiling \in [CeilingDimensions -> CeilingStates]
  BY DEF DefaultCeiling, CeilingStates
<1>3. unit \in [WorkUnits -> [status : UnitStatuses, risk : 0 .. Critical]]
  BY InputsAssumption DEF Init
<1> QED  BY <1>1, <1>2, <1>3 DEF Init, TypeOK, NoDecision

LEMMA TypeStep == TypeOK /\ GrantInv /\ KnownInv /\ [Next]_vars => TypeOK'
<1> SUFFICES ASSUME TypeOK, GrantInv, KnownInv, [Next]_vars PROVE TypeOK'  OBVIOUS
<1> USE DEF TypeOK
<1>1. ASSUME NEW g \in Grants, ExpireGrant(g) PROVE TypeOK'
  <2>1. [grant[g] EXCEPT !.expired = TRUE] \in Grant  BY GrantUpdate
  <2> QED  BY <1>1, <2>1 DEF ExpireGrant
<1>2. ASSUME NEW g \in Grants, RevokeGrant(g) PROVE TypeOK'
  <2>1. [grant[g] EXCEPT !.revoked = TRUE] \in Grant  BY GrantUpdate
  <2> QED  BY <1>2, <2>1 DEF RevokeGrant
<1>3. ASSUME NEW r \in Runs, NEW g \in Grants, NEW preset \in Presets, NEW batch \in Batches,
             NEW cap \in ParallelCaps, NEW status \in {"pending", "active"},
             NEW requested \in RequestedCeilings,
             OpenRun(r, g, preset, batch, cap, status, requested)
      PROVE  TypeOK'
  <2> DEFINE new == [status |-> status, preset |-> preset, batch |-> batch, cap |-> cap,
                     grant |-> g, revision |-> 1, overdue |-> FALSE]
  <2>1. new \in Run
    <3>1. preset \in Unattended \cup {"supervised_copilots"} /\ batch \in SUBSET WorkUnits
      BY InputsAssumption
    <3>2. cap \in Nat  BY LimitsAssumption
    <3> QED  BY <3>1, <3>2 DEF Run, RunStatuses
  <2>2. run' \in [Runs -> Run]  BY <1>3, <2>1 DEF OpenRun
  <2>3. [grant[g] EXCEPT !.uses = grant[g].uses + 1] \in Grant  BY GrantUpdate
  <2>4. grant' \in [Grants -> Grant]  BY <1>3, <2>3 DEF OpenRun
  <2>5. ceiling' \in [Runs -> [WorkUnits -> [CeilingDimensions -> CeilingStates]]]
    BY <1>3, InputsAssumption DEF OpenRun
  <2> QED  BY <1>3, <2>2, <2>4, <2>5 DEF OpenRun
<1>4. ASSUME NEW r \in Runs, Overrun(r) PROVE TypeOK'
  <2>1. [run[r] EXCEPT !.overdue = TRUE] \in Run  BY RunUpdate DEF RunStatuses
  <2> QED  BY <1>4, <2>1 DEF Overrun
<1>5. ASSUME NEW r \in Runs, NEW to \in RunStatuses, NEW expected \in 1 .. run[r].revision,
             CloseRun(r, to, expected)
      PROVE  TypeOK'
  <2>1. run' = [run EXCEPT ![r] = [run[r] EXCEPT !.status = to, !.revision = run[r].revision + 1]]
    BY <1>5 DEF CloseRun
  <2>2. [run[r] EXCEPT !.status = to, !.revision = run[r].revision + 1] \in Run  BY RunUpdate DEF RunStatuses
  <2>3. \A l \in Leases : [lease[l] EXCEPT !.status = "revoked"] \in WorkerLease
    BY LeaseUpdate
  <2>4. lease' \in [Leases -> WorkerLease]  BY <1>5, <2>3 DEF CloseRun
  <2> QED  BY <1>5, <2>1, <2>2, <2>4 DEF CloseRun
<1>6. ASSUME NEW r \in Runs, NEW w \in WorkUnits, NEW l \in Leases, AcquireWorkerLease(r, w, l)
      PROVE  TypeOK'
  <2> DEFINE old == held[r][w].lease
             new == [status |-> "active", run |-> r, wu |-> w,
                     epoch |-> NextEpoch(r, w), fresh |-> TRUE]
  <2>1. held[r][w] \in Entry /\ NextEpoch(r, w) \in Nat  BY DEF Entry, NextEpoch
  <2>2. new \in WorkerLease  BY <2>1 DEF WorkerLease
  <2>3. [lease |-> l, epoch |-> NextEpoch(r, w)] \in Entry  BY <2>1 DEF Entry
  <2>4. held' \in [Runs -> [WorkUnits -> Entry]]  BY <1>6, <2>3 DEF AcquireWorkerLease
  <2>5. CASE Reassign(r, w, l)
    <3>1. old \in Leases  BY <2>1, <2>5 DEF Reassign, Entry
    <3>2. [lease[old] EXCEPT !.status = "superseded"] \in WorkerLease
      BY <3>1, LeaseUpdate
    <3>3. lease' = [[lease EXCEPT ![old] = [lease[old] EXCEPT !.status = "superseded"]]
                      EXCEPT ![l] = new]
      BY <2>5 DEF Reassign
    <3>4. lease' \in [Leases -> WorkerLease]  BY <2>2, <3>2, <3>3
    <3> QED  BY <1>6, <2>4, <3>4 DEF AcquireWorkerLease
  <2>6. CASE Staff(r, w, l)
    <3>1. lease' \in [Leases -> WorkerLease]  BY <2>2, <2>6 DEF Staff
    <3> QED  BY <1>6, <2>4, <3>1 DEF AcquireWorkerLease
  <2> QED  BY <1>6, <2>5, <2>6 DEF AcquireWorkerLease
<1>7. ASSUME NEW r \in Runs, NEW w \in WorkUnits, NEW d \in Dimensions, NEW s \in CeilingStates,
             NEW expected \in 1 .. run[r].revision, TightenExecutionCeiling(r, w, d, s, expected)
      PROVE  TypeOK'
  <2>1. [run[r] EXCEPT !.revision = run[r].revision + 1] \in Run  BY RunUpdate DEF RunStatuses
  <2>2. run' \in [Runs -> Run]  BY <1>7, <2>1 DEF TightenExecutionCeiling
  <2>3. d \in CeilingDimensions  BY InputsAssumption
  <2>4. ceiling' \in [Runs -> [WorkUnits -> [CeilingDimensions -> CeilingStates]]]
    BY <1>7, <2>3 DEF TightenExecutionCeiling
  <2> QED  BY <1>7, <2>2, <2>4 DEF TightenExecutionCeiling
<1>8. ASSUME NEW r \in Runs, NEW w \in WorkUnits, NEW class \in 0 .. Critical,
             NEW expected \in 1 .. run[r].revision, EscalateWorkUnitRisk(r, w, class, expected)
      PROVE  TypeOK'
  <2>1. [run[r] EXCEPT !.revision = run[r].revision + 1] \in Run  BY RunUpdate DEF RunStatuses
  <2>2. run' \in [Runs -> Run]  BY <1>8, <2>1 DEF EscalateWorkUnitRisk
  <2>3. lease' \in [Leases -> WorkerLease] /\ held' \in [Runs -> [WorkUnits -> Entry]]
    BY <1>8, EndedType, DroppedType DEF EscalateWorkUnitRisk
  <2>4. unit' \in [WorkUnits -> [status : UnitStatuses, risk : 0 .. Critical]]
    BY <1>8 DEF EscalateWorkUnitRisk, UnitStatuses
  <2> QED  BY <1>8, <2>2, <2>3, <2>4 DEF EscalateWorkUnitRisk
<1>9. ASSUME NEW r \in Runs, NEW w \in WorkUnits, NEW d \in Decisions, NEW e \in Entries,
             ResolveRunDecision(d, r, w, e)
      PROVE  TypeOK'
  <2> DEFINE g == run[r].grant
  <2>1. g \in Grants  BY <1>9 DEF ResolveRunDecision, Forks, Authorized, GrantInv
  <2>2. grant[g] \in Grant  BY <2>1
  <2>4. [grant[g] EXCEPT !.menu = [grant[g].menu EXCEPT ![e] = grant[g].menu[e] + 1]] \in Grant
    BY <2>2, GrantUpdate
  <2>5. grant' = [grant EXCEPT ![g] =
          [grant[g] EXCEPT !.menu = [grant[g].menu EXCEPT ![e] = grant[g].menu[e] + 1]]]
    BY <1>9 DEF ResolveRunDecision
  <2>6. grant' \in [Grants -> Grant]  BY <2>1, <2>4, <2>5
  <2>7. unit' \in [WorkUnits -> [status : UnitStatuses, risk : 0 .. Critical]]
    BY ZenonT(30), <1>9 DEF ResolveRunDecision, UnitStatuses
  <2> QED  BY <1>9, <2>6, <2>7 DEF ResolveRunDecision
<1>10. ASSUME NEW r \in Runs, NEW w \in WorkUnits, NEW d \in Decisions, NEW e \in Entries,
              RejectRunDecision(d, r, w, e)
       PROVE  TypeOK'
  <2>1. lease' \in [Leases -> WorkerLease] /\ held' \in [Runs -> [WorkUnits -> Entry]]
    BY <1>10, EndedType, DroppedType DEF RejectRunDecision
  <2>2. unit' \in [WorkUnits -> [status : UnitStatuses, risk : 0 .. Critical]]
    BY ZenonT(30), <1>10 DEF RejectRunDecision, UnitStatuses
  <2> QED  BY <1>10, <2>1, <2>2 DEF RejectRunDecision
<1>11. ASSUME NEW l \in Leases, Stall(l) PROVE TypeOK'
  <2>1. [lease[l] EXCEPT !.fresh = FALSE] \in WorkerLease  BY LeaseUpdate
  <2> QED  BY <1>11, <2>1 DEF Stall
<1>12. ASSUME NEW l \in Leases, RecordWorkerHeartbeat(l) PROVE TypeOK'
  <2>1. [lease[l] EXCEPT !.fresh = TRUE] \in WorkerLease  BY LeaseUpdate
  <2> QED  BY <1>12, <2>1 DEF RecordWorkerHeartbeat
<1>13. ASSUME NEW l \in Leases, ReleaseWorkerLease(l) PROVE TypeOK'
  <2>1. [lease[l] EXCEPT !.status = "released"] \in WorkerLease  BY LeaseUpdate
  <2>2. lease' \in [Leases -> WorkerLease]  BY <1>13, <2>1 DEF ReleaseWorkerLease
  <2>3. lease[l].run \in Runs /\ lease[l].wu \in WorkUnits
    BY <1>13 DEF ReleaseWorkerLease, KnownInv
  <2>4. held' \in [Runs -> [WorkUnits -> Entry]]
    BY <1>13, <2>3, DroppedType DEF ReleaseWorkerLease
  <2> QED  BY <1>13, <2>2, <2>4 DEF ReleaseWorkerLease
<1>14. ASSUME NEW l \in Leases, WriteCheckpoint(l) PROVE TypeOK'
  BY <1>14 DEF WriteCheckpoint
<1>15. ASSUME NEW l \in Leases, NEW m \in Merges, NEW n \in 0 .. MaximumAttempts,
              NEW ok \in BOOLEAN, RecordIntegrationMerge(l, m, n, ok)
       PROVE  TypeOK'
  BY <1>15 DEF RecordIntegrationMerge
<1>16. ASSUME NEW w \in WorkUnits, NEW to \in Statuses, NEW ok \in BOOLEAN,
              TransitionWorkUnit(w, to, ok)
       PROVE  TypeOK'
  <2>1. [unit[w] EXCEPT !.status = to] \in [status : UnitStatuses, risk : 0 .. Critical]
    BY InputsAssumption, UnitUpdate
  <2> QED  BY <1>16, <2>1 DEF TransitionWorkUnit
<1>17. CASE UNCHANGED vars  BY <1>17 DEF vars
<1>18. ASSUME WorkerStep PROVE TypeOK'  BY <1>11, <1>12, <1>13, <1>14, <1>15, <1>18 DEF WorkerStep
<1> QED  BY <1>1, <1>2, <1>3, <1>4, <1>5, <1>6, <1>7, <1>8, <1>9, <1>10, <1>16, <1>17, <1>18
         DEF Next, GrantStep, RunStep, UnitStep

-----------------------------------------------------------------------------
(* Leases: what a step that only touches heartbeats, one that lets a worker  *)
(* go, an acquisition, an opening and a closing do to the lease invariants.  *)

LEMMA LeaseInit == Init => GrantInv /\ LeaseInv /\ PinnedInv
<1> SUFFICES ASSUME Init PROVE GrantInv /\ LeaseInv /\ PinnedInv  OBVIOUS
<1>1. GrantInv /\ KnownInv
  BY DEF Init, GrantInv, Opened, NoRun, KnownInv, Issued, NoLease
<1>2. HeldInv /\ AliveInv
  BY DEF Init, HeldInv, AliveInv, NoEntry
<1>3. ActiveLeaseIsHeld /\ StoppedRunHasNoWorker
  BY DEF Init, ActiveLeaseIsHeld, StoppedRunHasNoWorker, LivesUnattended, Opened,
         NoRun, NoLease
<1>4. PinnedInv  BY DEF Init, PinnedInv, DefaultCeiling, AlwaysForbidden, CeilingDimensions
<1> QED  BY <1>1, <1>2, <1>3, <1>4 DEF LeaseInv

LEMMA LeaseKept ==
  ASSUME TypeOK, LeaseInv, SameRuns, held' = held,
         \A l \in Leases : lease'[l].status = lease[l].status /\ SameOwner(l)
  PROVE  LeaseInv'
<1> USE DEF LeaseInv, SameRuns, SameOwner
<1>1. KnownInv'  BY DEF KnownInv, Issued, Opened
<1>2. \A r \in Runs, w \in WorkUnits : held[r][w].lease \in Leases \cup {None}
  BY DEF TypeOK, Entry
<1>3. HeldInv'  BY <1>2 DEF HeldInv
<1>4. AliveInv'  BY <1>2 DEF AliveInv
<1>5. ActiveLeaseIsHeld'  BY DEF ActiveLeaseIsHeld
<1>6. StoppedRunHasNoWorker'
  BY DEF StoppedRunHasNoWorker, LivesUnattended, Opened, ActiveLeases
<1> QED  BY <1>1, <1>3, <1>4, <1>5, <1>6

LEMMA LeaseDropped ==
  ASSUME TypeOK, LeaseInv, SameRuns, NEW r \in Runs, NEW w \in WorkUnits,
         lease' = Ended(r, w, "released"), held' = Dropped(r, w)
  PROVE  LeaseInv'
<1> DEFINE old == held[r][w].lease
<1> USE DEF LeaseInv, SameRuns
<1>1. \A q \in Runs, v \in WorkUnits : held[q][v].lease \in Leases \cup {None}
  BY DEF TypeOK, Entry
<1>2. \A l \in Leases : /\ SameOwner(l)
                        /\ l # old => lease'[l].status = lease[l].status
                        /\ l = old => lease'[l].status = "released"
  <2>1. ASSUME NEW l \in Leases
        PROVE  lease'[l] = IF l = old THEN [lease[l] EXCEPT !.status = "released"] ELSE lease[l]
    BY <1>1, NoneAssumption DEF Ended, TypeOK
  <2>2. \A l \in Leases : lease[l] \in WorkerLease  BY DEF TypeOK
  <2> QED  BY <2>1, <2>2 DEF SameOwner, WorkerLease
<1>3. \A q \in Runs, v \in WorkUnits :
        held'[q][v] = IF q = r /\ v = w THEN NoEntry ELSE held[q][v]
  BY DEF Dropped, TypeOK
<1>4. \A q \in Runs, v \in WorkUnits :
        held[q][v].lease = old /\ old # None => q = r /\ v = w
  BY DEF HeldInv
<1>5. KnownInv'
  <2>1. old # None => lease[old].status # "none"  BY DEF HeldInv
  <2> QED  BY <1>1, <1>2, <2>1, NoneAssumption DEF KnownInv, Issued, Opened, SameOwner
<1>6. HeldInv'
  BY <1>1, <1>2, <1>3, <1>4 DEF HeldInv, SameOwner, NoEntry
<1>7. AliveInv'
  BY <1>1, <1>2, <1>3, <1>4 DEF AliveInv, NoEntry
<1>8. ActiveLeaseIsHeld'
  <2> SUFFICES ASSUME NEW l \in Leases, lease'[l].status = "active"
               PROVE  /\ lease'[l].run # None /\ lease'[l].wu # None
                      /\ held'[lease'[l].run][lease'[l].wu] = [lease |-> l, epoch |-> lease'[l].epoch]
    BY DEF ActiveLeaseIsHeld
  <2>1. l # old /\ lease[l].status = "active"  BY <1>2
  <2>2. held[lease[l].run][lease[l].wu] = [lease |-> l, epoch |-> lease[l].epoch]
    BY <2>1 DEF ActiveLeaseIsHeld
  <2>3. lease[l].run \in Runs /\ lease[l].wu \in WorkUnits  BY <2>1 DEF KnownInv, Issued
  <2>4. ~(lease[l].run = r /\ lease[l].wu = w)  BY <2>1, <2>2
  <2> QED  BY <1>2, <1>3, <2>2, <2>3, <2>4, NoneAssumption DEF SameOwner
<1>9. StoppedRunHasNoWorker'
  BY <1>2 DEF StoppedRunHasNoWorker, LivesUnattended, Opened, ActiveLeases, SameOwner
<1> QED  BY <1>5, <1>6, <1>7, <1>8, <1>9

LEMMA LeaseAcquired ==
  ASSUME TypeOK, LeaseInv, NEW r \in Runs, NEW w \in WorkUnits, NEW l \in Leases,
         AcquireWorkerLease(r, w, l)
  PROVE  LeaseInv'
<1> DEFINE old == held[r][w].lease
           new == [status |-> "active", run |-> r, wu |-> w,
                   epoch |-> NextEpoch(r, w), fresh |-> TRUE]
<1> USE DEF LeaseInv
<1>1. \A q \in Runs, v \in WorkUnits : held[q][v].lease \in Leases \cup {None}
  BY DEF TypeOK, Entry
<1>2. run' = run /\ Opened(r) /\ Serving(r) /\ lease[l].status = "none"
  BY DEF AcquireWorkerLease, Authorized, Issued
<1>3. old # l  BY <1>2, NoneAssumption DEF HeldInv
<1>4. \A k \in Leases : lease'[k] = IF k = l THEN new
                                    ELSE IF k = old THEN [lease[k] EXCEPT !.status = "superseded"]
                                    ELSE lease[k]
  <2>1. CASE Reassign(r, w, l)
    <3>1. old \in Leases  BY <1>1, <2>1 DEF Reassign
    <3>2. lease' = [[lease EXCEPT ![old] = [lease[old] EXCEPT !.status = "superseded"]]
                      EXCEPT ![l] = new]
      BY <2>1 DEF Reassign
    <3> QED  BY <1>3, <3>1, <3>2 DEF TypeOK
  <2>2. CASE Staff(r, w, l)
    <3>1. old = None /\ lease' = [lease EXCEPT ![l] = new]  BY <2>2 DEF Staff
    <3> QED  BY <3>1, NoneAssumption DEF TypeOK
  <2> QED  BY <2>1, <2>2 DEF AcquireWorkerLease
<1>5. \A k \in Leases \ {l} : /\ SameOwner(k)
                              /\ k # old => lease'[k].status = lease[k].status
                              /\ k = old => lease'[k].status = "superseded"
  <2>1. \A k \in Leases : lease[k] \in WorkerLease  BY DEF TypeOK
  <2> QED  BY <1>4, <2>1 DEF SameOwner, WorkerLease
<1>6. lease'[l] = new  BY <1>4
<1>7. \A q \in Runs, v \in WorkUnits :
        held'[q][v] = IF q = r /\ v = w THEN [lease |-> l, epoch |-> NextEpoch(r, w)]
                      ELSE held[q][v]
  BY DEF AcquireWorkerLease, TypeOK
<1>8. \A q \in Runs, v \in WorkUnits :
        /\ held[q][v].lease # l
        /\ held[q][v].lease = old /\ old # None => q = r /\ v = w
  BY <1>2, NoneAssumption DEF HeldInv
<1>9. KnownInv'
  <2>1. old # None => lease[old].status # "none"  BY DEF HeldInv
  <2>2. ASSUME NEW k \in Leases \ {l}, lease'[k].status # "none"
        PROVE  lease'[k].run \in Runs /\ lease'[k].wu \in WorkUnits /\ run'[lease'[k].run].status # "none"
    <3>1. lease[k].status # "none"  BY <1>5, <2>1, <2>2, NoneAssumption
    <3> QED  BY <1>2, <1>5, <3>1 DEF KnownInv, Issued, Opened, SameOwner
  <2>3. lease'[l].run \in Runs /\ lease'[l].wu \in WorkUnits /\ run'[lease'[l].run].status # "none"
    BY <1>2, <1>6 DEF Opened
  <2> QED  BY <2>2, <2>3 DEF KnownInv, Issued, Opened
<1>10. HeldInv'
  <2> SUFFICES ASSUME NEW q \in Runs, NEW v \in WorkUnits
               PROVE  LET k == held'[q][v].lease IN
                      IF k = None THEN held'[q][v] = NoEntry
                      ELSE /\ lease'[k].status # "none" /\ lease'[k].run = q /\ lease'[k].wu = v
                           /\ lease'[k].epoch = held'[q][v].epoch
    BY DEF HeldInv
  <2>1. CASE q = r /\ v = w  BY <1>6, <1>7, <2>1, NoneAssumption
  <2>2. CASE ~(q = r /\ v = w)
    <3>1. held'[q][v] = held[q][v]  BY <1>7, <2>2
    <3>2. CASE held[q][v].lease = None  BY <3>1, <3>2 DEF HeldInv
    <3>3. CASE held[q][v].lease # None
      <4>1. held[q][v].lease \in Leases \ {l} /\ held[q][v].lease # old
        BY <1>1, <1>8, <2>2, <3>3
      <4>2. SameOwner(held[q][v].lease)
            /\ lease'[held[q][v].lease].status = lease[held[q][v].lease].status
        BY <1>5, <4>1
      <4> QED  BY <3>1, <3>3, <4>2 DEF HeldInv, SameOwner
    <3> QED  BY <3>2, <3>3
  <2> QED  BY <2>1, <2>2
<1>11. AliveInv'
  <2> SUFFICES ASSUME NEW q \in Runs, NEW v \in WorkUnits, held'[q][v].lease # None,
                      run'[q].status \notin Stopping
               PROVE  lease'[held'[q][v].lease].status = "active"
    BY DEF AliveInv
  <2>1. CASE q = r /\ v = w  BY <1>6, <1>7, <2>1
  <2>2. CASE ~(q = r /\ v = w)
    <3>1. held'[q][v] = held[q][v]  BY <1>7, <2>2
    <3>2. held[q][v].lease \in Leases \ {l} /\ held[q][v].lease # old
      BY <1>1, <1>8, <2>2, <3>1
    <3> QED  BY <1>2, <1>5, <3>1, <3>2 DEF AliveInv
  <2> QED  BY <2>1, <2>2
<1>12. ActiveLeaseIsHeld'
  <2> SUFFICES ASSUME NEW k \in Leases, lease'[k].status = "active"
               PROVE  /\ lease'[k].run # None /\ lease'[k].wu # None
                      /\ held'[lease'[k].run][lease'[k].wu] = [lease |-> k, epoch |-> lease'[k].epoch]
    BY DEF ActiveLeaseIsHeld
  <2>1. CASE k = l  BY <1>6, <1>7, <2>1, NoneAssumption
  <2>2. CASE k # l
    <3>1. k # old /\ lease[k].status = "active" /\ SameOwner(k)  BY <1>5, <2>2
    <3>2. held[lease[k].run][lease[k].wu] = [lease |-> k, epoch |-> lease[k].epoch]
      BY <3>1 DEF ActiveLeaseIsHeld
    <3>3. lease[k].run \in Runs /\ lease[k].wu \in WorkUnits  BY <3>1 DEF KnownInv, Issued
    <3>4. ~(lease[k].run = r /\ lease[k].wu = w)  BY <3>1, <3>2
    <3> QED  BY <1>7, <3>1, <3>2, <3>3, <3>4, NoneAssumption DEF SameOwner
  <2> QED  BY <2>1, <2>2
<1>13. StoppedRunHasNoWorker'
  <2> SUFFICES ASSUME NEW q \in Runs, LivesUnattended(q), run[q].status \in Stopping,
                      NEW k \in Leases, lease'[k].status = "active", lease'[k].run = q
               PROVE  FALSE
    BY <1>2 DEF StoppedRunHasNoWorker, LivesUnattended, Opened, ActiveLeases
  <2>1. CASE k = l  BY <1>2, <1>6, <2>1 DEF Serving, LivesUnattended, Stopping
  <2>2. CASE k # l
    <3>1. lease[k].status = "active" /\ lease[k].run = q  BY <1>5, <2>2 DEF SameOwner
    <3> QED  BY <3>1 DEF StoppedRunHasNoWorker, ActiveLeases
  <2> QED  BY <2>1, <2>2
<1> QED  BY <1>9, <1>10, <1>11, <1>12, <1>13

LEMMA LeaseOpened ==
  ASSUME TypeOK, LeaseInv, NEW r \in Runs, ~Opened(r), lease' = lease, held' = held,
         NEW new \in Run, new.status \in {"pending", "active"}, run' = [run EXCEPT ![r] = new]
  PROVE  LeaseInv'
<1> USE DEF LeaseInv
<1>1. \A q \in Runs : run'[q] = IF q = r THEN new ELSE run[q]  BY DEF TypeOK
<1>2. new.status \notin Stopping /\ new.status # "none"  BY DEF Stopping
<1>3. KnownInv'  BY <1>1, <1>2 DEF KnownInv, Issued, Opened
<1>4. HeldInv'  BY DEF HeldInv
<1>5. \A w \in WorkUnits : held[r][w].lease = None
  <2> SUFFICES ASSUME NEW w \in WorkUnits, held[r][w].lease # None PROVE FALSE  OBVIOUS
  <2>1. held[r][w].lease \in Leases  BY DEF TypeOK, Entry
  <2> QED  BY <2>1 DEF HeldInv, KnownInv, Issued
<1>6. AliveInv'  BY <1>1, <1>5 DEF AliveInv
<1>7. ActiveLeaseIsHeld'  BY DEF ActiveLeaseIsHeld
<1>8. StoppedRunHasNoWorker'
  BY <1>1, <1>2 DEF StoppedRunHasNoWorker, LivesUnattended, Opened, ActiveLeases
<1> QED  BY <1>3, <1>4, <1>6, <1>7, <1>8

LEMMA LeaseClosed ==
  ASSUME TypeOK, LeaseInv, NEW r \in Runs, NEW to \in RunStatuses,
         NEW expected \in 1 .. run[r].revision, CloseRun(r, to, expected)
  PROVE  LeaseInv'
<1> DEFINE revoked(l) == /\ to \in Stopping
                         /\ \E w \in WorkUnits : held[r][w].lease = l
                         /\ lease[l].status = "active"
<1> USE DEF LeaseInv
<1>1. held' = held  BY DEF CloseRun
<1>2. \A q \in Runs : /\ run'[q].preset = run[q].preset
                      /\ run'[q].status = IF q = r THEN to ELSE run[q].status
  <2>1. run' = [run EXCEPT ![r] = [run[r] EXCEPT !.status = to, !.revision = run[r].revision + 1]]
    BY DEF CloseRun
  <2>2. run[r] \in Run  BY DEF TypeOK
  <2> QED  BY <2>1, <2>2 DEF TypeOK, Run
<1>3. run[r].status \in {"pending", "active"} /\ to # "none"
  <2>1. to \in RunTransitions[run[r].status] /\ run[r].status \in RunStatuses
    BY DEF CloseRun, Opened, TypeOK, Run
  <2> QED  BY <2>1 DEF RunTransitions, RunStatuses
<1>4. \A l \in Leases : /\ SameOwner(l)
                        /\ revoked(l) => lease'[l].status = "revoked"
                        /\ ~revoked(l) => lease'[l].status = lease[l].status
  <2>1. \A l \in Leases : lease'[l] = IF revoked(l) THEN [lease[l] EXCEPT !.status = "revoked"]
                                      ELSE lease[l]
    BY DEF CloseRun
  <2>2. \A l \in Leases : lease[l] \in WorkerLease  BY DEF TypeOK
  <2> QED  BY <2>1, <2>2 DEF SameOwner, WorkerLease
<1>5. \A q \in Runs, v \in WorkUnits : held[q][v].lease \in Leases \cup {None}
  BY DEF TypeOK, Entry
<1>6. KnownInv'
  <2> SUFFICES ASSUME NEW l \in Leases, lease'[l].status # "none"
               PROVE  /\ lease'[l].run \in Runs /\ lease'[l].wu \in WorkUnits
                      /\ run'[lease'[l].run].status # "none"
    BY DEF KnownInv, Issued, Opened
  <2>1. lease[l].status # "none"  BY <1>4
  <2> QED  BY <1>2, <1>3, <1>4, <2>1 DEF KnownInv, Issued, Opened, SameOwner
<1>7. HeldInv'
  <2> SUFFICES ASSUME NEW q \in Runs, NEW v \in WorkUnits
               PROVE  LET l == held[q][v].lease IN
                      IF l = None THEN held[q][v] = NoEntry
                      ELSE /\ lease'[l].status # "none" /\ lease'[l].run = q /\ lease'[l].wu = v
                           /\ lease'[l].epoch = held[q][v].epoch
    BY <1>1 DEF HeldInv
  <2>1. CASE held[q][v].lease = None  BY <2>1 DEF HeldInv
  <2>2. CASE held[q][v].lease # None
    <3>1. held[q][v].lease \in Leases  BY <1>5, <2>2
    <3> QED  BY <1>4, <2>2, <3>1 DEF HeldInv, SameOwner
  <2> QED  BY <2>1, <2>2
<1>8. AliveInv'
  <2> SUFFICES ASSUME NEW q \in Runs, NEW v \in WorkUnits, held[q][v].lease # None,
                      run'[q].status \notin Stopping
               PROVE  lease'[held[q][v].lease].status = "active"
    BY <1>1 DEF AliveInv
  <2>1. held[q][v].lease \in Leases  BY <1>5
  <2>2. run[q].status \notin Stopping  BY <1>2, <1>3 DEF Stopping
  <2>3. lease[held[q][v].lease].status = "active"  BY <2>2 DEF AliveInv
  <2>4. ~revoked(held[q][v].lease)
    <3>1. CASE q = r  BY <1>2, <3>1
    <3>2. CASE q # r  BY <2>1, <3>2 DEF HeldInv
    <3> QED  BY <3>1, <3>2
  <2> QED  BY <1>4, <2>1, <2>3, <2>4
<1>9. ActiveLeaseIsHeld'
  <2> SUFFICES ASSUME NEW l \in Leases, lease'[l].status = "active"
               PROVE  /\ lease'[l].run # None /\ lease'[l].wu # None
                      /\ held[lease'[l].run][lease'[l].wu] = [lease |-> l, epoch |-> lease'[l].epoch]
    BY <1>1 DEF ActiveLeaseIsHeld
  <2>1. lease[l].status = "active"  BY <1>4
  <2> QED  BY <1>4, <2>1 DEF ActiveLeaseIsHeld, SameOwner
<1>10. StoppedRunHasNoWorker'
  <2> SUFFICES ASSUME NEW q \in Runs, LivesUnattended(q)', run'[q].status \in Stopping,
                      NEW l \in Leases, lease'[l].status = "active", lease'[l].run = q
               PROVE  FALSE
    BY DEF StoppedRunHasNoWorker, ActiveLeases
  <2>1. ~revoked(l) /\ lease[l].status = "active" /\ lease[l].run = q  BY <1>4 DEF SameOwner
  <2>2. CASE q = r
    <3>1. to \in Stopping  BY <1>2, <2>2
    <3>4. held[lease[l].run][lease[l].wu] = [lease |-> l, epoch |-> lease[l].epoch]
      BY <2>1 DEF ActiveLeaseIsHeld
    <3>2. held[r][lease[l].wu].lease = l  BY <2>1, <2>2, <3>4
    <3>3. lease[l].wu \in WorkUnits  BY <2>1 DEF KnownInv, Issued
    <3> QED  BY <2>1, <3>1, <3>2, <3>3
  <2>3. CASE q # r
    <3>1. LivesUnattended(q) /\ run[q].status \in Stopping
      BY <1>2, <2>3 DEF LivesUnattended, Opened
    <3> QED  BY <2>1, <3>1 DEF StoppedRunHasNoWorker, ActiveLeases
  <2> QED  BY <2>2, <2>3
<1> QED  BY <1>6, <1>7, <1>8, <1>9, <1>10

-----------------------------------------------------------------------------
(* The inductive step and the theorems *)

LEMMA OtherStep ==
  ASSUME TypeOK, GrantInv, LeaseInv,
         \/ \E g \in Grants : ExpireGrant(g) \/ RevokeGrant(g)
         \/ \E r \in Runs : Overrun(r)
         \/ \E r \in Runs, w \in WorkUnits, d \in Dimensions, s \in CeilingStates,
               expected \in Nat : TightenExecutionCeiling(r, w, d, s, expected)
         \/ \E r \in Runs, w \in WorkUnits, d \in Decisions, e \in Entries :
              ResolveRunDecision(d, r, w, e)
         \/ \E l \in Leases : Stall(l) \/ RecordWorkerHeartbeat(l) \/ WriteCheckpoint(l)
         \/ \E l \in Leases, m \in Merges, n \in 0 .. MaximumAttempts, ok \in BOOLEAN :
              RecordIntegrationMerge(l, m, n, ok)
         \/ \E w \in WorkUnits, to \in Statuses, ok \in BOOLEAN : TransitionWorkUnit(w, to, ok)
         \/ UNCHANGED vars
  PROVE  SameRuns /\ LeaseInv'
<1>1. SameRuns
  <2>1. \A q \in Runs : run[q] \in Run  BY DEF TypeOK
  <2>2. CASE run' = run  BY <2>2 DEF SameRuns
  <2>3. ASSUME NEW r \in Runs, Overrun(r) PROVE SameRuns
    <3>1. run' = [run EXCEPT ![r] = [run[r] EXCEPT !.overdue = TRUE]]  BY <2>3 DEF Overrun
    <3> QED  BY <2>1, <3>1 DEF SameRuns, TypeOK, Run
  <2>4. ASSUME NEW r \in Runs, NEW w \in WorkUnits, NEW d \in Dimensions, NEW s \in CeilingStates,
               NEW expected \in Nat, TightenExecutionCeiling(r, w, d, s, expected)
        PROVE  SameRuns
    <3>1. run' = [run EXCEPT ![r] = [run[r] EXCEPT !.revision = run[r].revision + 1]]
      BY <2>4 DEF TightenExecutionCeiling
    <3> QED  BY <2>1, <3>1 DEF SameRuns, TypeOK, Run
  <2> QED
    BY <2>2, <2>3, <2>4 DEF ExpireGrant, RevokeGrant, ResolveRunDecision, Stall,
       RecordWorkerHeartbeat, WriteCheckpoint, RecordIntegrationMerge, TransitionWorkUnit, vars
<1>2. held' = held
  BY DEF ExpireGrant, RevokeGrant, Overrun, TightenExecutionCeiling, ResolveRunDecision, Stall,
     RecordWorkerHeartbeat, WriteCheckpoint, RecordIntegrationMerge, TransitionWorkUnit, vars
<1>3. \A l \in Leases : lease'[l].status = lease[l].status /\ SameOwner(l)
  <2>1. \A l \in Leases : lease[l] \in WorkerLease  BY DEF TypeOK
  <2>2. CASE lease' = lease  BY <2>2 DEF SameOwner
  <2>3. ASSUME NEW k \in Leases, NEW b \in BOOLEAN,
               lease' = [lease EXCEPT ![k] = [lease[k] EXCEPT !.fresh = b]]
        PROVE  \A l \in Leases : lease'[l].status = lease[l].status /\ SameOwner(l)
    <3>1. \A l \in Leases : lease'[l] = IF l = k THEN [lease[k] EXCEPT !.fresh = b] ELSE lease[l]
      BY <2>3 DEF TypeOK
    <3> QED  BY <2>1, <3>1 DEF SameOwner, WorkerLease
  <2>4. ASSUME NEW k \in Leases, Stall(k) \/ RecordWorkerHeartbeat(k)
        PROVE  \E b \in BOOLEAN : lease' = [lease EXCEPT ![k] = [lease[k] EXCEPT !.fresh = b]]
    BY <2>4 DEF Stall, RecordWorkerHeartbeat
  <2> QED
    BY <2>2, <2>3, <2>4 DEF ExpireGrant, RevokeGrant, Overrun, TightenExecutionCeiling,
       ResolveRunDecision, WriteCheckpoint, RecordIntegrationMerge, TransitionWorkUnit, vars
<1> QED  BY <1>1, <1>2, <1>3, LeaseKept

LEMMA EscalateSameRuns ==
  ASSUME TypeOK, NEW r \in Runs, NEW w \in WorkUnits, NEW class \in 0 .. Critical,
         NEW expected \in Nat, EscalateWorkUnitRisk(r, w, class, expected)
  PROVE  SameRuns
<1>1. run' = [run EXCEPT ![r] = [run[r] EXCEPT !.revision = run[r].revision + 1]]
  BY DEF EscalateWorkUnitRisk
<1>2. \A q \in Runs : run[q] \in Run  BY DEF TypeOK
<1> QED  BY <1>1, <1>2 DEF SameRuns, TypeOK, Run

LEMMA LeaseStep == IInv /\ [Next]_vars => GrantInv' /\ LeaseInv'
<1> SUFFICES ASSUME IInv, [Next]_vars PROVE GrantInv' /\ LeaseInv'  OBVIOUS
<1> USE DEF IInv
<1>1. ASSUME SameRuns PROVE GrantInv'  BY <1>1 DEF SameRuns, GrantInv, Opened
<1>2. ASSUME NEW r \in Runs, NEW g \in Grants, NEW preset \in Presets, NEW batch \in Batches,
             NEW cap \in ParallelCaps, NEW status \in {"pending", "active"},
             NEW requested \in RequestedCeilings,
             OpenRun(r, g, preset, batch, cap, status, requested)
      PROVE  GrantInv' /\ LeaseInv'
  <2> DEFINE new == [status |-> status, preset |-> preset, batch |-> batch, cap |-> cap,
                     grant |-> g, revision |-> 1, overdue |-> FALSE]
  <2>1. run' = [run EXCEPT ![r] = new] /\ ~Opened(r) /\ lease' = lease /\ held' = held
    BY <1>2 DEF OpenRun
  <2>2. new \in Run /\ new.status \in {"pending", "active"}
    <3>1. preset \in Unattended \cup {"supervised_copilots"} /\ batch \in SUBSET WorkUnits
      BY InputsAssumption
    <3>2. cap \in Nat  BY LimitsAssumption
    <3> QED  BY <3>1, <3>2 DEF Run, RunStatuses
  <2>3. GrantInv'  BY <2>1 DEF GrantInv, Opened, TypeOK
  <2> QED  BY <2>1, <2>2, <2>3, LeaseOpened
<1>3. ASSUME NEW r \in Runs, NEW to \in RunStatuses, NEW expected \in 1 .. run[r].revision,
             CloseRun(r, to, expected)
      PROVE  GrantInv' /\ LeaseInv'
  <2>1. run' = [run EXCEPT ![r] = [run[r] EXCEPT !.status = to, !.revision = run[r].revision + 1]]
    BY <1>3 DEF CloseRun
  <2>2. \A q \in Runs : run[q] \in Run  BY DEF TypeOK
  <2>3. \A q \in Runs : run'[q].grant = run[q].grant /\ (q # r => run'[q] = run[q])
    BY <2>1, <2>2 DEF TypeOK, Run
  <2>4. GrantInv'  BY <1>3, <2>3 DEF GrantInv, Opened, CloseRun
  <2> QED  BY <1>3, <2>4, LeaseClosed
<1>4. ASSUME NEW r \in Runs, NEW w \in WorkUnits, NEW l \in Leases, AcquireWorkerLease(r, w, l)
      PROVE  GrantInv' /\ LeaseInv'
  <2>1. SameRuns  BY <1>4 DEF AcquireWorkerLease, SameRuns
  <2> QED  BY <1>1, <1>4, <2>1, LeaseAcquired
<1>5. ASSUME NEW r \in Runs, NEW w \in WorkUnits, NEW class \in 0 .. Critical,
             NEW expected \in 1 .. run[r].revision, EscalateWorkUnitRisk(r, w, class, expected)
      PROVE  GrantInv' /\ LeaseInv'
  <2>0. expected \in Nat  BY DEF TypeOK, Run
  <2>1. SameRuns  BY <1>5, <2>0, EscalateSameRuns
  <2>2. \/ lease' = lease /\ held' = held
        \/ lease' = Ended(r, w, "released") /\ held' = Dropped(r, w)
    BY <1>5 DEF EscalateWorkUnitRisk
  <2>3. ASSUME lease' = lease, held' = held PROVE LeaseInv'
    <3>1. \A k \in Leases : lease'[k].status = lease[k].status /\ SameOwner(k)
      BY <2>3 DEF SameOwner
    <3> QED  BY <2>1, <2>3, <3>1, LeaseKept
  <2>4. ASSUME lease' = Ended(r, w, "released"), held' = Dropped(r, w) PROVE LeaseInv'
    BY <2>1, <2>4, LeaseDropped
  <2> QED  BY <1>1, <2>1, <2>2, <2>3, <2>4
<1>6. ASSUME NEW r \in Runs, NEW w \in WorkUnits, NEW d \in Decisions, NEW e \in Entries,
             RejectRunDecision(d, r, w, e)
      PROVE  GrantInv' /\ LeaseInv'
  <2>1. SameRuns /\ lease' = Ended(r, w, "released") /\ held' = Dropped(r, w)
    BY <1>6 DEF RejectRunDecision, SameRuns
  <2> QED  BY <1>1, <2>1, LeaseDropped
<1>7. ASSUME NEW l \in Leases, ReleaseWorkerLease(l) PROVE GrantInv' /\ LeaseInv'
  <2> DEFINE r == lease[l].run
             w == lease[l].wu
  <2>1. SameRuns /\ held' = Dropped(r, w)  BY <1>7 DEF ReleaseWorkerLease, SameRuns
  <2>2. r \in Runs /\ w \in WorkUnits  BY <1>7 DEF ReleaseWorkerLease, LeaseInv, KnownInv
  <2>3. held[r][w].lease = l  BY <1>7 DEF ReleaseWorkerLease, IsCurrent
  <2>4. lease' = Ended(r, w, "released")
    BY <1>7, <2>3, NoneAssumption DEF ReleaseWorkerLease, Ended
  <2> QED  BY <1>1, <2>1, <2>2, <2>4, LeaseDropped
<1>8. ASSUME NEW r \in Runs, NEW w \in WorkUnits, NEW d \in Dimensions, NEW s \in CeilingStates,
             NEW expected \in 1 .. run[r].revision, TightenExecutionCeiling(r, w, d, s, expected)
      PROVE  SameRuns /\ LeaseInv'
  <2>1. expected \in Nat  BY DEF TypeOK, Run
  <2> QED  BY <1>8, <2>1, OtherStep
<1> QED
  BY <1>1, <1>2, <1>3, <1>4, <1>5, <1>6, <1>7, <1>8, OtherStep
  DEF Next, GrantStep, RunStep, WorkerStep, UnitStep

\* Ceilings are written by the opening of a Run and by a tightening only.
LEMMA CeilingWriters ==
  ASSUME [Next]_vars
  PROVE  \/ ceiling' = ceiling
         \/ \E r \in Runs, g \in Grants, preset \in Presets, batch \in Batches,
               cap \in ParallelCaps, status \in {"pending", "active"},
               requested \in RequestedCeilings :
              OpenRun(r, g, preset, batch, cap, status, requested)
         \/ \E r \in Runs, w \in WorkUnits, d \in Dimensions, s \in CeilingStates :
              \E expected \in 1 .. run[r].revision :
                TightenExecutionCeiling(r, w, d, s, expected)
<1>1. CASE GrantStep  BY <1>1 DEF GrantStep, ExpireGrant, RevokeGrant
<1>2. CASE RunStep
  <2>1. ASSUME NEW r \in Runs, NEW w \in WorkUnits, NEW class \in 0 .. Critical,
               NEW expected \in 1 .. run[r].revision, EscalateWorkUnitRisk(r, w, class, expected)
        PROVE  ceiling' = ceiling
    BY <2>1 DEF EscalateWorkUnitRisk
  <2>2. ASSUME NEW r \in Runs, Overrun(r) PROVE ceiling' = ceiling  BY <2>2 DEF Overrun
  <2>3. ASSUME NEW r \in Runs, NEW to \in RunStatuses, NEW expected \in 1 .. run[r].revision,
               CloseRun(r, to, expected)
        PROVE  ceiling' = ceiling
    BY <2>3 DEF CloseRun
  <2>4. ASSUME NEW r \in Runs, NEW w \in WorkUnits, NEW l \in Leases, AcquireWorkerLease(r, w, l)
        PROVE  ceiling' = ceiling
    BY <2>4 DEF AcquireWorkerLease
  <2>5. ASSUME NEW r \in Runs, NEW w \in WorkUnits, NEW d \in Decisions, NEW e \in Entries,
               ResolveRunDecision(d, r, w, e) \/ RejectRunDecision(d, r, w, e)
        PROVE  ceiling' = ceiling
    BY <2>5 DEF ResolveRunDecision, RejectRunDecision
  <2> QED  BY <1>2, <2>1, <2>2, <2>3, <2>4, <2>5 DEF RunStep
<1>3. CASE WorkerStep
  BY <1>3 DEF WorkerStep, Stall, RecordWorkerHeartbeat, ReleaseWorkerLease,
     WriteCheckpoint, RecordIntegrationMerge
<1>4. CASE UnitStep \/ UNCHANGED vars
  BY <1>4 DEF UnitStep, TransitionWorkUnit, vars
<1> QED  BY <1>1, <1>2, <1>3, <1>4 DEF Next

\* A tightening touches one dimension that is not pinned, and raises its rank.
LEMMA Tightened ==
  ASSUME IInv, NEW r \in Runs, NEW w \in WorkUnits, NEW d \in Dimensions,
         NEW s \in CeilingStates, NEW expected \in 1 .. run[r].revision,
         TightenExecutionCeiling(r, w, d, s, expected)
  PROVE  /\ d \notin AlwaysForbidden
         /\ Rank[s] > Rank[ceiling[r][w][d]]
         /\ \A q \in Runs, v \in WorkUnits, c \in CeilingDimensions :
              ceiling'[q][v][c] = IF q = r /\ v = w /\ c = d THEN s ELSE ceiling[q][v][c]
<1> USE DEF IInv
<1>1. Rank[s] > Rank[ceiling[r][w][d]]  BY DEF TightenExecutionCeiling
<1>2. ceiling[r][w][d] \in CeilingStates  BY InputsAssumption DEF TypeOK
<1>3. ceiling[r][w][d] # "forbidden"  BY <1>1, <1>2 DEF Rank, CeilingStates
<1>4. \A q \in Runs, v \in WorkUnits, c \in CeilingDimensions :
        ceiling'[q][v][c] = IF q = r /\ v = w /\ c = d THEN s ELSE ceiling[q][v][c]
  BY DEF TightenExecutionCeiling, TypeOK
<1>5. d \notin AlwaysForbidden  BY <1>3 DEF PinnedInv
<1> QED  BY <1>1, <1>4, <1>5

LEMMA PinnedStep == IInv /\ [Next]_vars => PinnedInv'
<1> SUFFICES ASSUME IInv, [Next]_vars PROVE PinnedInv'  OBVIOUS
<1>1. CASE ceiling' = ceiling  BY <1>1 DEF IInv, PinnedInv
<1>2. ASSUME NEW r \in Runs, NEW g \in Grants, NEW preset \in Presets, NEW batch \in Batches,
             NEW cap \in ParallelCaps, NEW status \in {"pending", "active"},
             NEW requested \in RequestedCeilings,
             OpenRun(r, g, preset, batch, cap, status, requested)
      PROVE  PinnedInv'
  BY <1>2 DEF OpenRun, ValidCeiling, IInv, PinnedInv, TypeOK
<1>3. ASSUME NEW r \in Runs, NEW w \in WorkUnits, NEW d \in Dimensions, NEW s \in CeilingStates,
             NEW expected \in 1 .. run[r].revision, TightenExecutionCeiling(r, w, d, s, expected)
      PROVE  PinnedInv'
  BY <1>3, Tightened DEF IInv, PinnedInv, CeilingDimensions
<1> QED  BY <1>1, <1>2, <1>3, CeilingWriters

LEMMA Inductive == Spec => []IInv
<1>1. Init => IInv  BY InitType, LeaseInit DEF IInv
<1>2. IInv /\ [Next]_vars => IInv'
  BY TypeStep, LeaseStep, PinnedStep DEF IInv, LeaseInv
<1> QED  BY <1>1, <1>2, PTL DEF Spec

\* Every document keeps its shape, whatever the commands and their order.
THEOREM TypeCorrect == Spec => []TypeOK
<1>1. IInv => TypeOK  BY DEF IInv
<1> QED  BY <1>1, Inductive, PTL

\* An active lease document is the one the Run's own entry names, with its epoch:
\* at most one worker holds a Work Unit of a Run, however often it is replaced.
THEOREM LeaseAgreesWithRun == Spec => []ActiveLeaseIsHeld
<1>1. IInv => ActiveLeaseIsHeld  BY DEF IInv, LeaseInv
<1> QED  BY <1>1, Inductive, PTL

\* No worker survives the stop of an unattended Run or is admitted after it.
THEOREM StopRevokesWorkers == Spec => []StoppedRunHasNoWorker
<1>1. IInv => StoppedRunHasNoWorker  BY DEF IInv, LeaseInv
<1> QED  BY <1>1, Inductive, PTL

\* The lease of a worker whose lease has ended is never the Run's current one while
\* the Run serves: nothing the worker sends passes the fencing checks.
LEMMA EndedMayNotWrite ==
  ASSUME IInv, NEW l \in Leases, lease[l].status \notin {"none", "active"},
         run[lease[l].run].preset \in Unattended
  PROVE  ~MayWrite(l)
<1> SUFFICES ASSUME MayWrite(l) PROVE FALSE  OBVIOUS
<1> USE DEF IInv, LeaseInv
<1>1. lease[l].run \in Runs /\ lease[l].wu \in WorkUnits  BY DEF KnownInv, Issued
<1>2. run[lease[l].run].status \notin Stopping  BY DEF MayWrite, Serving, Stopping
<1>3. held[lease[l].run][lease[l].wu].lease = l  BY DEF MayWrite, IsCurrent
<1> QED  BY <1>1, <1>2, <1>3, NoneAssumption DEF AliveInv

LEMMA OtherRunSteps ==
  ASSUME NEW r \in Runs, NEW w \in WorkUnits, NEW d \in Decisions, NEW e \in Entries
  PROVE  /\ Overrun(r) => UNCHANGED <<lease, checkpoint, merge>>
         /\ ResolveRunDecision(d, r, w, e) => UNCHANGED <<lease, checkpoint, merge>>
         /\ RejectRunDecision(d, r, w, e) =>
              lease' = Ended(r, w, "released") /\ UNCHANGED <<checkpoint, merge>>
BY DEF Overrun, ResolveRunDecision, RejectRunDecision

\* Only a worker writes checkpoints and merges.
LEMMA WorkersWrite ==
  ASSUME [Next]_vars, ~WorkerStep
  PROVE  UNCHANGED <<checkpoint, merge>>
<1>1. CASE GrantStep  BY <1>1 DEF GrantStep, ExpireGrant, RevokeGrant, OpenRun
<1>2. CASE RunStep
  <2>1. ASSUME NEW r \in Runs, Overrun(r) PROVE UNCHANGED <<checkpoint, merge>>
    BY <2>1 DEF Overrun
  <2>2. ASSUME NEW r \in Runs, NEW to \in RunStatuses, NEW expected \in 1 .. run[r].revision,
               CloseRun(r, to, expected)
        PROVE  UNCHANGED <<checkpoint, merge>>
    BY <2>2 DEF CloseRun
  <2>3. ASSUME NEW r \in Runs, NEW w \in WorkUnits, NEW l \in Leases, AcquireWorkerLease(r, w, l)
        PROVE  UNCHANGED <<checkpoint, merge>>
    BY <2>3 DEF AcquireWorkerLease
  <2>4. ASSUME NEW r \in Runs, NEW w \in WorkUnits, NEW d \in Dimensions, NEW s \in CeilingStates,
               NEW expected \in 1 .. run[r].revision, TightenExecutionCeiling(r, w, d, s, expected)
        PROVE  UNCHANGED <<checkpoint, merge>>
    BY <2>4 DEF TightenExecutionCeiling
  <2>5. ASSUME NEW r \in Runs, NEW w \in WorkUnits, NEW class \in 0 .. Critical,
               NEW expected \in 1 .. run[r].revision, EscalateWorkUnitRisk(r, w, class, expected)
        PROVE  UNCHANGED <<checkpoint, merge>>
    BY <2>5 DEF EscalateWorkUnitRisk
  <2>6. ASSUME NEW r \in Runs, NEW w \in WorkUnits, NEW d \in Decisions, NEW e \in Entries,
               ResolveRunDecision(d, r, w, e) \/ RejectRunDecision(d, r, w, e)
        PROVE  UNCHANGED <<checkpoint, merge>>
    BY <2>6, OtherRunSteps
  <2> QED  BY <1>2, <2>1, <2>2, <2>3, <2>4, <2>5, <2>6 DEF RunStep
<1>3. CASE UnitStep \/ UNCHANGED vars
  BY <1>3 DEF UnitStep, TransitionWorkUnit, vars
<1> QED  BY <1>1, <1>2, <1>3 DEF Next

HasEnded(l) == /\ lease[l].status \notin {"none", "active"}
               /\ run[lease[l].run].preset \in Unattended
StaysSilent(l) == /\ lease'[l].status # "active"
                  /\ lease'[l].fresh => lease[l].fresh
                  /\ \A w \in WorkUnits : checkpoint'[w] = l => checkpoint[w] = l
                  /\ \A m \in Merges : merge'[m] = l => merge[m] = l

LEMMA SilentStep == IInv /\ [Next]_vars => \A l \in Leases : HasEnded(l) => StaysSilent(l)
<1>1. ASSUME IInv, [Next]_vars, NEW l \in Leases, HasEnded(l) PROVE StaysSilent(l)
  <2> USE DEF IInv, HasEnded, StaysSilent
  <2>1. ~MayWrite(l)  BY <1>1, EndedMayNotWrite
  <2>2. \A k \in Leases : lease[k] \in WorkerLease  BY <1>1 DEF TypeOK
  <2>3. \/ UNCHANGED checkpoint
        \/ \E k \in Leases : WriteCheckpoint(k)
    <3>1. CASE WorkerStep
      BY <3>1 DEF WorkerStep, Stall, RecordWorkerHeartbeat, ReleaseWorkerLease,
         RecordIntegrationMerge
    <3> QED  BY <1>1, <3>1, WorkersWrite
  <2>4. \A w \in WorkUnits : checkpoint'[w] = l => checkpoint[w] = l
    <3>1. ASSUME NEW k \in Leases, WriteCheckpoint(k), NEW w \in WorkUnits, checkpoint'[w] = l
          PROVE  checkpoint[w] = l
      <4>1. k # l  BY <2>1, <3>1 DEF WriteCheckpoint
      <4>2. checkpoint' = [checkpoint EXCEPT ![lease[k].wu] = k]  BY <3>1 DEF WriteCheckpoint
      <4> QED  BY <1>1, <3>1, <4>1, <4>2 DEF TypeOK
    <3> QED  BY <2>3, <3>1
  <2>5. \/ UNCHANGED merge
        \/ \E k \in Leases, m \in Merges, n \in 0 .. MaximumAttempts, ok \in BOOLEAN :
             RecordIntegrationMerge(k, m, n, ok)
    <3>1. CASE WorkerStep
      BY <3>1 DEF WorkerStep, Stall, RecordWorkerHeartbeat, ReleaseWorkerLease, WriteCheckpoint
    <3> QED  BY <1>1, <3>1, WorkersWrite
  <2>6. \A m \in Merges : merge'[m] = l => merge[m] = l
    <3>1. ASSUME NEW k \in Leases, NEW x \in Merges, NEW n \in 0 .. MaximumAttempts,
                 NEW ok \in BOOLEAN, RecordIntegrationMerge(k, x, n, ok),
                 NEW m \in Merges, merge'[m] = l
          PROVE  merge[m] = l
      <4>1. k # l  BY <2>1, <3>1 DEF RecordIntegrationMerge
      <4>2. merge' = [merge EXCEPT ![x] = k]  BY <3>1 DEF RecordIntegrationMerge
      <4> QED  BY <1>1, <3>1, <4>1, <4>2 DEF TypeOK
    <3> QED  BY <2>5, <3>1
  <2>7. ASSUME NEW r \in Runs, NEW w \in WorkUnits, NEW k \in Leases, AcquireWorkerLease(r, w, k)
        PROVE  lease'[l].status # "active" /\ (lease'[l].fresh => lease[l].fresh)
    <3>1. k # l  BY <1>1, <2>7 DEF AcquireWorkerLease, Issued
    <3>2. CASE Reassign(r, w, k)
      <4> DEFINE old == held[r][w].lease
                 base == [lease EXCEPT ![old] = [lease[old] EXCEPT !.status = "superseded"]]
      <4>1. lease' = [base EXCEPT ![k] = [status |-> "active", run |-> r, wu |-> w,
                                          epoch |-> NextEpoch(r, w), fresh |-> TRUE]]
        BY <3>2 DEF Reassign
      <4>2. lease'[l] = IF l = old THEN [lease[l] EXCEPT !.status = "superseded"] ELSE lease[l]
        BY <1>1, <3>1, <4>1 DEF TypeOK
      <4> QED  BY <1>1, <2>2, <4>2 DEF WorkerLease
    <3>3. CASE Staff(r, w, k)
      BY <1>1, <3>1, <3>3 DEF Staff, TypeOK
    <3> QED  BY <2>7, <3>2, <3>3 DEF AcquireWorkerLease
  <2>8. ASSUME NEW k \in Leases, NEW s \in {"released", "revoked"}, k = l,
               lease'[l] = [lease[l] EXCEPT !.status = s]
        PROVE  lease'[l].status # "active" /\ (lease'[l].fresh => lease[l].fresh)
    BY <2>2, <2>8 DEF WorkerLease
  <2>9. ASSUME lease'[l] = lease[l]
        PROVE  lease'[l].status # "active" /\ (lease'[l].fresh => lease[l].fresh)
    BY <1>1, <2>9
  <2>10. ASSUME NEW r \in Runs, NEW w \in WorkUnits, lease' = Ended(r, w, "released")
         PROVE  lease'[l].status # "active" /\ (lease'[l].fresh => lease[l].fresh)
    <3>1. \/ lease'[l] = lease[l]
          \/ lease'[l] = [lease[l] EXCEPT !.status = "released"]
      BY <1>1, <2>10 DEF Ended, TypeOK
    <3> QED  BY <2>8, <2>9, <3>1
  <2>11. ASSUME NEW k \in Leases, Stall(k) \/ RecordWorkerHeartbeat(k)
         PROVE  lease'[l].status # "active" /\ (lease'[l].fresh => lease[l].fresh)
    <3>1. CASE Stall(k)
      <4>1. lease' = [lease EXCEPT ![k] = [lease[k] EXCEPT !.fresh = FALSE]]
        BY <3>1 DEF Stall
      <4> QED  BY <1>1, <2>2, <4>1 DEF TypeOK, WorkerLease
    <3>2. CASE RecordWorkerHeartbeat(k)
      <4>1. k # l  BY <2>1, <3>2 DEF RecordWorkerHeartbeat
      <4>2. lease'[l] = lease[l]  BY <1>1, <3>2, <4>1 DEF RecordWorkerHeartbeat, TypeOK
      <4> QED  BY <2>9, <4>2
    <3> QED  BY <2>11, <3>1, <3>2
  <2>12. ASSUME NEW k \in Leases, ReleaseWorkerLease(k)
         PROVE  lease'[l].status # "active" /\ (lease'[l].fresh => lease[l].fresh)
    <3>1. k # l  BY <1>1, <2>12 DEF ReleaseWorkerLease
    <3>2. lease'[l] = lease[l]  BY <1>1, <2>12, <3>1 DEF ReleaseWorkerLease, TypeOK
    <3> QED  BY <2>9, <3>2
  <2>13. ASSUME NEW r \in Runs, NEW to \in RunStatuses, NEW expected \in 1 .. run[r].revision,
                CloseRun(r, to, expected)
         PROVE  lease'[l].status # "active" /\ (lease'[l].fresh => lease[l].fresh)
    <3>1. lease'[l] = lease[l]  BY <1>1, <2>13 DEF CloseRun
    <3> QED  BY <2>9, <3>1
  <2>14. ASSUME NEW r \in Runs, NEW w \in WorkUnits, NEW class \in 0 .. Critical,
                NEW expected \in 1 .. run[r].revision, EscalateWorkUnitRisk(r, w, class, expected)
         PROVE  lease' = lease \/ lease' = Ended(r, w, "released")
    BY <2>14 DEF EscalateWorkUnitRisk
  <2>15. lease'[l].status # "active" /\ (lease'[l].fresh => lease[l].fresh)
    <3>1. CASE GrantStep  BY <2>9, <3>1 DEF GrantStep, ExpireGrant, RevokeGrant, OpenRun
    <3>2. CASE RunStep
      <4> DEFINE Quiet == lease'[l].status # "active" /\ (lease'[l].fresh => lease[l].fresh)
      <4> HIDE DEF Quiet
      <4>1. ASSUME NEW r \in Runs, NEW w \in WorkUnits, NEW d \in Decisions, NEW e \in Entries,
                   ResolveRunDecision(d, r, w, e) \/ RejectRunDecision(d, r, w, e)
            PROVE  Quiet
        BY <2>9, <2>10, <4>1, OtherRunSteps DEF Quiet
      <4>2. ASSUME NEW r \in Runs, Overrun(r) PROVE Quiet
        BY <2>9, <4>2 DEF Quiet, Overrun
      <4>3. ASSUME NEW r \in Runs, NEW w \in WorkUnits, NEW d \in Dimensions,
                   NEW s \in CeilingStates, NEW expected \in 1 .. run[r].revision,
                   TightenExecutionCeiling(r, w, d, s, expected)
            PROVE  Quiet
        BY <2>9, <4>3 DEF Quiet, TightenExecutionCeiling
      <4>4. ASSUME NEW r \in Runs, NEW w \in WorkUnits, NEW class \in 0 .. Critical,
                   NEW expected \in 1 .. run[r].revision,
                   EscalateWorkUnitRisk(r, w, class, expected)
            PROVE  Quiet
        BY <2>9, <2>10, <2>14, <4>4 DEF Quiet
      <4>5. ASSUME NEW r \in Runs, NEW to \in RunStatuses, NEW expected \in 1 .. run[r].revision,
                   CloseRun(r, to, expected)
            PROVE  Quiet
        BY <2>13, <4>5 DEF Quiet
      <4>6. ASSUME NEW r \in Runs, NEW w \in WorkUnits, NEW k \in Leases,
                   AcquireWorkerLease(r, w, k)
            PROVE  Quiet
        BY <2>7, <4>6 DEF Quiet
      <4>7. Quiet  BY <3>2, <4>1, <4>2, <4>3, <4>4, <4>5, <4>6 DEF RunStep
      <4> QED  BY <4>7 DEF Quiet
    <3>3. CASE WorkerStep
      BY <2>9, <2>11, <2>12, <3>3 DEF WorkerStep, WriteCheckpoint, RecordIntegrationMerge
    <3>4. CASE UnitStep \/ UNCHANGED vars
      BY <2>9, <3>4 DEF UnitStep, TransitionWorkUnit, vars
    <3> QED  BY <1>1, <3>1, <3>2, <3>3, <3>4 DEF Next
  <2> QED  BY <2>4, <2>6, <2>15
<1> QED  BY <1>1

\* In an unattended Run an ended lease is never revived and its worker's heartbeat,
\* checkpoint and merge are refused.
THEOREM FormerWorkersAreSilent == Spec => EndedLeaseIsSilent
<1>1. []IInv /\ [][Next]_vars => [][\A l \in Leases : HasEnded(l) => StaysSilent(l)]_vars
  BY SilentStep, PTL
<1> QED  BY <1>1, Inductive, PTL DEF Spec, EndedLeaseIsSilent, HasEnded, StaysSilent

-----------------------------------------------------------------------------
(* What only moves one way *)

RiskSame == \A v \in WorkUnits : unit'[v].risk = unit[v].risk
RiskKept == \A v \in WorkUnits : unit'[v].risk >= unit[v].risk

\* Only an escalation writes a risk class, and it raises it.
LEMMA RiskRises ==
  ASSUME IInv, [Next]_vars
  PROVE  RiskKept
<1>0. \A v \in WorkUnits : unit[v].risk \in Nat  BY DEF IInv, TypeOK
<1>1. RiskSame => RiskKept  BY <1>0 DEF RiskKept, RiskSame
<1>7. unit' = unit => RiskKept  BY <1>1 DEF RiskSame
<1>2. CASE GrantStep
  <2>1. unit' = unit  BY <1>2 DEF GrantStep, ExpireGrant, RevokeGrant, OpenRun
  <2> QED  BY <1>7, <2>1
<1>3. CASE RunStep
  <2>1. ASSUME NEW r \in Runs, NEW w \in WorkUnits, NEW class \in 0 .. Critical,
               NEW expected \in 1 .. run[r].revision, EscalateWorkUnitRisk(r, w, class, expected)
        PROVE  RiskKept
    <3>1. class > unit[w].risk  BY <2>1 DEF EscalateWorkUnitRisk
    <3>2. unit'[w].risk = class  BY <2>1 DEF EscalateWorkUnitRisk, IInv, TypeOK
    <3>3. \A v \in WorkUnits : v # w => unit'[v] = unit[v]
      BY <2>1 DEF EscalateWorkUnitRisk, IInv, TypeOK
    <3> QED  BY <1>0, <3>1, <3>2, <3>3 DEF RiskKept
  <2>2. ASSUME NEW r \in Runs, Overrun(r) PROVE RiskKept  BY <1>7, <2>2 DEF Overrun
  <2>3. ASSUME NEW r \in Runs, NEW to \in RunStatuses, NEW expected \in 1 .. run[r].revision,
               CloseRun(r, to, expected)
        PROVE  RiskKept
    BY <1>7, <2>3 DEF CloseRun
  <2>4. ASSUME NEW r \in Runs, NEW w \in WorkUnits, NEW l \in Leases, AcquireWorkerLease(r, w, l)
        PROVE  RiskKept
    BY <1>7, <2>4 DEF AcquireWorkerLease
  <2>5. ASSUME NEW r \in Runs, NEW w \in WorkUnits, NEW d \in Decisions, NEW e \in Entries,
               ResolveRunDecision(d, r, w, e) \/ RejectRunDecision(d, r, w, e)
        PROVE  RiskKept
    <3>1. PICK to \in UnitStatuses : unit' = [unit EXCEPT ![w].status = to]
      BY <2>5 DEF ResolveRunDecision, RejectRunDecision, UnitStatuses, IInv, TypeOK
    <3> QED  BY <1>1, <3>1 DEF IInv, TypeOK, RiskSame
  <2>6. ASSUME NEW r \in Runs, NEW w \in WorkUnits, NEW d \in Dimensions, NEW s \in CeilingStates,
               NEW expected \in 1 .. run[r].revision, TightenExecutionCeiling(r, w, d, s, expected)
        PROVE  RiskKept
    BY <1>7, <2>6 DEF TightenExecutionCeiling
  <2> QED  BY <1>3, <2>1, <2>2, <2>3, <2>4, <2>5, <2>6 DEF RunStep
<1>4. CASE WorkerStep
  <2>1. unit' = unit
    BY <1>4 DEF WorkerStep, Stall, RecordWorkerHeartbeat, ReleaseWorkerLease, WriteCheckpoint,
       RecordIntegrationMerge
  <2> QED  BY <1>7, <2>1
<1>5. ASSUME NEW w \in WorkUnits, NEW to \in Statuses, NEW ok \in BOOLEAN,
             TransitionWorkUnit(w, to, ok)
      PROVE  RiskKept
  BY <1>1, <1>5 DEF TransitionWorkUnit, IInv, TypeOK, RiskSame
<1>6. CASE UNCHANGED vars  BY <1>7, <1>6 DEF vars
<1> QED  BY <1>2, <1>3, <1>4, <1>5, <1>6 DEF Next, UnitStep

Tighter(r, w, d) == /\ Opened(r) => Rank[ceiling'[r][w][d]] >= Rank[ceiling[r][w][d]]
                    /\ d \in AlwaysForbidden => ceiling'[r][w][d] = "forbidden"
OneWay == /\ \A r \in Runs, w \in WorkUnits, d \in CeilingDimensions : Tighter(r, w, d)
          /\ \A w \in WorkUnits : unit'[w].risk >= unit[w].risk

LEMMA OneWayStep == IInv /\ [Next]_vars => OneWay
<1>1. ASSUME IInv, [Next]_vars, NEW r \in Runs, NEW w \in WorkUnits, NEW d \in CeilingDimensions
      PROVE  Tighter(r, w, d)
  <2> USE DEF Tighter
  <2>1. d \in AlwaysForbidden => ceiling'[r][w][d] = "forbidden"
    BY <1>1, PinnedStep DEF PinnedInv
  <2>2. \A x \in CeilingStates : Rank[x] \in Nat  BY DEF Rank
  <2>3. ceiling[r][w][d] \in CeilingStates  BY <1>1 DEF IInv, TypeOK
  <2>4. CASE ceiling' = ceiling  BY <2>1, <2>2, <2>3, <2>4
  <2>5. ASSUME NEW q \in Runs, NEW g \in Grants, NEW preset \in Presets, NEW batch \in Batches,
               NEW cap \in ParallelCaps, NEW status \in {"pending", "active"},
               NEW requested \in RequestedCeilings,
               OpenRun(q, g, preset, batch, cap, status, requested)
        PROVE  Tighter(r, w, d)
    <3>1. Opened(r) => ceiling'[r] = ceiling[r]
      BY <1>1, <2>5 DEF OpenRun, IInv, TypeOK
    <3> QED  BY <2>1, <2>2, <2>3, <3>1
  <2>6. ASSUME NEW q \in Runs, NEW v \in WorkUnits, NEW c \in Dimensions, NEW s \in CeilingStates,
               NEW expected \in 1 .. run[q].revision, TightenExecutionCeiling(q, v, c, s, expected)
        PROVE  Tighter(r, w, d)
    BY <1>1, <2>1, <2>2, <2>3, <2>6, Tightened
  <2> QED  BY <1>1, <2>4, <2>5, <2>6, CeilingWriters
<1> QED  BY <1>1, RiskRises DEF RiskKept, OneWay

\* No command gives a Run back an authority that was taken from it: its ceilings
\* only tighten, the pinned dimensions stay forbidden and risk classes only rise.
THEOREM AuthorityOnlyShrinks == Spec => NothingLoosens
<1>1. []IInv /\ [][Next]_vars => [][OneWay]_vars  BY OneWayStep, PTL
<1> QED  BY <1>1, Inductive, PTL DEF Spec, NothingLoosens, OneWay, Tighter

-----------------------------------------------------------------------------
(* Grants *)

\* What a step leaves alone of a Run whose grant is unusable.
FrozenRun(r) ==
  /\ held'[r] = held[r]
  /\ ceiling'[r] = ceiling[r]
  /\ run'[r].status # run[r].status => run'[r].status \in Stopping
  /\ \A l \in Leases : lease'[l].run = r => lease[l].run = r
FrozenDocuments(r) ==
  /\ \A d \in Decisions : decision'[d].run = r => decision[d].run = r
  /\ \A w \in WorkUnits : checkpoint'[w] # checkpoint[w] => lease[checkpoint'[w]].run # r
  /\ \A m \in Merges : merge'[m] # merge[m] => lease[merge'[m]].run # r

\* The steps of other Runs, and the ones that need no authorization.
LEMMA FrozenByGrantStep ==
  ASSUME IInv, NEW r \in Runs, Opened(r), GrantStep
  PROVE  FrozenRun(r) /\ FrozenDocuments(r)
<1>1. FrozenDocuments(r)
  BY DEF FrozenDocuments, GrantStep, ExpireGrant, RevokeGrant, OpenRun
<1>2. held' = held /\ lease' = lease  BY DEF GrantStep, ExpireGrant, RevokeGrant, OpenRun
<1>3. run'[r] = run[r] /\ ceiling'[r] = ceiling[r]
  <2>1. ASSUME NEW q \in Runs, NEW g \in Grants, NEW preset \in Presets, NEW batch \in Batches,
               NEW cap \in ParallelCaps, NEW status \in {"pending", "active"},
               NEW requested \in RequestedCeilings,
               OpenRun(q, g, preset, batch, cap, status, requested)
        PROVE  run'[r] = run[r] /\ ceiling'[r] = ceiling[r]
    <3>1. q # r  BY <2>1 DEF OpenRun
    <3> QED  BY <2>1, <3>1 DEF OpenRun, IInv, TypeOK
  <2> QED  BY <2>1 DEF GrantStep, ExpireGrant, RevokeGrant
<1> QED  BY <1>1, <1>2, <1>3 DEF FrozenRun

LEMMA FrozenByRunStep ==
  ASSUME IInv, NEW r \in Runs, Opened(r), ~Authorized(r), RunStep
  PROVE  FrozenRun(r) /\ FrozenDocuments(r)
<1> USE DEF IInv
<1>1. ASSUME NEW q \in Runs, Overrun(q) PROVE FrozenRun(r) /\ FrozenDocuments(r)
  <2>1. run' = [run EXCEPT ![q] = [run[q] EXCEPT !.overdue = TRUE]]  BY <1>1 DEF Overrun
  <2>2. run'[r].status = run[r].status  BY <2>1 DEF TypeOK, Run
  <2> QED  BY <1>1, <2>2 DEF Overrun, FrozenRun, FrozenDocuments
<1>2. ASSUME NEW q \in Runs, NEW to \in RunStatuses, NEW expected \in 1 .. run[q].revision,
             CloseRun(q, to, expected)
      PROVE  FrozenRun(r) /\ FrozenDocuments(r)
  <2>1. q = r => to \in Stopping  BY <1>2 DEF CloseRun
  <2>2. run' = [run EXCEPT ![q] = [run[q] EXCEPT !.status = to, !.revision = run[q].revision + 1]]
    BY <1>2 DEF CloseRun
  <2>3. run'[r].status # run[r].status => run'[r].status \in Stopping
    BY <2>1, <2>2 DEF TypeOK, Run
  <2>4. \A l \in Leases : lease'[l].run = lease[l].run  BY <1>2 DEF CloseRun, TypeOK, WorkerLease
  <2>5. UNCHANGED <<held, ceiling, decision, checkpoint, merge>>  BY <1>2 DEF CloseRun
  <2> QED  BY <2>3, <2>4, <2>5 DEF FrozenRun, FrozenDocuments
<1>3. ASSUME NEW q \in Runs, NEW w \in WorkUnits, NEW k \in Leases, AcquireWorkerLease(q, w, k)
      PROVE  FrozenRun(r) /\ FrozenDocuments(r)
  <2>1. q # r  BY <1>3 DEF AcquireWorkerLease
  <2>2. held'[r] = held[r]  BY <1>3, <2>1 DEF AcquireWorkerLease, TypeOK
  <2>3. \A l \in Leases : lease'[l].run = r => lease[l].run = r
    <3> DEFINE new == [status |-> "active", run |-> q, wu |-> w,
                       epoch |-> NextEpoch(q, w), fresh |-> TRUE]
               old == held[q][w].lease
               base == [lease EXCEPT ![old] = [lease[old] EXCEPT !.status = "superseded"]]
    <3>1. CASE Staff(q, w, k)
      BY <2>1, <3>1 DEF Staff, TypeOK
    <3>2. CASE Reassign(q, w, k)
      <4>1. lease' = [base EXCEPT ![k] = new]  BY <3>2 DEF Reassign
      <4>2. \A l \in Leases : base[l].run = lease[l].run  BY DEF TypeOK, WorkerLease
      <4>3. lease'[k].run = q  BY <4>1 DEF TypeOK
      <4>4. \A l \in Leases : l # k => lease'[l] = base[l]  BY <4>1 DEF TypeOK
      <4> QED  BY <2>1, <4>2, <4>3, <4>4
    <3> QED  BY <1>3, <3>1, <3>2 DEF AcquireWorkerLease
  <2>4. UNCHANGED <<run, ceiling, decision, checkpoint, merge>>
    BY <1>3 DEF AcquireWorkerLease
  <2> QED  BY <2>2, <2>3, <2>4 DEF FrozenRun, FrozenDocuments
<1>4. ASSUME NEW q \in Runs, NEW w \in WorkUnits, NEW d \in Dimensions, NEW s \in CeilingStates,
             NEW expected \in 1 .. run[q].revision, TightenExecutionCeiling(q, w, d, s, expected)
      PROVE  FrozenRun(r) /\ FrozenDocuments(r)
  <2>1. q # r  BY <1>4 DEF TightenExecutionCeiling
  <2>2. ceiling'[r] = ceiling[r] /\ run'[r] = run[r]
    BY <1>4, <2>1 DEF TightenExecutionCeiling, TypeOK
  <2>3. UNCHANGED <<held, lease, decision, checkpoint, merge>>
    BY <1>4 DEF TightenExecutionCeiling
  <2> QED  BY <2>2, <2>3 DEF FrozenRun, FrozenDocuments
<1>5. ASSUME NEW q \in Runs, NEW w \in WorkUnits, q # r,
             lease' = lease \/ lease' = Ended(q, w, "released"),
             held' = held \/ held' = Dropped(q, w)
      PROVE  /\ held'[r] = held[r]
             /\ \A l \in Leases : lease'[l].run = r => lease[l].run = r
  <2>1. held'[r] = held[r]  BY <1>5 DEF Dropped, TypeOK
  <2>2. \A l \in Leases : Ended(q, w, "released")[l].run = lease[l].run
    BY DEF Ended, TypeOK, WorkerLease
  <2> QED  BY <1>5, <2>1, <2>2
<1>6. ASSUME NEW q \in Runs, NEW w \in WorkUnits, NEW class \in 0 .. Critical,
             NEW expected \in 1 .. run[q].revision, EscalateWorkUnitRisk(q, w, class, expected)
      PROVE  FrozenRun(r) /\ FrozenDocuments(r)
  <2>1. q # r  BY <1>6 DEF EscalateWorkUnitRisk
  <2>2. run'[r] = run[r]  BY <1>6, <2>1 DEF EscalateWorkUnitRisk, TypeOK
  <2>3. UNCHANGED <<ceiling, decision, checkpoint, merge>>  BY <1>6 DEF EscalateWorkUnitRisk
  <2>4. /\ lease' = lease \/ lease' = Ended(q, w, "released")
        /\ held' = held \/ held' = Dropped(q, w)
    BY <1>6 DEF EscalateWorkUnitRisk
  <2> QED  BY <1>5, <2>1, <2>2, <2>3, <2>4 DEF FrozenRun, FrozenDocuments
<1>7. ASSUME NEW q \in Runs, NEW w \in WorkUnits, NEW d \in Decisions, NEW e \in Entries,
             ResolveRunDecision(d, q, w, e)
      PROVE  FrozenRun(r) /\ FrozenDocuments(r)
  <2>1. q # r  BY <1>7 DEF ResolveRunDecision, Forks
  <2>2. \A x \in Decisions : decision'[x].run = r => decision[x].run = r
    BY <1>7, <2>1 DEF ResolveRunDecision, TypeOK
  <2>3. UNCHANGED <<run, held, ceiling, lease, checkpoint, merge>>
    BY <1>7 DEF ResolveRunDecision
  <2> QED  BY <2>2, <2>3 DEF FrozenRun, FrozenDocuments
<1>8. ASSUME NEW q \in Runs, NEW w \in WorkUnits, NEW d \in Decisions, NEW e \in Entries,
             RejectRunDecision(d, q, w, e)
      PROVE  FrozenRun(r) /\ FrozenDocuments(r)
  <2>1. q # r  BY <1>8 DEF RejectRunDecision, Forks
  <2>2. \A x \in Decisions : decision'[x].run = r => decision[x].run = r
    BY <1>8, <2>1 DEF RejectRunDecision, TypeOK
  <2>3. UNCHANGED <<run, ceiling, checkpoint, merge>>  BY <1>8 DEF RejectRunDecision
  <2>4. lease' = Ended(q, w, "released") /\ held' = Dropped(q, w)
    BY <1>8 DEF RejectRunDecision
  <2>5. held'[r] = held[r] /\ \A l \in Leases : lease'[l].run = r => lease[l].run = r
    BY <1>5, <2>1, <2>4
  <2> QED  BY <2>2, <2>3, <2>5 DEF FrozenRun, FrozenDocuments
<1> QED  BY <1>1, <1>2, <1>3, <1>4, <1>6, <1>7, <1>8 DEF RunStep

LEMMA FrozenByWorkerStep ==
  ASSUME IInv, NEW r \in Runs, Opened(r), ~Authorized(r), WorkerStep
  PROVE  FrozenRun(r) /\ FrozenDocuments(r)
<1> USE DEF IInv
<1>1. ASSUME NEW l \in Leases, Stall(l) \/ RecordWorkerHeartbeat(l)
      PROVE  FrozenRun(r) /\ FrozenDocuments(r)
  <2>1. PICK b \in BOOLEAN : lease' = [lease EXCEPT ![l] = [lease[l] EXCEPT !.fresh = b]]
    BY <1>1 DEF Stall, RecordWorkerHeartbeat
  <2>2. \A k \in Leases : lease'[k].run = lease[k].run  BY <2>1 DEF TypeOK, WorkerLease
  <2>3. UNCHANGED <<run, held, ceiling, decision, checkpoint, merge>>
    BY <1>1 DEF Stall, RecordWorkerHeartbeat
  <2> QED  BY <2>2, <2>3 DEF FrozenRun, FrozenDocuments
<1>2. ASSUME NEW l \in Leases, ReleaseWorkerLease(l) PROVE FrozenRun(r) /\ FrozenDocuments(r)
  <2>1. lease[l].run # r  BY <1>2 DEF ReleaseWorkerLease
  <2>2. lease[l].run \in Runs  BY <1>2 DEF ReleaseWorkerLease, LeaseInv, KnownInv
  <2>3. held'[r] = held[r]  BY <1>2, <2>1, <2>2 DEF ReleaseWorkerLease, Dropped, TypeOK
  <2>4. lease' = [lease EXCEPT ![l] = [lease[l] EXCEPT !.status = "released"]]
    BY <1>2 DEF ReleaseWorkerLease
  <2>5. \A k \in Leases : lease'[k].run = lease[k].run  BY <2>4 DEF TypeOK, WorkerLease
  <2>6. UNCHANGED <<run, ceiling, decision, checkpoint, merge>>
    BY <1>2 DEF ReleaseWorkerLease
  <2> QED  BY <2>3, <2>5, <2>6 DEF FrozenRun, FrozenDocuments
<1>3. ASSUME NEW l \in Leases, WriteCheckpoint(l) PROVE FrozenRun(r) /\ FrozenDocuments(r)
  <2>1. lease[l].run # r  BY <1>3 DEF WriteCheckpoint, MayWrite
  <2>2. \A w \in WorkUnits : checkpoint'[w] # checkpoint[w] => checkpoint'[w] = l
    BY <1>3 DEF WriteCheckpoint, TypeOK
  <2>3. UNCHANGED <<run, held, ceiling, lease, decision, merge>>  BY <1>3 DEF WriteCheckpoint
  <2> QED  BY <2>1, <2>2, <2>3 DEF FrozenRun, FrozenDocuments
<1>4. ASSUME NEW l \in Leases, NEW m \in Merges, NEW n \in 0 .. MaximumAttempts,
             NEW ok \in BOOLEAN, RecordIntegrationMerge(l, m, n, ok)
      PROVE  FrozenRun(r) /\ FrozenDocuments(r)
  <2>1. lease[l].run # r  BY <1>4 DEF RecordIntegrationMerge, MayWrite
  <2>2. \A x \in Merges : merge'[x] # merge[x] => merge'[x] = l
    BY <1>4 DEF RecordIntegrationMerge, TypeOK
  <2>3. UNCHANGED <<run, held, ceiling, lease, decision, checkpoint>>
    BY <1>4 DEF RecordIntegrationMerge
  <2> QED  BY <2>1, <2>2, <2>3 DEF FrozenRun, FrozenDocuments
<1> QED  BY <1>1, <1>2, <1>3, <1>4 DEF WorkerStep

\* Nothing of a Run under an unusable grant moves but its stop.
Frozen ==
  \A r \in Runs : Opened(r) /\ ~Usable(run[r].grant) => FrozenRun(r) /\ FrozenDocuments(r)

LEMMA FrozenStep == IInv /\ [Next]_vars => Frozen
<1> SUFFICES ASSUME IInv, [Next]_vars, NEW r \in Runs, Opened(r), ~Usable(run[r].grant)
             PROVE  FrozenRun(r) /\ FrozenDocuments(r)
  BY DEF Frozen
<1>1. ~Authorized(r)  BY DEF Authorized
<1>2. CASE UnitStep \/ UNCHANGED vars
  BY <1>2 DEF UnitStep, TransitionWorkUnit, vars, FrozenRun, FrozenDocuments
<1> QED  BY <1>1, <1>2, FrozenByGrantStep, FrozenByRunStep, FrozenByWorkerStep DEF Next

LEMMA FrozenIsFreeze == [][Frozen]_vars => UnusableGrantFreezesRun
<1>1. Frozen
        <=> (\A r \in Runs : Opened(r) /\ ~Usable(run[r].grant) =>
               /\ held'[r] = held[r]
               /\ ceiling'[r] = ceiling[r]
               /\ run'[r].status # run[r].status => run'[r].status \in Stopping
               /\ \A l \in Leases : lease'[l].run = r => lease[l].run = r
               /\ \A d \in Decisions : decision'[d].run = r => decision[d].run = r
               /\ \A w \in WorkUnits : checkpoint'[w] # checkpoint[w] =>
                                         lease[checkpoint'[w]].run # r
               /\ \A m \in Merges : merge'[m] # merge[m] => lease[merge'[m]].run # r)
  BY DEF Frozen, FrozenRun, FrozenDocuments
<1> QED  BY <1>1, PTL DEF UnusableGrantFreezesRun

\* Once the grant of a Run is revoked or has expired, no command of the Run changes a
\* lease entry, a ceiling, a decision, a checkpoint or a merge: it can only be stopped.
THEOREM RevokedGrantFreezes == Spec => UnusableGrantFreezesRun
<1>1. []IInv /\ [][Next]_vars => [][Frozen]_vars  BY FrozenStep, PTL
<1> QED  BY <1>1, FrozenIsFreeze, Inductive, PTL DEF Spec

-----------------------------------------------------------------------------
(* Uses of a grant: the counters of the grant document and the documents     *)
(* they count, the Runs opened under it and the decisions its menu resolved. *)

\* The Runs opened under grant g, and the decisions its menu entry e resolved.
Under(g) == {r \in Runs : run[r].grant = g}
Answers(g, e) == {d \in Decisions : /\ decision[d].run \in Under(g)
                                    /\ decision[d].entry = e
                                    /\ decision[d].resolved}
Counted(g) ==
  /\ grant[g].uses = Cardinality(Under(g)) /\ grant[g].uses <= MaximumUses
  /\ \A e \in Entries : /\ grant[g].menu[e] = Cardinality(Answers(g, e))
                        /\ grant[g].menu[e] <= EntryUses

\* A Run that is not opened is bound to no grant, and no decision is of it.
UnopenedInv ==
  /\ \A r \in Runs : ~Opened(r) => run[r].grant = None
  /\ \A d \in Decisions : decision[d].run # None => Opened(decision[d].run)

UsesInv == UnopenedInv /\ \A g \in Grants : Counted(g)

\* A step that opens no Run, and one that counts nothing.
SameBinding == \A q \in Runs : /\ run'[q].grant = run[q].grant
                               /\ run'[q].status = "none" <=> run[q].status = "none"
SameCounts == \A g \in Grants : grant'[g].uses = grant[g].uses /\ grant'[g].menu = grant[g].menu

LEMMA UsesKept ==
  ASSUME TypeOK, UsesInv, SameBinding, SameCounts,
         \A d \in Decisions :
           \/ decision'[d] = decision[d]
           \/ /\ ~decision[d].resolved /\ ~decision'[d].resolved
              /\ decision'[d].run \in Runs /\ Opened(decision'[d].run)
  PROVE  UsesInv'
<1>1. ASSUME NEW g \in Grants PROVE Under(g)' = Under(g)  BY DEF Under, SameBinding
<1>2. ASSUME NEW g \in Grants, NEW e \in Entries PROVE Answers(g, e)' = Answers(g, e)
  BY <1>1 DEF Answers
<1>3. \A g \in Grants : Counted(g)'  BY <1>1, <1>2 DEF UsesInv, Counted, SameCounts
<1>4. \A d \in Decisions : decision[d].run \in Runs \cup {None}  BY DEF TypeOK
<1>5. UnopenedInv'  BY <1>4 DEF UnopenedInv, UsesInv, SameBinding, Opened
<1> QED  BY <1>3, <1>5 DEF UsesInv

LEMMA UsesOpened ==
  ASSUME IsFiniteSet(Runs), TypeOK, UsesInv, NEW r \in Runs, NEW g \in Grants,
         NEW preset, NEW batch, NEW cap, NEW status \in {"pending", "active"}, NEW requested,
         OpenRun(r, g, preset, batch, cap, status, requested)
  PROVE  UsesInv'
<1>1. ~Opened(r) /\ run[r].grant = None /\ decision' = decision
  BY DEF OpenRun, UsesInv, UnopenedInv
<1>2. /\ \A q \in Runs : q # r => run'[q] = run[q]
      /\ run'[r].grant = g /\ run'[r].status # "none"
  BY DEF OpenRun, TypeOK
<1>3. \A d \in Decisions : decision[d].run # r
  BY <1>1, NoneAssumption DEF UsesInv, UnopenedInv
<1>4. \A h \in Grants, e \in Entries : Answers(h, e)' = Answers(h, e)
  BY <1>1, <1>2, <1>3 DEF Answers, Under
<1>5. \A h \in Grants : Under(h)' = IF h = g THEN Under(g) \cup {r} ELSE Under(h)
  BY <1>1, <1>2, NoneAssumption DEF Under
<1>6. IsFiniteSet(Under(g)) /\ r \notin Under(g)
  BY <1>1, FS_Subset, NoneAssumption DEF Under
<1>7. Cardinality(Under(g) \cup {r}) = Cardinality(Under(g)) + 1  BY <1>6, FS_AddElement
<1>8. \A h \in Grants : /\ grant'[h].menu = grant[h].menu
                        /\ grant'[h].uses = IF h = g THEN grant[g].uses + 1 ELSE grant[h].uses
  BY DEF OpenRun, TypeOK, Grant
<1>9. grant[g].uses + 1 <= MaximumUses
  BY LimitsAssumption DEF OpenRun, TypeOK, Grant
<1>10. ASSUME NEW h \in Grants PROVE Counted(h)'
  <2>1. Counted(h)  BY DEF UsesInv
  <2>2. \A e \in Entries : /\ grant'[h].menu[e] = Cardinality(Answers(h, e)')
                           /\ grant'[h].menu[e] <= EntryUses
    BY <1>4, <1>8, <2>1 DEF Counted
  <2>3. grant'[h].uses = Cardinality(Under(h)') /\ grant'[h].uses <= MaximumUses
    <3>1. CASE h = g  BY <1>5, <1>7, <1>8, <1>9, <2>1, <3>1 DEF Counted
    <3>2. CASE h # g  BY <1>5, <1>8, <2>1, <3>2 DEF Counted
    <3> QED  BY <3>1, <3>2
  <2> QED  BY <2>2, <2>3 DEF Counted
<1>11. UnopenedInv'
  <2>1. \A d \in Decisions : decision[d].run \in Runs \cup {None}  BY DEF TypeOK
  <2> QED  BY <1>1, <1>2, <1>3, <2>1 DEF UnopenedInv, UsesInv, Opened
<1> QED  BY <1>10, <1>11 DEF UsesInv

LEMMA UsesResolved ==
  ASSUME IsFiniteSet(Decisions), TypeOK, GrantInv, UsesInv, NEW r \in Runs,
         NEW w \in WorkUnits, NEW d \in Decisions, NEW e \in Entries,
         ResolveRunDecision(d, r, w, e)
  PROVE  UsesInv'
<1> DEFINE g == run[r].grant
           x == [grant[g] EXCEPT !.menu = [grant[g].menu EXCEPT ![e] = grant[g].menu[e] + 1]]
<1>1. Opened(r) /\ g \in Grants /\ decision[d] = NoDecision /\ run' = run
  BY DEF ResolveRunDecision, Forks, Authorized, GrantInv
<1>2. /\ \A c \in Decisions : c # d => decision'[c] = decision[c]
      /\ decision'[d] = [run |-> r, entry |-> e, resolved |-> TRUE]
  BY DEF ResolveRunDecision, TypeOK
<1>3. \A h \in Grants : Under(h)' = Under(h)  BY <1>1 DEF Under
<1>4. \A h \in Grants, i \in Entries :
        Answers(h, i)' = IF h = g /\ i = e THEN Answers(g, e) \cup {d} ELSE Answers(h, i)
  <2> SUFFICES ASSUME NEW h \in Grants, NEW i \in Entries
               PROVE  Answers(h, i)' = IF h = g /\ i = e THEN Answers(g, e) \cup {d} ELSE Answers(h, i)
    OBVIOUS
  <2>1. r \in Under(h) <=> h = g  BY DEF Under
  <2>2. ~decision[d].resolved  BY <1>1 DEF NoDecision
  <2>3. \A c \in Decisions : c \in Answers(h, i)' <=>
          IF c = d THEN h = g /\ i = e ELSE c \in Answers(h, i)
    BY <1>2, <1>3, <2>1 DEF Answers
  <2>4. d \notin Answers(h, i) /\ Answers(h, i) \subseteq Decisions
        /\ Answers(h, i)' \subseteq Decisions
    BY <2>2 DEF Answers
  <2> QED  BY <2>3, <2>4
<1>5. IsFiniteSet(Answers(g, e)) /\ d \notin Answers(g, e)
  BY <1>1, FS_Subset DEF Answers, NoDecision
<1>6. Cardinality(Answers(g, e) \cup {d}) = Cardinality(Answers(g, e)) + 1
  BY <1>5, FS_AddElement
<1>7. \A h \in Grants : grant[h] \in Grant  BY DEF TypeOK
<1>8. grant' = [grant EXCEPT ![g] = x]  BY DEF ResolveRunDecision
<1>9. x.uses = grant[g].uses /\ x.menu = [grant[g].menu EXCEPT ![e] = grant[g].menu[e] + 1]
  BY <1>1, <1>7 DEF Grant
<1>10. grant[g].menu[e] + 1 <= EntryUses
  <2>1. grant[g].menu[e] < EntryUses  BY DEF ResolveRunDecision
  <2>2. grant[g].menu[e] \in Nat  BY <1>1, <1>7 DEF Grant
  <2> QED  BY <2>1, <2>2, LimitsAssumption
<1> HIDE DEF x
<1>11. ASSUME NEW h \in Grants PROVE Counted(h)'
  <2>1. Counted(h)  BY DEF UsesInv
  <2>2. CASE h # g
    <3>1. grant'[h] = grant[h]  BY <1>1, <1>8, <2>2 DEF TypeOK
    <3> QED  BY <1>3, <1>4, <2>1, <2>2, <3>1 DEF Counted
  <2>3. CASE h = g
    <3>1. grant'[g] = x  BY <1>1, <1>8 DEF TypeOK
    <3>2. grant'[h].uses = Cardinality(Under(h)') /\ grant'[h].uses <= MaximumUses
      BY <1>3, <1>9, <2>1, <2>3, <3>1 DEF Counted
    <3>3. ASSUME NEW i \in Entries
          PROVE  grant'[h].menu[i] = Cardinality(Answers(h, i)') /\ grant'[h].menu[i] <= EntryUses
      <4>1. grant[g].menu \in [Entries -> Nat]  BY <1>1, <1>7 DEF Grant
      <4>2. CASE i = e
        <5>1. grant'[h].menu[i] = grant[g].menu[e] + 1
          BY <1>9, <2>3, <3>1, <4>1, <4>2
        <5>2. Cardinality(Answers(h, i)') = Cardinality(Answers(g, e)) + 1
          BY <1>4, <1>6, <2>3, <4>2
        <5> QED  BY <1>10, <2>1, <2>3, <4>2, <5>1, <5>2 DEF Counted
      <4>3. CASE i # e
        <5>1. grant'[h].menu[i] = grant[h].menu[i]  BY <1>9, <2>3, <3>1, <4>1, <4>3
        <5> QED  BY <1>4, <2>1, <4>3, <5>1 DEF Counted
      <4> QED  BY <4>2, <4>3
    <3> QED  BY <3>2, <3>3 DEF Counted
  <2> QED  BY <2>2, <2>3
<1>12. UnopenedInv'
  <2>1. run'[r].status # "none"  BY <1>1 DEF Opened
  <2>2. ASSUME NEW c \in Decisions, decision'[c].run # None
        PROVE  run'[decision'[c].run].status # "none"
    <3>1. CASE c = d  BY <1>2, <2>1, <3>1
    <3>2. CASE c # d  BY <1>1, <1>2, <2>2, <3>2 DEF UsesInv, UnopenedInv, Opened
    <3> QED  BY <3>1, <3>2
  <2> QED  BY <1>1, <2>2 DEF UnopenedInv, UsesInv, Opened
<1> QED  BY <1>11, <1>12 DEF UsesInv

\* The commands that neither open a Run nor answer a fork.
LEMMA UsesUntouched ==
  ASSUME IInv,
         \/ \E g \in Grants : ExpireGrant(g) \/ RevokeGrant(g)
         \/ \E r \in Runs : Overrun(r)
         \/ \E r \in Runs, to \in RunStatuses, expected \in Nat : CloseRun(r, to, expected)
         \/ \E r \in Runs, w \in WorkUnits, l \in Leases : AcquireWorkerLease(r, w, l)
         \/ \E r \in Runs, w \in WorkUnits, d \in Dimensions, s \in CeilingStates,
               expected \in Nat : TightenExecutionCeiling(r, w, d, s, expected)
         \/ \E r \in Runs, w \in WorkUnits, class \in 0 .. Critical, expected \in Nat :
              EscalateWorkUnitRisk(r, w, class, expected)
         \/ WorkerStep \/ UnitStep \/ UNCHANGED vars
  PROVE  SameBinding /\ SameCounts /\ decision' = decision
<1>1. run \in [Runs -> Run] /\ grant \in [Grants -> Grant]  BY DEF IInv, TypeOK
<1>2. decision' = decision
  <2>1. WorkerStep => decision' = decision
    BY DEF WorkerStep, Stall, RecordWorkerHeartbeat, ReleaseWorkerLease, WriteCheckpoint,
       RecordIntegrationMerge
  <2>2. UnitStep => decision' = decision  BY DEF UnitStep, TransitionWorkUnit
  <2>3. ASSUME NEW r \in Runs, NEW w \in WorkUnits, NEW class \in 0 .. Critical, NEW expected \in Nat,
               EscalateWorkUnitRisk(r, w, class, expected)
        PROVE  decision' = decision
    BY <2>3 DEF EscalateWorkUnitRisk
  <2>4. ASSUME NEW r \in Runs, NEW w \in WorkUnits, NEW l \in Leases, AcquireWorkerLease(r, w, l)
        PROVE  decision' = decision
    BY <2>4 DEF AcquireWorkerLease
  <2> QED
    BY <2>1, <2>2, <2>3, <2>4 DEF ExpireGrant, RevokeGrant, Overrun, CloseRun,
       TightenExecutionCeiling, vars
<1>3. SameCounts
  <2>1. CASE grant' = grant  BY <2>1 DEF SameCounts
  <2>2. ASSUME NEW g \in Grants, ExpireGrant(g) \/ RevokeGrant(g) PROVE SameCounts
    <3>1. \/ grant' = [grant EXCEPT ![g] = [grant[g] EXCEPT !.expired = TRUE]]
          \/ grant' = [grant EXCEPT ![g] = [grant[g] EXCEPT !.revoked = TRUE]]
      BY <2>2 DEF ExpireGrant, RevokeGrant
    <3> QED  BY <1>1, <3>1 DEF SameCounts, Grant
  <2>3. WorkerStep => grant' = grant
    BY DEF WorkerStep, Stall, RecordWorkerHeartbeat, ReleaseWorkerLease, WriteCheckpoint,
       RecordIntegrationMerge
  <2>4. UnitStep => grant' = grant  BY DEF UnitStep, TransitionWorkUnit
  <2>5. ASSUME NEW r \in Runs, NEW w \in WorkUnits, NEW class \in 0 .. Critical, NEW expected \in Nat,
               EscalateWorkUnitRisk(r, w, class, expected)
        PROVE  grant' = grant
    BY <2>5 DEF EscalateWorkUnitRisk
  <2>6. ASSUME NEW r \in Runs, NEW w \in WorkUnits, NEW l \in Leases, AcquireWorkerLease(r, w, l)
        PROVE  grant' = grant
    BY <2>6 DEF AcquireWorkerLease
  <2>7. ASSUME NEW r \in Runs, Overrun(r) \/ \E to \in RunStatuses, expected \in Nat : CloseRun(r, to, expected)
        PROVE  grant' = grant
    BY <2>7 DEF Overrun, CloseRun
  <2> QED
    BY <2>1, <2>2, <2>3, <2>4, <2>5, <2>6, <2>7 DEF TightenExecutionCeiling, vars
<1>4. SameBinding
  <2>1. CASE run' = run  BY <2>1 DEF SameBinding
  <2>2. ASSUME NEW r \in Runs, Overrun(r) PROVE SameBinding
    <3>1. run' = [run EXCEPT ![r] = [run[r] EXCEPT !.overdue = TRUE]]  BY <2>2 DEF Overrun
    <3> QED  BY <1>1, <3>1 DEF SameBinding, Run
  <2>3. ASSUME NEW r \in Runs, run' = [run EXCEPT ![r] = [run[r] EXCEPT !.revision = run[r].revision + 1]]
        PROVE  SameBinding
    BY <1>1, <2>3 DEF SameBinding, Run
  <2>4. ASSUME NEW r \in Runs, NEW to \in RunStatuses, NEW expected \in Nat, CloseRun(r, to, expected)
        PROVE  SameBinding
    <3>1. run' = [run EXCEPT ![r] = [run[r] EXCEPT !.status = to, !.revision = run[r].revision + 1]]
      BY <2>4 DEF CloseRun
    <3>2. to # "none" /\ run[r].status # "none"
      BY <2>4 DEF CloseRun, Opened, RunStatuses
    <3> QED  BY <1>1, <3>1, <3>2 DEF SameBinding, Run
  <2>5. \A r \in Runs, w \in WorkUnits, d \in Dimensions, s \in CeilingStates, expected \in Nat :
          TightenExecutionCeiling(r, w, d, s, expected) =>
            run' = [run EXCEPT ![r] = [run[r] EXCEPT !.revision = run[r].revision + 1]]
    BY DEF TightenExecutionCeiling
  <2>6. \A r \in Runs, w \in WorkUnits, class \in 0 .. Critical, expected \in Nat :
          EscalateWorkUnitRisk(r, w, class, expected) =>
            run' = [run EXCEPT ![r] = [run[r] EXCEPT !.revision = run[r].revision + 1]]
    BY DEF EscalateWorkUnitRisk
  <2> QED
    BY <2>1, <2>2, <2>3, <2>4, <2>5, <2>6 DEF ExpireGrant, RevokeGrant, AcquireWorkerLease,
       WorkerStep, Stall, RecordWorkerHeartbeat, ReleaseWorkerLease, WriteCheckpoint,
       RecordIntegrationMerge, UnitStep, TransitionWorkUnit, vars
<1> QED  BY <1>2, <1>3, <1>4

LEMMA UsesStep ==
  ASSUME IsFiniteSet(Runs), IsFiniteSet(Decisions), IInv, UsesInv, [Next]_vars
  PROVE  UsesInv'
<1> USE DEF IInv
<1>1. ASSUME SameBinding, SameCounts, decision' = decision PROVE UsesInv'
  BY <1>1, UsesKept
<1>2. ASSUME NEW r \in Runs, NEW w \in WorkUnits, NEW d \in Decisions, NEW e \in Entries,
             RejectRunDecision(d, r, w, e)
      PROVE  UsesInv'
  <2>1. SameBinding /\ SameCounts
    BY <1>2 DEF RejectRunDecision, SameBinding, SameCounts
  <2>2. Opened(r) /\ ~decision[d].resolved
    BY <1>2 DEF RejectRunDecision, Forks, Authorized, NoDecision
  <2>3. ASSUME NEW c \in Decisions
        PROVE  \/ decision'[c] = decision[c]
               \/ /\ ~decision[c].resolved /\ ~decision'[c].resolved
                  /\ decision'[c].run \in Runs /\ Opened(decision'[c].run)
    BY <1>2, <2>2 DEF RejectRunDecision, TypeOK
  <2> QED  BY <2>1, <2>3, UsesKept
<1>3. ASSUME NEW r \in Runs, NEW expected \in 1 .. run[r].revision PROVE expected \in Nat
  BY DEF TypeOK, Run
<1>4. CASE GrantStep
  <2>1. ASSUME NEW g \in Grants, ExpireGrant(g) \/ RevokeGrant(g) PROVE UsesInv'
    BY <1>1, <2>1, UsesUntouched
  <2> QED  BY <1>4, <2>1, UsesOpened DEF GrantStep
<1>5. CASE RunStep
  <2>1. ASSUME NEW r \in Runs, Overrun(r) PROVE UsesInv'  BY <1>1, <2>1, UsesUntouched
  <2>2. ASSUME NEW r \in Runs, NEW to \in RunStatuses, NEW expected \in 1 .. run[r].revision,
               CloseRun(r, to, expected)
        PROVE  UsesInv'
    BY <1>1, <1>3, <2>2, UsesUntouched
  <2>3. ASSUME NEW r \in Runs, NEW w \in WorkUnits, NEW l \in Leases, AcquireWorkerLease(r, w, l)
        PROVE  UsesInv'
    BY <1>1, <2>3, UsesUntouched
  <2>4. ASSUME NEW r \in Runs, NEW w \in WorkUnits, NEW d \in Dimensions, NEW s \in CeilingStates,
               NEW expected \in 1 .. run[r].revision, TightenExecutionCeiling(r, w, d, s, expected)
        PROVE  UsesInv'
    BY <1>1, <1>3, <2>4, UsesUntouched
  <2>5. ASSUME NEW r \in Runs, NEW w \in WorkUnits, NEW class \in 0 .. Critical,
               NEW expected \in 1 .. run[r].revision, EscalateWorkUnitRisk(r, w, class, expected)
        PROVE  UsesInv'
    BY <1>1, <1>3, <2>5, UsesUntouched
  <2> QED  BY <1>2, <1>5, <2>1, <2>2, <2>3, <2>4, <2>5, UsesResolved DEF RunStep
<1>6. CASE WorkerStep \/ UnitStep \/ UNCHANGED vars  BY <1>1, <1>6, UsesUntouched
<1> QED  BY <1>4, <1>5, <1>6 DEF Next

LEMMA UsesInit == Init => UsesInv
<1> SUFFICES ASSUME Init PROVE UsesInv  OBVIOUS
<1>1. UnopenedInv  BY DEF Init, UnopenedInv, NoRun, NoDecision
<1>2. ASSUME NEW g \in Grants PROVE Counted(g)
  <2>1. Under(g) = {}  BY NoneAssumption DEF Init, Under, NoRun
  <2>2. \A e \in Entries : Answers(g, e) = {}  BY DEF Init, Answers, NoDecision
  <2>3. grant[g].uses = 0 /\ \A e \in Entries : grant[g].menu[e] = 0  BY DEF Init, NewGrant
  <2> QED  BY <2>1, <2>2, <2>3, FS_EmptySet, LimitsAssumption DEF Counted
<1> QED  BY <1>1, <1>2 DEF UsesInv

LEMMA UsesAreCounted == UsesInv => UsesAreConserved
BY DEF UsesInv, Counted, Under, Answers, UsesAreConserved

\* The use counters of a grant are exact and within their maxima, whatever the
\* order in which Runs are opened, forks answered and grants revoked.
THEOREM UsesAreExact ==
  IsFiniteSet(Runs) /\ IsFiniteSet(Decisions) => (Spec => []UsesAreConserved)
<1> SUFFICES ASSUME IsFiniteSet(Runs), IsFiniteSet(Decisions)
             PROVE  Spec => []UsesAreConserved
  OBVIOUS
<1>1. IInv /\ UsesInv /\ [Next]_vars => UsesInv'  BY UsesStep
<1> QED  BY <1>1, UsesInit, UsesAreCounted, Inductive, PTL DEF Spec

-----------------------------------------------------------------------------
(* Attempts: the commands of RunControl and RecordExecutionAttempt         *)

\* A recorded attempt names a step and a lease that was issued.
NamedInv ==
  \A a \in AttemptIds : Recorded(a) =>
    /\ attempt[a].lease \in Leases /\ attempt[a].step \in Steps
    /\ Issued(attempt[a].lease)

AInv == IInv /\ AttemptsTypeOK /\ NamedInv

\* The attempts and the spend of a grant are all that RecordExecutionAttempt writes.
ChargesOnly ==
  /\ UNCHANGED <<run, held, ceiling, lease, unit, decision, checkpoint, merge>>
  /\ grant' \in [Grants -> Grant]

-----------------------------------------------------------------------------
(* The commands of RunControl *)

\* No command makes a lease that was issued one that was not, or another Run's.
StaysIssued(l) == Issued(l)' /\ lease'[l].run = lease[l].run

LEMMA LeasesStayIssued ==
  ASSUME IInv, [Next]_vars, NEW l \in Leases, Issued(l)
  PROVE  StaysIssued(l)
<1> USE DEF Issued, StaysIssued
<1>0. lease \in [Leases -> WorkerLease]  BY DEF IInv, TypeOK
<1>1. CASE lease' = lease  BY <1>1
<1>2. ASSUME NEW r \in Runs, NEW w \in WorkUnits, lease' = Ended(r, w, "released")
      PROVE  StaysIssued(l)
  BY <1>0, <1>2 DEF Ended, WorkerLease
<1>3. ASSUME NEW r \in Runs, NEW w \in WorkUnits, NEW k \in Leases, AcquireWorkerLease(r, w, k)
      PROVE  StaysIssued(l)
  <2>1. k # l  BY <1>3 DEF AcquireWorkerLease
  <2>2. CASE Reassign(r, w, k)  BY <1>0, <2>1, <2>2 DEF Reassign, WorkerLease
  <2>3. CASE Staff(r, w, k)  BY <1>0, <2>1, <2>3 DEF Staff
  <2> QED  BY <1>3, <2>2, <2>3 DEF AcquireWorkerLease
<1>4. ASSUME NEW r \in Runs, NEW to \in RunStatuses, NEW expected \in 1 .. run[r].revision,
             CloseRun(r, to, expected)
      PROVE  StaysIssued(l)
  BY <1>0, <1>4 DEF CloseRun, WorkerLease
<1>5. ASSUME NEW k \in Leases, Stall(k) \/ RecordWorkerHeartbeat(k) \/ ReleaseWorkerLease(k)
      PROVE  StaysIssued(l)
  BY <1>0, <1>5 DEF Stall, RecordWorkerHeartbeat, ReleaseWorkerLease, WorkerLease
<1>6. ASSUME GrantStep \/ UnitStep \/ UNCHANGED vars PROVE lease' = lease
  BY <1>6 DEF GrantStep, ExpireGrant, RevokeGrant, OpenRun, UnitStep, TransitionWorkUnit, vars
<1>7. ASSUME WorkerStep PROVE StaysIssued(l)
  BY <1>1, <1>5, <1>7 DEF WorkerStep, WriteCheckpoint, RecordIntegrationMerge
<1>8. ASSUME RunStep PROVE StaysIssued(l)
  <2>1. ASSUME NEW r \in Runs, NEW w \in WorkUnits, NEW class \in 0 .. Critical,
               NEW expected \in 1 .. run[r].revision, EscalateWorkUnitRisk(r, w, class, expected)
        PROVE  StaysIssued(l)
    BY <1>1, <1>2, <2>1 DEF EscalateWorkUnitRisk
  <2>2. ASSUME NEW r \in Runs, NEW w \in WorkUnits, NEW d \in Decisions, NEW e \in Entries,
               ResolveRunDecision(d, r, w, e) \/ RejectRunDecision(d, r, w, e)
        PROVE  StaysIssued(l)
    BY <1>1, <1>2, <2>2 DEF ResolveRunDecision, RejectRunDecision
  <2>3. ASSUME NEW r \in Runs,
               \/ Overrun(r)
               \/ \E w \in WorkUnits, d \in Dimensions, s \in CeilingStates,
                     expected \in 1 .. run[r].revision : TightenExecutionCeiling(r, w, d, s, expected)
        PROVE  StaysIssued(l)
    BY <1>1, <2>3 DEF Overrun, TightenExecutionCeiling
  <2> QED  BY <1>3, <1>4, <1>8, <2>1, <2>2, <2>3 DEF RunStep
<1> QED  BY <1>1, <1>6, <1>7, <1>8 DEF Next

\* A command of RunControl leaves the attempts alone and their leases issued.
LEMMA CommandStep ==
  ASSUME AInv, Next, UNCHANGED attemptVars
  PROVE  AInv'
<1>1. IInv'  BY TypeStep, LeaseStep, PinnedStep DEF AInv, IInv, LeaseInv
<1>2. AttemptsTypeOK'  BY DEF AInv, AttemptsTypeOK, attemptVars
<1>3. NamedInv'
  <2>1. \A a \in AttemptIds : Recorded(a)' <=> Recorded(a)  BY DEF attemptVars, Recorded
  <2> QED  BY <2>1, LeasesStayIssued DEF AInv, NamedInv, StaysIssued, attemptVars
<1> QED  BY <1>1, <1>2, <1>3 DEF AInv

-----------------------------------------------------------------------------
(* RecordExecutionAttempt *)

\* What is charged keeps every document of RunControl and their agreement.
LEMMA Charged ==
  ASSUME IInv, ChargesOnly
  PROVE  IInv'
<1>1. TypeOK'  BY DEF ChargesOnly, IInv, TypeOK
<1>2. GrantInv' /\ PinnedInv'  BY DEF ChargesOnly, IInv, GrantInv, PinnedInv, Opened
<1>3. KnownInv' /\ HeldInv' /\ AliveInv'
  BY DEF ChargesOnly, IInv, LeaseInv, KnownInv, HeldInv, AliveInv, Issued, Opened
<1>4. ActiveLeaseIsHeld' /\ StoppedRunHasNoWorker'
  BY DEF ChargesOnly, IInv, LeaseInv, ActiveLeaseIsHeld, StoppedRunHasNoWorker, ActiveLeases,
         LivesUnattended, Opened
<1> QED  BY <1>1, <1>2, <1>3, <1>4 DEF IInv, LeaseInv

\* An attempt that ends is recorded under an issued lease and charges one grant.
LEMMA Finished ==
  ASSUME AInv, NEW a \in AttemptIds, NEW l \in Leases, NEW s \in Steps,
         NEW outcome \in Terminal, NEW summary \in Summaries \cup {None}, NEW cost \in Nat,
         Issued(l), Authorized(lease[l].run), Finish(a, l, s, outcome, summary, cost)
  PROVE  AInv'
<1> DEFINE g == run[lease[l].run].grant
<1>1. lease[l].run \in Runs /\ lease[l].wu \in WorkUnits
  BY DEF AInv, IInv, LeaseInv, KnownInv
<1>2. g \in Grants  BY <1>1 DEF AInv, IInv, GrantInv, Authorized
<1>3. ChargesOnly
  <2>1. grant[g] \in Grant  BY <1>2 DEF AInv, IInv, TypeOK
  <2>2. grant[g].spend + cost \in Nat  BY <2>1 DEF Grant
  <2>3. [grant[g] EXCEPT !.spend = grant[g].spend + cost] \in Grant  BY <2>1, <2>2 DEF Grant
  <2>4. grant' = [grant EXCEPT ![g] = [grant[g] EXCEPT !.spend = grant[g].spend + cost]]
    BY DEF Finish
  <2> QED  BY <2>3, <2>4 DEF ChargesOnly, Finish, AInv, IInv, TypeOK
<1>4. AttemptsTypeOK'
  <2>1. Ends \in Nat
    <3>1. IsFiniteSet({b \in AttemptIds : attempt[b].status \in Terminal})
      BY AttemptsAssumption, FS_Subset
    <3> QED  BY <3>1, FS_CardinalityType DEF Ends
  <2> DEFINE new == [status |-> outcome, lease |-> l, step |-> s, summary |-> summary,
                     cost |-> cost, ended |-> Ends + 1]
  <2>2. new \in Attempt
    <3>1. Ends + 1 \in Nat  BY <2>1
    <3> HIDE DEF Ends
    <3> QED  BY <3>1 DEF Attempt
  <2>3. attempt' = [attempt EXCEPT ![a] = new]  BY DEF Finish
  <2>4. attempt' \in [AttemptIds -> Attempt]
    <3> HIDE DEF new
    <3> QED  BY <2>2, <2>3 DEF AInv, AttemptsTypeOK
  <2>5. alerted' \subseteq Runs \X WorkUnits \X Steps
    BY <1>1 DEF Finish, AInv, AttemptsTypeOK
  <2> QED  BY <2>4, <2>5 DEF AttemptsTypeOK
<1>5. NamedInv'
  <2>1. lease' = lease  BY DEF Finish
  <2>2. attempt'[a].lease = l /\ attempt'[a].step = s
    BY DEF Finish, AInv, AttemptsTypeOK
  <2>3. \A b \in AttemptIds \ {a} : attempt'[b] = attempt[b]
    BY DEF Finish, AInv, AttemptsTypeOK
  <2> QED  BY <2>1, <2>2, <2>3 DEF AInv, NamedInv, Issued, Recorded
<1> QED  BY <1>3, <1>4, <1>5, Charged DEF AInv

LEMMA Started ==
  ASSUME AInv, NEW a \in AttemptIds, NEW l \in Leases, NEW s \in Steps, NEW role,
         StartAttempt(a, l, s, role)
  PROVE  AInv'
<1>1. IInv'
  <2>1. ChargesOnly  BY DEF StartAttempt, vars, ChargesOnly, AInv, IInv, TypeOK
  <2> QED  BY <2>1, Charged DEF AInv
<1> DEFINE new == [status |-> "started", lease |-> l, step |-> s, summary |-> None,
                   cost |-> 0, ended |-> 0]
<1>2. new \in Attempt  BY DEF Attempt
<1>3. attempt' = [attempt EXCEPT ![a] = new] /\ alerted' = alerted /\ lease' = lease
  BY DEF StartAttempt, vars
<1>4. AttemptsTypeOK'  BY <1>2, <1>3 DEF AInv, AttemptsTypeOK
<1>5. NamedInv'
  <2>1. Issued(l)  BY DEF StartAttempt, MayWrite
  <2> QED  BY <1>3, <2>1 DEF AInv, AttemptsTypeOK, NamedInv, Issued, Recorded
<1> QED  BY <1>1, <1>4, <1>5 DEF AInv

LEMMA AttemptStep == AInv /\ RecordExecutionAttempt => AInv'
<1> SUFFICES ASSUME AInv, RecordExecutionAttempt PROVE AInv'  OBVIOUS
<1>1. ASSUME NEW a \in AttemptIds, NEW l \in Leases, NEW s \in Steps, NEW role \in Roles,
             NEW outcome \in Outcomes, NEW summary \in Summaries \cup {None}, NEW cost \in Costs,
             FinishAttempt(a, l, s, role, outcome, summary, cost)
      PROVE  AInv'
  <2>1. outcome \in Terminal /\ cost \in Nat  BY AttemptsAssumption
  <2> QED  BY <1>1, <2>1, Finished DEF FinishAttempt, MayWrite
<1>2. ASSUME NEW a \in AttemptIds, NEW outcome \in Outcomes,
             NEW summary \in Summaries \cup {None}, NEW cost \in Costs,
             RecoverOrphan(a, outcome, summary, cost)
      PROVE  AInv'
  <2>1. outcome \in Terminal /\ cost \in Nat  BY AttemptsAssumption
  <2>2. Recorded(a)  BY <1>2 DEF RecoverOrphan, Recorded
  <2>3. /\ attempt[a].lease \in Leases /\ attempt[a].step \in Steps
        /\ Issued(attempt[a].lease)
    BY <2>2 DEF AInv, NamedInv
  <2> QED  BY <1>2, <2>1, <2>3, Finished DEF RecoverOrphan, RunOf
<1> QED  BY <1>1, <1>2, Started DEF RecordExecutionAttempt

LEMMA AttemptsInductive == AttemptsSpec => []AInv
<1>1. AttemptsInit => AInv
  <2> SUFFICES ASSUME AttemptsInit PROVE AInv  OBVIOUS
  <2>1. IInv  BY InitType, LeaseInit DEF AttemptsInit, IInv
  <2>2. NoAttempt \in Attempt  BY DEF NoAttempt, Attempt
  <2>3. AttemptsTypeOK  BY <2>2 DEF AttemptsInit, AttemptsTypeOK
  <2>4. NamedInv  BY DEF AttemptsInit, NamedInv, Recorded, NoAttempt
  <2> QED  BY <2>1, <2>3, <2>4 DEF AInv
<1>2. AInv /\ [AttemptsNext]_allVars => AInv'
  <2> SUFFICES ASSUME AInv, [AttemptsNext]_allVars PROVE AInv'  OBVIOUS
  <2>1. CASE UNCHANGED allVars
    <3>1. UNCHANGED vars /\ UNCHANGED attemptVars  BY <2>1 DEF allVars
    <3>2. ChargesOnly  BY <3>1 DEF vars, ChargesOnly, AInv, IInv, TypeOK
    <3>3. AttemptsTypeOK' /\ NamedInv'
      BY <3>1 DEF vars, attemptVars, AInv, AttemptsTypeOK, NamedInv, Recorded, Issued
    <3> QED  BY <3>2, <3>3, Charged DEF AInv
  <2> QED  BY <2>1, CommandStep, AttemptStep DEF AttemptsNext
<1> QED  BY <1>1, <1>2, PTL DEF AttemptsSpec

-----------------------------------------------------------------------------
(* The spend of a grant and the attempts that ended under it                *)

\* The units of cost of the attempts that ended under g are what g was charged.
Accounted(g) ==
  /\ IsFiniteSet(CostUnits(EndedUnder(g)))
  /\ grant[g].spend = Cardinality(CostUnits(EndedUnder(g)))
  /\ EndedUnder(g) # {} =>
       \E a \in EndedUnder(g) : grant[g].spend < MaximumSpend + attempt[a].cost

BudgetInv == \A g \in Grants : Accounted(g)

\* No command charges a grant, or binds a Run that is opened to another one.
LEMMA CommandsChargeNothing ==
  ASSUME IInv, [Next]_vars
  PROVE  /\ \A g \in Grants : grant'[g].spend = grant[g].spend
         /\ \A r \in Runs : Opened(r) => run'[r].grant = run[r].grant
<1> USE DEF IInv
<1>0. grant \in [Grants -> Grant] /\ run \in [Runs -> Run]  BY DEF TypeOK
<1>1. ASSUME NEW r \in Runs, NEW g \in Grants, NEW preset \in Presets, NEW batch \in Batches,
             NEW cap \in ParallelCaps, NEW status \in {"pending", "active"},
             NEW requested \in RequestedCeilings,
             OpenRun(r, g, preset, batch, cap, status, requested)
      PROVE  /\ \A h \in Grants : grant'[h].spend = grant[h].spend
             /\ \A q \in Runs : Opened(q) => run'[q].grant = run[q].grant
  <2>1. grant' = [grant EXCEPT ![g] = [grant[g] EXCEPT !.uses = grant[g].uses + 1]]
    BY <1>1 DEF OpenRun
  <2>2. \A h \in Grants : grant'[h].spend = grant[h].spend  BY <1>0, <2>1 DEF Grant
  <2>3. \A q \in Runs : Opened(q) => run'[q] = run[q]  BY <1>0, <1>1 DEF OpenRun
  <2> QED  BY <2>2, <2>3
<1>2. ASSUME NEW r \in Runs, NEW w \in WorkUnits, NEW d \in Decisions, NEW e \in Entries,
             ResolveRunDecision(d, r, w, e) \/ RejectRunDecision(d, r, w, e)
      PROVE  run' = run /\ \A g \in Grants : grant'[g].spend = grant[g].spend
  <2> DEFINE g == run[r].grant
             x == [grant[g] EXCEPT !.menu = [grant[g].menu EXCEPT ![e] = grant[g].menu[e] + 1]]
  <2>1. run' = run  BY <1>2 DEF ResolveRunDecision, RejectRunDecision
  <2>2. grant' = grant \/ grant' = [grant EXCEPT ![g] = x]
    BY <1>2 DEF ResolveRunDecision, RejectRunDecision
  <2>3. \A h \in Grants : grant'[h].spend = grant[h].spend
    <3>1. CASE grant' = grant  BY <3>1
    <3>2. CASE grant' = [grant EXCEPT ![g] = x]
      <4>1. g \in Grants
        BY <1>2 DEF ResolveRunDecision, RejectRunDecision, Forks, Authorized, GrantInv
      <4>2. x.spend = grant[g].spend  BY <1>0, <4>1 DEF Grant
      <4> HIDE DEF x
      <4> QED  BY <1>0, <3>2, <4>1, <4>2
    <3> QED  BY <2>2, <3>1, <3>2
  <2> QED  BY <2>1, <2>3
<1>3. ASSUME NEW r \in Runs, NEW expected \in 1 .. run[r].revision PROVE expected \in Nat
  BY DEF TypeOK, Run
<1>4. ASSUME SameBinding, \A g \in Grants : grant'[g].spend = grant[g].spend
      PROVE  /\ \A g \in Grants : grant'[g].spend = grant[g].spend
             /\ \A r \in Runs : Opened(r) => run'[r].grant = run[r].grant
  BY <1>4 DEF SameBinding
<1>5. CASE GrantStep
  <2>1. ASSUME NEW g \in Grants, ExpireGrant(g) \/ RevokeGrant(g)
        PROVE  run' = run /\ \A h \in Grants : grant'[h].spend = grant[h].spend
    <3>1. \/ grant' = [grant EXCEPT ![g] = [grant[g] EXCEPT !.expired = TRUE]]
          \/ grant' = [grant EXCEPT ![g] = [grant[g] EXCEPT !.revoked = TRUE]]
      BY <2>1 DEF ExpireGrant, RevokeGrant
    <3>2. run' = run  BY <2>1 DEF ExpireGrant, RevokeGrant
    <3> QED  BY <1>0, <3>1, <3>2 DEF Grant
  <2> QED  BY <1>1, <1>5, <2>1 DEF GrantStep
<1>6. CASE RunStep
  <2>1. ASSUME \A r \in Runs, w \in WorkUnits, d \in Decisions, e \in Entries :
                 ~ResolveRunDecision(d, r, w, e) /\ ~RejectRunDecision(d, r, w, e)
        PROVE  SameBinding /\ grant' = grant
    <3>1. ASSUME NEW r \in Runs, Overrun(r) PROVE SameBinding /\ grant' = grant
      BY <3>1, UsesUntouched DEF Overrun
    <3>2. ASSUME NEW r \in Runs, NEW to \in RunStatuses, NEW expected \in 1 .. run[r].revision,
                 CloseRun(r, to, expected)
          PROVE  SameBinding /\ grant' = grant
      <4>1. SameBinding  BY <1>3, <3>2, UsesUntouched
      <4> QED  BY <3>2, <4>1 DEF CloseRun
    <3>3. ASSUME NEW r \in Runs, NEW w \in WorkUnits, NEW l \in Leases, AcquireWorkerLease(r, w, l)
          PROVE  SameBinding /\ grant' = grant
      BY <3>3 DEF AcquireWorkerLease, SameBinding
    <3>4. ASSUME NEW r \in Runs, NEW w \in WorkUnits, NEW d \in Dimensions, NEW s \in CeilingStates,
                 NEW expected \in 1 .. run[r].revision, TightenExecutionCeiling(r, w, d, s, expected)
          PROVE  SameBinding /\ grant' = grant
      <4>1. SameBinding  BY <1>3, <3>4, UsesUntouched
      <4> QED  BY <3>4, <4>1 DEF TightenExecutionCeiling
    <3>5. ASSUME NEW r \in Runs, NEW w \in WorkUnits, NEW class \in 0 .. Critical,
                 NEW expected \in 1 .. run[r].revision, EscalateWorkUnitRisk(r, w, class, expected)
          PROVE  SameBinding /\ grant' = grant
      <4>1. SameBinding  BY <1>3, <3>5, UsesUntouched
      <4> QED  BY <3>5, <4>1 DEF EscalateWorkUnitRisk
    <3> QED  BY <1>6, <2>1, <3>1, <3>2, <3>3, <3>4, <3>5 DEF RunStep
  <2> QED  BY <1>2, <1>4, <2>1
<1>7. CASE WorkerStep \/ UnitStep \/ UNCHANGED vars
  <2>1. SameBinding  BY <1>7, UsesUntouched
  <2>2. grant' = grant
    BY <1>7 DEF WorkerStep, Stall, RecordWorkerHeartbeat, ReleaseWorkerLease, WriteCheckpoint,
       RecordIntegrationMerge, UnitStep, TransitionWorkUnit, vars
  <2> QED  BY <1>4, <2>1, <2>2
<1> QED  BY <1>5, <1>6, <1>7 DEF Next

\* An attempt that ended did so under a lease that was issued, of an opened Run.
LEMMA EndedAttempt ==
  ASSUME AInv, NEW a \in AttemptIds, attempt[a].status \in Terminal
  PROVE  /\ attempt[a].lease \in Leases /\ Issued(attempt[a].lease)
         /\ RunOf(a) \in Runs /\ Opened(RunOf(a))
<1>1. Recorded(a)  BY DEF Recorded, Terminal, NonSuccess
<1>2. attempt[a].lease \in Leases /\ Issued(attempt[a].lease)  BY <1>1 DEF AInv, NamedInv
<1> QED  BY <1>2 DEF AInv, IInv, LeaseInv, KnownInv, RunOf

\* A step that ends no attempt, charges no grant and moves no lease or Run.
LEMMA BudgetKept ==
  ASSUME BudgetInv, \A g \in Grants : EndedUnder(g)' = EndedUnder(g),
         \A g \in Grants : grant'[g].spend = grant[g].spend,
         \A g \in Grants : \A a \in EndedUnder(g) : attempt'[a].cost = attempt[a].cost
  PROVE  BudgetInv'
<1> SUFFICES ASSUME NEW g \in Grants PROVE Accounted(g)'  BY DEF BudgetInv
<1>1. Accounted(g)  BY DEF BudgetInv
<1>2. CostUnits(EndedUnder(g))' = CostUnits(EndedUnder(g))  BY DEF CostUnits
<1> QED  BY <1>1, <1>2 DEF Accounted

LEMMA BudgetByCommand ==
  ASSUME AInv, BudgetInv, [Next]_vars, UNCHANGED attemptVars
  PROVE  BudgetInv'
<1>1. attempt' = attempt  BY DEF attemptVars
<1>2. \A g \in Grants : grant'[g].spend = grant[g].spend
  BY CommandsChargeNothing DEF AInv
<1>3. ASSUME NEW g \in Grants PROVE EndedUnder(g)' = EndedUnder(g)
  <2>1. ASSUME NEW a \in AttemptIds, attempt[a].status \in Terminal
        PROVE  run'[lease'[attempt[a].lease].run].grant = run[RunOf(a)].grant
    <3>1. /\ attempt[a].lease \in Leases /\ Issued(attempt[a].lease)
          /\ RunOf(a) \in Runs /\ Opened(RunOf(a))
      BY <2>1, EndedAttempt
    <3>2. lease'[attempt[a].lease].run = RunOf(a)
      BY <3>1, LeasesStayIssued DEF AInv, StaysIssued, RunOf
    <3> QED  BY <3>1, <3>2, CommandsChargeNothing DEF AInv
  <2> QED  BY <1>1, <2>1 DEF EndedUnder, RunOf
<1> QED  BY <1>1, <1>2, <1>3, BudgetKept

\* The end of an attempt under g adds its cost to the spend and its units to the sum.
LEMMA BudgetFinished ==
  ASSUME AInv, BudgetInv, NEW a \in AttemptIds, NEW l \in Leases, NEW s \in Steps,
         NEW outcome \in Terminal, NEW summary \in Summaries \cup {None}, NEW cost \in Nat,
         attempt[a].status \notin Terminal,
         Issued(l), Authorized(lease[l].run), Finish(a, l, s, outcome, summary, cost)
  PROVE  BudgetInv'
<1> DEFINE more == {a} \X (1 .. cost)
<1>1. lease[l].run \in Runs  BY DEF AInv, IInv, LeaseInv, KnownInv
<1>0. PICK g \in Grants : g = run[lease[l].run].grant
  BY <1>1 DEF AInv, IInv, GrantInv, Authorized
<1>2. /\ \A b \in AttemptIds : b # a => attempt'[b] = attempt[b]
      /\ attempt'[a].status = outcome /\ attempt'[a].lease = l /\ attempt'[a].cost = cost
  BY DEF Finish, AInv, AttemptsTypeOK
<1>3. lease' = lease /\ run' = run  BY DEF Finish
<1>4. \A h \in Grants : EndedUnder(h)' = IF h = g THEN EndedUnder(g) \cup {a} ELSE EndedUnder(h)
  BY <1>0, <1>2, <1>3 DEF EndedUnder, RunOf
<1>5. a \notin EndedUnder(g)  BY DEF EndedUnder
<1>6. \A h \in Grants : grant[h].spend \in Nat  BY DEF AInv, IInv, TypeOK, Grant
<1>7. \A h \in Grants : grant'[h].spend = IF h = g THEN grant[g].spend + cost ELSE grant[h].spend
  BY <1>0 DEF Finish, AInv, IInv, TypeOK, Grant
<1>8. ASSUME NEW h \in Grants, h # g PROVE Accounted(h)'
  <2>1. Accounted(h)  BY DEF BudgetInv
  <2>2. EndedUnder(h)' = EndedUnder(h) /\ a \notin EndedUnder(h)  BY <1>4, <1>8 DEF EndedUnder
  <2>3. \A b \in EndedUnder(h) : attempt'[b] = attempt[b]  BY <1>2, <2>2 DEF EndedUnder
  <2>4. CostUnits(EndedUnder(h))' = CostUnits(EndedUnder(h))  BY <2>2, <2>3 DEF CostUnits
  <2>5. grant'[h].spend = grant[h].spend  BY <1>7, <1>8
  <2> QED  BY <2>1, <2>2, <2>3, <2>4, <2>5 DEF Accounted
<1>9. Accounted(g)'
  <2>1. Accounted(g)  BY <1>1 DEF BudgetInv
  <2>2. EndedUnder(g)' = EndedUnder(g) \cup {a}  BY <1>1, <1>4
  <2>3. \A b \in EndedUnder(g) : attempt'[b] = attempt[b]  BY <1>2, <1>5 DEF EndedUnder
  <2>4. CostUnits(EndedUnder(g))' = CostUnits(EndedUnder(g)) \cup more
    BY <1>2, <2>2, <2>3 DEF CostUnits
  <2>5. CostUnits(EndedUnder(g)) \cap more = {}  BY <1>5 DEF CostUnits
  <2>6. IsFiniteSet(more) /\ Cardinality(more) = cost
    <3>1. IsFiniteSet({a}) /\ Cardinality({a}) = 1  BY FS_Singleton
    <3>2. IsFiniteSet(1 .. cost) /\ Cardinality(1 .. cost) = cost  BY FS_Interval
    <3>3. IsFiniteSet(more) /\ Cardinality(more) = Cardinality({a}) * Cardinality(1 .. cost)
      BY <3>1, <3>2, FS_Product
    <3> QED  BY <3>1, <3>2, <3>3
  <2>7. IsFiniteSet(CostUnits(EndedUnder(g)) \cup more)
        /\ Cardinality(CostUnits(EndedUnder(g)) \cup more) =
             Cardinality(CostUnits(EndedUnder(g))) + Cardinality(more)
                - Cardinality(CostUnits(EndedUnder(g)) \cap more)
    <3> HIDE DEF more
    <3> QED  BY <2>1, <2>6, FS_Union DEF Accounted
  <2>8. Cardinality(CostUnits(EndedUnder(g)) \cap more) = 0  BY <2>5, FS_EmptySet
  <2>9. grant'[g].spend = grant[g].spend + cost  BY <1>1, <1>7
  <2>10. Cardinality(CostUnits(EndedUnder(g)) \cup more) = grant'[g].spend
    <3>1. grant[g].spend \in Nat /\ grant[g].spend = Cardinality(CostUnits(EndedUnder(g)))
      BY <1>1, <1>6, <2>1 DEF Accounted
    <3> HIDE DEF more
    <3> QED  BY <2>6, <2>7, <2>8, <2>9, <3>1
  <2>11. grant'[g].spend < MaximumSpend + attempt'[a].cost
    BY <1>0, <1>2, <1>6, <2>9, LimitsAssumption DEF Authorized
  <2> HIDE DEF more
  <2>12. IsFiniteSet(CostUnits(EndedUnder(g)))'  BY <2>4, <2>7
  <2>13. (grant[g].spend = Cardinality(CostUnits(EndedUnder(g))))'  BY <1>3, <2>4, <2>10
  <2>14. a \in EndedUnder(g)'  BY <2>2
  <2> QED  BY <1>3, <2>11, <2>12, <2>13, <2>14 DEF Accounted
<1>10. ASSUME NEW h \in Grants PROVE Accounted(h)'
  <2>1. CASE h = g  BY <1>9, <2>1
  <2> QED  BY <1>8, <2>1
<1> QED  BY <1>10 DEF BudgetInv

LEMMA BudgetStep == AInv /\ BudgetInv /\ [AttemptsNext]_allVars => BudgetInv'
<1> SUFFICES ASSUME AInv, BudgetInv, [AttemptsNext]_allVars PROVE BudgetInv'  OBVIOUS
<1>1. ASSUME NEW a \in AttemptIds, NEW l \in Leases, NEW s \in Steps, NEW role \in Roles,
             StartAttempt(a, l, s, role)
      PROVE  BudgetInv'
  <2>1. /\ attempt' = [attempt EXCEPT ![a] = [status |-> "started", lease |-> l, step |-> s,
                                              summary |-> None, cost |-> 0, ended |-> 0]]
        /\ UNCHANGED <<run, lease, grant>>
    BY <1>1 DEF StartAttempt, vars
  <2>2. attempt[a].status \notin Terminal /\ attempt'[a].status \notin Terminal
    BY <1>1, <2>1 DEF StartAttempt, Recorded, Terminal, NonSuccess, AInv, AttemptsTypeOK
  <2>3. \A b \in AttemptIds : b # a => attempt'[b] = attempt[b]
    BY <2>1 DEF AInv, AttemptsTypeOK
  <2>4. \A g \in Grants : EndedUnder(g)' = EndedUnder(g)
    BY <2>1, <2>2, <2>3 DEF EndedUnder, RunOf
  <2>5. \A g \in Grants : \A b \in EndedUnder(g) : attempt'[b].cost = attempt[b].cost
    BY <2>2, <2>3 DEF EndedUnder
  <2> QED  BY <2>1, <2>4, <2>5, BudgetKept
<1>2. ASSUME NEW a \in AttemptIds, NEW l \in Leases, NEW s \in Steps, NEW role \in Roles,
             NEW outcome \in Outcomes, NEW summary \in Summaries \cup {None}, NEW cost \in Costs,
             FinishAttempt(a, l, s, role, outcome, summary, cost)
      PROVE  BudgetInv'
  <2>1. outcome \in Terminal /\ cost \in Nat  BY AttemptsAssumption
  <2>2. attempt[a].status \notin Terminal
    BY <1>2 DEF FinishAttempt, Recorded, Terminal, NonSuccess
  <2> QED  BY <1>2, <2>1, <2>2, BudgetFinished DEF FinishAttempt, MayWrite
<1>3. ASSUME NEW a \in AttemptIds, NEW outcome \in Outcomes,
             NEW summary \in Summaries \cup {None}, NEW cost \in Costs,
             RecoverOrphan(a, outcome, summary, cost)
      PROVE  BudgetInv'
  <2>1. outcome \in Terminal /\ cost \in Nat  BY AttemptsAssumption
  <2>2. attempt[a].status \notin Terminal /\ Recorded(a)
    BY <1>3 DEF RecoverOrphan, Recorded, Terminal, NonSuccess
  <2>3. /\ attempt[a].lease \in Leases /\ attempt[a].step \in Steps
        /\ Issued(attempt[a].lease)
    BY <2>2 DEF AInv, NamedInv
  <2> QED  BY <1>3, <2>1, <2>2, <2>3, BudgetFinished DEF RecoverOrphan, RunOf
<1>4. CASE UNCHANGED allVars  BY <1>4, BudgetByCommand DEF allVars
<1> QED  BY <1>1, <1>2, <1>3, <1>4, BudgetByCommand DEF AttemptsNext, RecordExecutionAttempt

LEMMA BudgetInit == AttemptsInit => BudgetInv
<1> SUFFICES ASSUME AttemptsInit, NEW g \in Grants PROVE Accounted(g)  BY DEF BudgetInv
<1>1. EndedUnder(g) = {}
  BY DEF AttemptsInit, EndedUnder, NoAttempt, Terminal, NonSuccess
<1>2. CostUnits(EndedUnder(g)) = {}  BY <1>1 DEF CostUnits
<1>3. grant[g].spend = 0  BY DEF AttemptsInit, Init, NewGrant
<1> QED  BY <1>1, <1>2, <1>3, FS_EmptySet DEF Accounted

-----------------------------------------------------------------------------
(* What the commands of RunControl guarantee, while attempts are recorded   *)

\* Recording an attempt writes nothing of RunControl but the spend of one grant.
LEMMA AttemptsOnlySpend ==
  ASSUME AInv, RecordExecutionAttempt
  PROVE  UNCHANGED <<run, held, ceiling, lease, unit, decision, checkpoint, merge>> /\ SameCounts
<1>1. ASSUME NEW a \in AttemptIds, NEW l \in Leases, NEW s \in Steps, NEW outcome, NEW summary,
             NEW cost, Finish(a, l, s, outcome, summary, cost)
      PROVE  UNCHANGED <<run, held, ceiling, lease, unit, decision, checkpoint, merge>> /\ SameCounts
  <2>1. grant' = [grant EXCEPT ![run[lease[l].run].grant] =
                    [@ EXCEPT !.spend = grant[run[lease[l].run].grant].spend + cost]]
    BY <1>1 DEF Finish
  <2>2. SameCounts  BY <2>1 DEF SameCounts, AInv, IInv, TypeOK, Grant
  <2> QED  BY <1>1, <2>2 DEF Finish
<1>2. ASSUME NEW a \in AttemptIds, NEW l \in Leases, NEW s \in Steps, NEW role \in Roles,
             StartAttempt(a, l, s, role)
      PROVE  UNCHANGED <<run, held, ceiling, lease, unit, decision, checkpoint, merge>> /\ SameCounts
  BY <1>2 DEF StartAttempt, vars, SameCounts
<1>3. ASSUME NEW a \in AttemptIds, NEW outcome \in Outcomes,
             NEW summary \in Summaries \cup {None}, NEW cost \in Costs,
             RecoverOrphan(a, outcome, summary, cost)
      PROVE  UNCHANGED <<run, held, ceiling, lease, unit, decision, checkpoint, merge>> /\ SameCounts
  <2>1. Recorded(a)  BY <1>3 DEF RecoverOrphan, Recorded
  <2>2. attempt[a].lease \in Leases /\ attempt[a].step \in Steps  BY <2>1 DEF AInv, NamedInv
  <2> QED  BY <1>1, <1>3, <2>2 DEF RecoverOrphan
<1> QED  BY <1>1, <1>2, <1>3 DEF RecordExecutionAttempt, FinishAttempt

LEMMA AttemptsStep ==
  ASSUME AInv, [AttemptsNext]_allVars
  PROVE  \/ [Next]_vars
         \/ UNCHANGED <<run, held, ceiling, lease, unit, decision, checkpoint, merge>> /\ SameCounts
BY AttemptsOnlySpend DEF AttemptsNext, allVars

-----------------------------------------------------------------------------
(* Theorems *)

\* Attempts and every document of the Run keep their shape when the commands of
\* workers, control plane and humans interleave with the recording of attempts.
THEOREM AttemptsTypeCorrect == AttemptsSpec => [](TypeOK /\ AttemptsTypeOK)
<1>1. AInv => TypeOK /\ AttemptsTypeOK  BY DEF AInv, IInv
<1> QED  BY <1>1, AttemptsInductive, PTL

\* One worker per Work Unit of a Run, also while attempts are recorded and charged.
THEOREM LeaseAgreesDuringAttempts == AttemptsSpec => []ActiveLeaseIsHeld
<1>1. AInv => ActiveLeaseIsHeld  BY DEF AInv, IInv, LeaseInv
<1> QED  BY <1>1, AttemptsInductive, PTL

\* The verdict on an attempt is given once, by the worker that started it or, when its
\* lease is lost, by the orphan recovery, never by both; and a recorded attempt
\* keeps its lease and its step.
THEOREM VerdictsAreFinal == AttemptsSpec => VerdictIsFinal
<1> DEFINE Final == \A a \in AttemptIds :
             /\ Recorded(a) => attempt'[a].lease = attempt[a].lease
                               /\ attempt'[a].step = attempt[a].step
             /\ attempt[a].status \in Terminal => attempt'[a] = attempt[a]
<1>1. ASSUME AInv, [AttemptsNext]_allVars PROVE Final
  <2>0. attempt \in [AttemptIds -> Attempt]  BY <1>1 DEF AInv, AttemptsTypeOK
  <2>1. CASE UNCHANGED attemptVars  BY <2>1 DEF attemptVars
  <2>2. ASSUME NEW a \in AttemptIds, NEW l \in Leases, NEW s \in Steps, NEW role \in Roles,
               StartAttempt(a, l, s, role)
        PROVE  Final
    <3>1. ~Recorded(a) /\ \A b \in AttemptIds \ {a} : attempt'[b] = attempt[b]
      BY <2>0, <2>2 DEF StartAttempt
    <3> QED  BY <3>1 DEF Recorded, Terminal, NonSuccess
  <2>3. ASSUME NEW a \in AttemptIds, NEW l \in Leases, NEW s \in Steps, NEW role \in Roles,
               NEW outcome \in Outcomes, NEW summary \in Summaries \cup {None}, NEW cost \in Costs,
               FinishAttempt(a, l, s, role, outcome, summary, cost)
        PROVE  Final
    <3>1. attempt'[a].lease = l /\ attempt'[a].step = s
          /\ \A b \in AttemptIds \ {a} : attempt'[b] = attempt[b]
      BY <2>0, <2>3 DEF FinishAttempt, Finish
    <3>2. \/ ~Recorded(a)
          \/ attempt[a].status = "started" /\ attempt[a].lease = l /\ attempt[a].step = s
      BY <2>3 DEF FinishAttempt
    <3> QED  BY <3>1, <3>2 DEF Recorded, Terminal, NonSuccess
  <2>4. ASSUME NEW a \in AttemptIds, NEW outcome \in Outcomes,
               NEW summary \in Summaries \cup {None}, NEW cost \in Costs,
               RecoverOrphan(a, outcome, summary, cost)
        PROVE  Final
    <3>1. attempt'[a].lease = attempt[a].lease /\ attempt'[a].step = attempt[a].step
          /\ \A b \in AttemptIds \ {a} : attempt'[b] = attempt[b]
      BY <2>0, <2>4 DEF RecoverOrphan, Finish
    <3>2. attempt[a].status = "started"  BY <2>4 DEF RecoverOrphan
    <3> QED  BY <3>1, <3>2 DEF Terminal, NonSuccess
  <2> QED
    BY <1>1, <2>1, <2>2, <2>3, <2>4 DEF AttemptsNext, RecordExecutionAttempt, allVars, attemptVars
<1>2. []AInv /\ [][AttemptsNext]_allVars => [][Final]_allVars
  BY <1>1, PTL
<1>3. Final <=> (\A a \in AttemptIds :
       /\ Recorded(a) => attempt'[a].lease = attempt[a].lease
                         /\ attempt'[a].step = attempt[a].step
       /\ attempt[a].status \in Terminal => attempt'[a] = attempt[a])
  OBVIOUS
<1> QED  BY <1>2, <1>3, AttemptsInductive, PTL DEF AttemptsSpec, VerdictIsFinal

\* A grant is charged once for each attempt that ended under it, by the worker or by
\* the orphan recovery, and no attempt is charged once the budget is spent.
THEOREM BudgetIsExact == AttemptsSpec => []BudgetIsAccounted
<1>1. BudgetInv => BudgetIsAccounted  BY DEF BudgetInv, Accounted, BudgetIsAccounted
<1> QED  BY <1>1, BudgetInit, BudgetStep, AttemptsInductive, PTL DEF AttemptsSpec

\* What RunControl promises step by step holds while attempts are recorded and charged:
\* former workers stay silent, authority only shrinks, an unusable grant freezes its Run.
THEOREM StepsAreSafeDuringAttempts ==
  AttemptsSpec => EndedLeaseIsSilent /\ NothingLoosens /\ UnusableGrantFreezesRun
<1> DEFINE Quiet == UNCHANGED <<run, held, ceiling, lease, unit, decision, checkpoint, merge>>
           Silent == \A l \in Leases : HasEnded(l) => StaysSilent(l)
<1>1. AInv => IInv /\ TypeOK  BY DEF AInv, IInv
<1>2. AInv /\ Quiet => Silent  BY DEF HasEnded, StaysSilent
<1>3. AInv /\ Quiet => OneWay
  <2> SUFFICES ASSUME AInv, Quiet PROVE OneWay  OBVIOUS
  <2>1. \A x \in CeilingStates : Rank[x] \in Nat  BY DEF Rank
  <2>2. \A w \in WorkUnits : unit[w].risk \in Nat  BY <1>1 DEF TypeOK
  <2>3. \A r \in Runs, w \in WorkUnits, d \in CeilingDimensions : ceiling[r][w][d] \in CeilingStates
    BY <1>1 DEF TypeOK
  <2>4. \A r \in Runs, w \in WorkUnits, d \in AlwaysForbidden : ceiling[r][w][d] = "forbidden"
    BY <1>1 DEF IInv, PinnedInv
  <2> QED  BY <2>1, <2>2, <2>3, <2>4 DEF OneWay, Tighter
<1>4. AInv /\ Quiet => Frozen  BY DEF Frozen, FrozenRun, FrozenDocuments
<1>5. AInv /\ [AttemptsNext]_allVars => Silent /\ OneWay /\ Frozen
  BY <1>1, <1>2, <1>3, <1>4, AttemptsStep, SilentStep, OneWayStep, FrozenStep
<1>6. []AInv /\ [][AttemptsNext]_allVars => [][Silent]_vars /\ [][OneWay]_vars /\ [][Frozen]_vars
  <2>1. AInv /\ [AttemptsNext]_allVars => [Silent]_vars /\ [OneWay]_vars /\ [Frozen]_vars  BY <1>5
  <2> QED  BY <2>1, PTL
<1>7. AttemptsSpec => EndedLeaseIsSilent
  BY <1>6, AttemptsInductive, PTL DEF AttemptsSpec, EndedLeaseIsSilent, HasEnded, StaysSilent
<1>8. AttemptsSpec => NothingLoosens
  BY <1>6, AttemptsInductive, PTL DEF AttemptsSpec, NothingLoosens, OneWay, Tighter
<1>9. AttemptsSpec => UnusableGrantFreezesRun
  BY <1>6, AttemptsInductive, FrozenIsFreeze, PTL DEF AttemptsSpec
<1> QED  BY <1>7, <1>8, <1>9

\* And its use counters stay exact.
THEOREM UsesAreExactDuringAttempts ==
  IsFiniteSet(Runs) /\ IsFiniteSet(Decisions) => (AttemptsSpec => []UsesAreConserved)
<1> SUFFICES ASSUME IsFiniteSet(Runs), IsFiniteSet(Decisions)
             PROVE  AttemptsSpec => []UsesAreConserved
  OBVIOUS
<1>1. AInv /\ UsesInv /\ [AttemptsNext]_allVars => UsesInv'
  <2> SUFFICES ASSUME AInv, UsesInv, [AttemptsNext]_allVars PROVE UsesInv'  OBVIOUS
  <2>1. IInv /\ TypeOK  BY DEF AInv, IInv
  <2>2. CASE [Next]_vars  BY <2>1, <2>2, UsesStep
  <2>3. ASSUME UNCHANGED <<run, decision>>, SameCounts PROVE UsesInv'
    <3>1. SameBinding  BY <2>3 DEF SameBinding
    <3> QED  BY <2>1, <2>3, <3>1, UsesKept
  <2> QED  BY <2>2, <2>3, AttemptsStep
<1>2. AttemptsInit => UsesInv  BY UsesInit DEF AttemptsInit
<1> QED  BY <1>1, <1>2, UsesAreCounted, AttemptsInductive, PTL DEF AttemptsSpec
=============================================================================
