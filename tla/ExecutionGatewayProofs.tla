----------------------- MODULE ExecutionGatewayProofs -----------------------
(***************************************************************************)
(* Proofs about the promotion of what an agent did: it runs under the      *)
(* lease that is current, an execution is accepted once, and what is       *)
(* accepted is what was inspected. For any processes, executions, paths,   *)
(* deployments and faults.                                                 *)
(***************************************************************************)
EXTENDS ExecutionGateway, TLAPS

-----------------------------------------------------------------------------
(* The inductive invariant *)

\* From the first lock on, the project.lock is that of the process; and so is the
\* queue.lock from the second on, unless waiters break the lock of a slow promotion.
HoldsProject == HoldsQueue \cup {"queue"}
LockInv ==
  \A p \in Procs :
    /\ job[p].pc \in HoldsProject => project = p
    /\ job[p].pc \in HoldsQueue => queue = p \/ SlowPromotions

\* A process past its fence holds the lease, while commands that end leases are kept out.
FenceInv ==
  SlowPromotions = FALSE \/ deployment.kind = "worker" => FencedIsCurrent

\* A process that made the claim of its execution is alone with it until it rejects
\* or forgets it, and the claim of an execution that was accepted stays.
Claimed == (Fenced \ {"claim"}) \cup {"event"}
ClaimInv ==
  /\ \A p \in Procs :
       /\ job[p].pc \in Claimed => job[p].claimed
       /\ job[p].claimed => claim[Exec(p)] /\ accepted[Exec(p)] = 0
       /\ \A q \in Procs : job[p].claimed /\ job[q].claimed /\ Exec(p) = Exec(q) => p = q
  /\ \A x \in Execs : accepted[x] \in {0, 1} /\ (accepted[x] = 1 => claim[x])

\* What the steps of an execution have established when they are behind it.
Inspected == Claimed \cup {"recheck", "want", "queue", "fence", "claim"}
Committed == {"match", "persist", "promote", "event"}
Matched == {"persist", "promote", "event"}
Kept == {"promote", "event"}
Work(p) ==
    /\ job[p].pc \in Inspected => job[p].files \subseteq Scoped
    /\ job[p].pc \in Committed => [exec |-> Exec(p), content |-> job[p].sha] \in made
    /\ job[p].pc \in Matched =>
         {q \in Paths : job[p].sha[q] # job[p].base[q]} = job[p].files
    /\ job[p].pc \in Kept => Manifests(p) \subseteq job[p].kept
    /\ job[p].kept \subseteq evidence
    /\ \A m \in job[p].kept : m.by = p
WorkInv == \A p \in Procs : Work(p)

IInv == GatewayTypeOK /\ LockInv /\ FenceInv /\ ClaimInv /\ WorkInv

-----------------------------------------------------------------------------
(* What the steps do to a process and to the others *)

LEMMA IdleType == Idle \in Job
BY GatewayAssumption DEF Idle, Job, Blank, Tree, Contents, Steps

LEMMA ExecType == ASSUME GatewayTypeOK, NEW p \in Procs PROVE Exec(p) \in Execs
BY GatewayAssumption DEF GatewayTypeOK, Exec

\* A step of p leaves the jobs of the others alone.
LEMMA JobWritten ==
  ASSUME GatewayTypeOK, NEW p \in Procs, NEW x \in Job, job' = [job EXCEPT ![p] = x]
  PROVE  /\ job' \in [Procs -> Job] /\ job'[p] = x
         /\ \A q \in Procs : q # p => job'[q] = job[q]
BY DEF GatewayTypeOK

LEMMA Moved ==
  ASSUME GatewayTypeOK, NEW p \in Procs, NEW s \in Steps \cup {"idle"}, Goto(p, s)
  PROVE  /\ job' \in [Procs -> Job]
         /\ job'[p].pc = s /\ job'[p].base = job[p].base /\ job'[p].seen = job[p].seen
         /\ job'[p].files = job[p].files /\ job'[p].declared = job[p].declared
         /\ job'[p].sha = job[p].sha /\ job'[p].claimed = job[p].claimed
         /\ job'[p].kept = job[p].kept
         /\ \A q \in Procs : q # p => job'[q] = job[q]
<1>1. [job[p] EXCEPT !.pc = s] \in Job  BY DEF GatewayTypeOK, Job
<1>2. job' = [job EXCEPT ![p] = [job[p] EXCEPT !.pc = s]]  BY DEF Goto
<1>3. job[p] \in Job  BY DEF GatewayTypeOK
<1> QED  BY <1>1, <1>2, <1>3, JobWritten DEF Job

\* The work of a process whose job is left alone stays while its commit and its
\* evidence stay.
LEMMA WorkFrame ==
  ASSUME NEW q \in Procs, Work(q), job'[q] = job[q], UNCHANGED deployment, made \subseteq made',
         job[q].kept \subseteq evidence'
  PROVE  Work(q)'
BY DEF Work, Manifests, Exec

\* Whoever lets go of locks lets go of its own.
LEMMA ReleaseKeeps ==
  ASSUME IInv, NEW p \in Procs, LocksReleased(p), NEW q \in Procs, q # p
  PROVE  /\ job[q].pc \in HoldsProject => project' = q
         /\ job[q].pc \in HoldsQueue => queue' = q \/ SlowPromotions
BY DEF IInv, LockInv, HoldsProject, LocksReleased

LEMMA ReleaseType ==
  ASSUME GatewayTypeOK, NEW p \in Procs, LocksReleased(p)
  PROVE  project' \in Procs \cup {None, Orphan} /\ queue' \in Procs \cup {None, Orphan}
BY DEF GatewayTypeOK, LocksReleased

LEMMA RefusedStep == ASSUME IInv, NEW p \in Procs, Refused(p) PROVE IInv'
<1>1. Goto(p, "reject") /\ LocksReleased(p)
      /\ UNCHANGED <<deployment, files, holder, ledger, bounded>>
  BY DEF Refused
<1>2. GatewayTypeOK  BY DEF IInv
<1>3. /\ job' \in [Procs -> Job]
      /\ job'[p].pc = "reject" /\ job'[p].claimed = job[p].claimed /\ job'[p].kept = job[p].kept
      /\ \A q \in Procs : q # p => job'[q] = job[q]
  BY <1>1, <1>2, Moved DEF Steps
<1>4. GatewayTypeOK'
  BY <1>1, <1>2, <1>3, ReleaseType DEF GatewayTypeOK, files, ledger, bounded
<1>5. LockInv'
  BY <1>1, <1>3, ReleaseKeeps DEF LockInv, HoldsProject, HoldsQueue, Fenced
<1>6. FenceInv'
  BY <1>1, <1>3 DEF IInv, FenceInv, FencedIsCurrent, Authoritative, Fenced
<1>7. ClaimInv'
  BY <1>1, <1>3 DEF IInv, ClaimInv, Claimed, Fenced, Exec, ledger
<1>8. WorkInv'
  <2> SUFFICES ASSUME NEW q \in Procs PROVE Work(q)'  BY DEF WorkInv
  <2>1. CASE q = p
    BY <1>1, <1>3, <2>1 DEF IInv, WorkInv, Work, Inspected, Claimed, Fenced, Committed, Matched,
                            Kept, ledger
  <2>2. CASE q # p
    <3>1. Work(q)  BY DEF IInv, WorkInv
    <3> QED  BY <1>1, <1>3, <2>2, <3>1, WorkFrame DEF ledger, Work
  <2> QED  BY <2>1, <2>2
<1> QED  BY <1>4, <1>5, <1>6, <1>7, <1>8 DEF IInv

LEMMA RaisedStep ==
  ASSUME IInv, NEW p \in Procs, Raised(p), writes' \in Nat, starts' \in Nat, faults' \in Nat
  PROVE IInv'
<1>1. job' = [job EXCEPT ![p] = Idle] /\ LocksReleased(p)
      /\ UNCHANGED <<deployment, files, holder, ledger>>
  BY DEF Raised
<1>2. GatewayTypeOK  BY DEF IInv
<1>3. /\ job' \in [Procs -> Job] /\ job'[p] = Idle
      /\ \A q \in Procs : q # p => job'[q] = job[q]
  BY <1>1, <1>2, IdleType, JobWritten
<1>4. GatewayTypeOK'
  BY <1>1, <1>2, <1>3, ReleaseType DEF GatewayTypeOK, files, ledger
<1>5. LockInv'
  BY <1>1, <1>3, ReleaseKeeps DEF LockInv, HoldsProject, HoldsQueue, Fenced, Idle
<1>6. FenceInv'
  BY <1>1, <1>3 DEF IInv, FenceInv, FencedIsCurrent, Authoritative, Fenced, Idle
<1>7. ClaimInv'
  BY <1>1, <1>3 DEF IInv, ClaimInv, Claimed, Fenced, Exec, ledger, Idle
<1>8. WorkInv'
  <2> SUFFICES ASSUME NEW q \in Procs PROVE Work(q)'  BY DEF WorkInv
  <2>1. CASE q = p
    BY <1>1, <1>3, <2>1 DEF Work, Inspected, Claimed, Fenced, Committed, Matched, Kept, Idle
  <2>2. CASE q # p
    <3>1. Work(q)  BY DEF IInv, WorkInv
    <3> QED  BY <1>1, <1>3, <2>2, <3>1, WorkFrame DEF ledger, Work
  <2> QED  BY <2>1, <2>2
<1> QED  BY <1>4, <1>5, <1>6, <1>7, <1>8 DEF IInv

\* A step that changes no lock, lease or record of what was promoted, and brings the
\* process to a place that asks for no more than it already has.
LEMMA QuietStep ==
  ASSUME IInv, NEW p \in Procs, GatewayTypeOK',
         UNCHANGED <<deployment, holder, locks, ledger>>,
         \A q \in Procs : q # p => job'[q] = job[q],
         job'[p].claimed = job[p].claimed \/ job'[p].claimed = FALSE, Work(p)',
         job'[p].pc \in HoldsProject => job[p].pc \in HoldsProject,
         job'[p].pc \in HoldsQueue => job[p].pc \in HoldsQueue,
         job'[p].pc \in Fenced => job[p].pc \in Fenced \/ Authoritative(p),
         job'[p].pc \in Claimed => job[p].pc \in Claimed /\ job'[p].claimed = job[p].claimed
  PROVE  IInv'
<1>1. LockInv'  BY DEF IInv, LockInv, locks
<1>2. FenceInv'  BY DEF IInv, FenceInv, FencedIsCurrent, Authoritative
<1>3. ClaimInv'  BY DEF IInv, ClaimInv, Exec, ledger
<1>4. WorkInv'
  <2> SUFFICES ASSUME NEW q \in Procs, q # p PROVE Work(q)'  BY DEF WorkInv
  <2>1. Work(q)  BY DEF IInv, WorkInv
  <2> QED  BY <2>1, WorkFrame DEF ledger, Work
<1> QED  BY <1>1, <1>2, <1>3, <1>4 DEF IInv

-----------------------------------------------------------------------------
(* The steps, in the order of the code *)

LEMMA StartStep == ASSUME IInv, NEW p \in Procs, Start(p) PROVE IInv'
<1>1. /\ UNCHANGED <<deployment, holder, locks, ledger, writes, faults>>
      /\ starts' = starts + 1 /\ job[p].pc = "idle"
  BY DEF Start, At
<1>2. GatewayTypeOK  BY DEF IInv
<1>3. Exec(p) \in Execs /\ Shared \in Worktrees /\ Execs \subseteq Worktrees
  BY <1>2, ExecType DEF Worktrees
<1>4. tree[Shared] \in Tree /\ head[Shared] \in Tree  BY <1>2, <1>3 DEF GatewayTypeOK
<1>5. \/ job' = job
      \/ \E from \in Tree : job' = [job EXCEPT ![p] = Begun(p, from)]
  BY <1>4 DEF Start
<1>6. /\ tree' \in [Worktrees -> Tree] /\ head' \in [Worktrees -> Tree]
      /\ worktree' \in [Execs -> {"none", "live", "missing"}]
      /\ marker' \in [Execs -> {"none", "open", "promotable", "quarantined"}]
  BY <1>2, <1>3, <1>4 DEF Start, GatewayTypeOK, files
<1>7. CASE job' = job
  <2>1. GatewayTypeOK'  BY <1>1, <1>2, <1>6, <1>7 DEF GatewayTypeOK, locks, ledger
  <2>2. Work(p) /\ job[p].kept \subseteq evidence  BY DEF IInv, WorkInv, Work
  <2>3. Work(p)'  BY <1>1, <1>7, <2>2, WorkFrame DEF ledger
  <2> QED
    BY <1>1, <1>7, <2>1, <2>3, QuietStep DEF HoldsProject, HoldsQueue, Fenced, Claimed
<1>8. ASSUME NEW from \in Tree, job' = [job EXCEPT ![p] = Begun(p, from)] PROVE IInv'
  <2>1. Begun(p, from) \in Job /\ Begun(p, from).pc = "agent" /\ Begun(p, from).claimed = FALSE
        /\ Begun(p, from).kept = {}
    BY <1>4, IdleType DEF Begun, Job, Idle, Steps
  <2>2. /\ job' \in [Procs -> Job] /\ job'[p] = Begun(p, from)
        /\ \A q \in Procs : q # p => job'[q] = job[q]
    BY <1>2, <1>8, <2>1, JobWritten
  <2>3. GatewayTypeOK'  BY <1>1, <1>2, <1>6, <2>2 DEF GatewayTypeOK, locks, ledger
  <2>4. Work(p)'
    BY <2>1, <2>2 DEF Work, Inspected, Claimed, Fenced, Committed, Matched, Kept
  <2> QED
    BY <1>1, <2>1, <2>2, <2>3, <2>4, QuietStep DEF HoldsProject, HoldsQueue, Fenced, Claimed
<1> QED  BY <1>5, <1>7, <1>8

LEMMA AgentReturnsStep == ASSUME IInv, NEW p \in Procs, AgentReturns(p) PROVE IInv'
<1>1. ASSUME NEW declared \in SUBSET Scoped,
             job' = [job EXCEPT ![p].pc = "capture", ![p].declared = declared],
             UNCHANGED <<deployment, files, holder, locks, ledger, bounded>>
      PROVE  IInv'
  <2>1. GatewayTypeOK /\ job[p] \in Job  BY DEF IInv, GatewayTypeOK
  <2>2. [job[p] EXCEPT !.pc = "capture", !.declared = declared] \in Job
    BY <2>1, GatewayAssumption DEF Job, Steps, Inspecting
  <2>3. job' = [job EXCEPT ![p] = [job[p] EXCEPT !.pc = "capture", !.declared = declared]]
    BY <1>1, <2>1
  <2>4. /\ job' \in [Procs -> Job]
        /\ job'[p] = [job[p] EXCEPT !.pc = "capture", !.declared = declared]
        /\ \A q \in Procs : q # p => job'[q] = job[q]
    BY <2>1, <2>2, <2>3, JobWritten
  <2>5. job'[p].pc = "capture" /\ job'[p].claimed = job[p].claimed /\ job'[p].kept = job[p].kept
    BY <2>1, <2>4 DEF Job
  <2>6. GatewayTypeOK'
    BY <1>1, <2>1, <2>4 DEF GatewayTypeOK, files, locks, ledger, bounded
  <2>7. Work(p)'
    BY <1>1, <2>5 DEF IInv, WorkInv, Work, Inspected, Claimed, Fenced, Committed, Matched, Kept,
                      ledger
  <2> QED
    BY <1>1, <2>4, <2>5, <2>6, <2>7, QuietStep DEF HoldsProject, HoldsQueue, Fenced, Claimed
<1> QED  BY <1>1, RefusedStep DEF AgentReturns

LEMMA CaptureStep == ASSUME IInv, NEW p \in Procs, Capture(p) PROVE IInv'
<1>1. ASSUME ~Refused(p) PROVE IInv'
  <2> DEFINE w == Place(p)
             fs == Changed(w, job[p].base)
             x == [job[p] EXCEPT !.pc = "recheck", !.seen = tree[w], !.files = fs]
  <2>1. /\ InScope(p) /\ job' = [job EXCEPT ![p].pc = "recheck", ![p].seen = tree[w], ![p].files = fs]
        /\ UNCHANGED <<deployment, files, holder, locks, ledger, bounded>>
    BY <1>1 DEF Capture
  <2>2. GatewayTypeOK /\ job[p] \in Job  BY DEF IInv, GatewayTypeOK
  <2>3. w \in Worktrees /\ tree[w] \in Tree
    BY <2>2, ExecType DEF Place, Worktrees, GatewayTypeOK
  <2>4. fs \subseteq Scoped /\ fs \subseteq Paths  BY <2>1 DEF InScope, Changed
  <2> HIDE DEF w, fs
  <2>5. x \in Job  BY <2>2, <2>3, <2>4 DEF Job, Steps, Inspecting
  <2>6. job' = [job EXCEPT ![p] = x]  BY <2>1, <2>2
  <2> HIDE DEF x
  <2>7. /\ job' \in [Procs -> Job] /\ job'[p] = x
        /\ \A q \in Procs : q # p => job'[q] = job[q]
    BY <2>2, <2>5, <2>6, JobWritten
  <2>8. x.pc = "recheck" /\ x.claimed = job[p].claimed /\ x.kept = job[p].kept /\ x.files = fs
    BY <2>2 DEF Job, x
  <2>9. GatewayTypeOK'
    BY <2>1, <2>2, <2>7 DEF GatewayTypeOK, files, locks, ledger, bounded
  <2>10. Work(p)'
    BY <2>1, <2>4, <2>7, <2>8 DEF IInv, WorkInv, Work, Inspected, Claimed, Fenced, Committed,
                                  Matched, Kept, ledger
  <2> QED
    BY <2>1, <2>7, <2>8, <2>9, <2>10, QuietStep DEF HoldsProject, HoldsQueue, Fenced, Claimed
<1> QED  BY <1>1, RefusedStep

LEMMA RecheckStep == ASSUME IInv, NEW p \in Procs, Recheck(p) PROVE IInv'
<1>1. ASSUME ~Refused(p) PROVE IInv'
  <2> DEFINE w == Place(p)
             x == [job[p] EXCEPT !.pc = "want", !.seen = tree[w]]
  <2>1. /\ job[p].pc = "recheck" /\ job' = [job EXCEPT ![p].pc = "want", ![p].seen = tree[w]]
        /\ UNCHANGED <<deployment, files, holder, locks, ledger, bounded>>
    BY <1>1 DEF Recheck, At
  <2>2. GatewayTypeOK /\ job[p] \in Job  BY DEF IInv, GatewayTypeOK
  <2>3. w \in Worktrees /\ tree[w] \in Tree
    BY <2>2, ExecType DEF Place, Worktrees, GatewayTypeOK
  <2> HIDE DEF w
  <2>4. x \in Job  BY <2>2, <2>3 DEF Job, Steps
  <2>5. job' = [job EXCEPT ![p] = x]  BY <2>1, <2>2
  <2> HIDE DEF x
  <2>6. /\ job' \in [Procs -> Job] /\ job'[p] = x
        /\ \A q \in Procs : q # p => job'[q] = job[q]
    BY <2>2, <2>4, <2>5, JobWritten
  <2>7. x.pc = "want" /\ x.claimed = job[p].claimed /\ x.kept = job[p].kept /\ x.files = job[p].files
    BY <2>2 DEF Job, x
  <2>8. GatewayTypeOK'
    BY <2>1, <2>2, <2>6 DEF GatewayTypeOK, files, locks, ledger, bounded
  <2>9. Work(p)'
    BY <2>1, <2>6, <2>7 DEF IInv, WorkInv, Work, Inspected, Claimed, Fenced, Committed, Matched,
                            Kept, ledger
  <2> QED
    BY <2>1, <2>6, <2>7, <2>8, <2>9, QuietStep DEF HoldsProject, HoldsQueue, Fenced, Claimed
<1> QED  BY <1>1, RefusedStep

LEMMA TakeProjectStep == ASSUME IInv, NEW p \in Procs, TakeProject(p) PROVE IInv'
<1>1. /\ job[p].pc = "want" /\ project = None /\ project' = p /\ Goto(p, "queue")
      /\ UNCHANGED <<deployment, files, holder, queue, ledger, bounded>>
  BY DEF TakeProject, At
<1>2. GatewayTypeOK  BY DEF IInv
<1>3. /\ job' \in [Procs -> Job] /\ job'[p].pc = "queue"
      /\ job'[p].claimed = job[p].claimed /\ job'[p].kept = job[p].kept
      /\ job'[p].files = job[p].files
      /\ \A q \in Procs : q # p => job'[q] = job[q]
  BY <1>1, <1>2, Moved DEF Steps
<1>4. GatewayTypeOK'  BY <1>1, <1>2, <1>3 DEF GatewayTypeOK, files, ledger, bounded
<1>5. LockInv'
  BY <1>1, <1>3, GatewayAssumption DEF IInv, LockInv, HoldsProject, HoldsQueue, Fenced
<1>6. FenceInv'
  BY <1>1, <1>3 DEF IInv, FenceInv, FencedIsCurrent, Authoritative, Fenced
<1>7. ClaimInv'
  BY <1>1, <1>3 DEF IInv, ClaimInv, Claimed, Fenced, Exec, ledger
<1>8. WorkInv'
  <2> SUFFICES ASSUME NEW q \in Procs PROVE Work(q)'  BY DEF WorkInv
  <2>1. Work(q)  BY DEF IInv, WorkInv
  <2>2. CASE q = p
    BY <1>1, <1>3, <2>1, <2>2 DEF Work, Inspected, Claimed, Fenced, Committed, Matched, Kept,
                                  ledger
  <2>3. CASE q # p
    BY <1>1, <1>3, <2>1, <2>3, WorkFrame DEF ledger, Work
  <2> QED  BY <2>2, <2>3
<1> QED  BY <1>4, <1>5, <1>6, <1>7, <1>8 DEF IInv

LEMMA TakeQueueStep == ASSUME IInv, NEW p \in Procs, TakeQueue(p) PROVE IInv'
<1>1. /\ job[p].pc = "queue" /\ queue = None /\ queue' = p /\ Goto(p, "fence")
      /\ UNCHANGED <<deployment, files, holder, project, ledger, bounded>>
  BY DEF TakeQueue, At
<1>2. GatewayTypeOK  BY DEF IInv
<1>3. /\ job' \in [Procs -> Job] /\ job'[p].pc = "fence"
      /\ job'[p].claimed = job[p].claimed /\ job'[p].kept = job[p].kept
      /\ job'[p].files = job[p].files
      /\ \A q \in Procs : q # p => job'[q] = job[q]
  BY <1>1, <1>2, Moved DEF Steps, HoldsQueue
<1>4. GatewayTypeOK'  BY <1>1, <1>2, <1>3 DEF GatewayTypeOK, files, ledger, bounded
<1>5. LockInv'
  BY <1>1, <1>3, GatewayAssumption DEF IInv, LockInv, HoldsProject, HoldsQueue, Fenced
<1>6. FenceInv'
  BY <1>1, <1>3 DEF IInv, FenceInv, FencedIsCurrent, Authoritative, Fenced
<1>7. ClaimInv'
  BY <1>1, <1>3 DEF IInv, ClaimInv, Claimed, Fenced, Exec, ledger
<1>8. WorkInv'
  <2> SUFFICES ASSUME NEW q \in Procs PROVE Work(q)'  BY DEF WorkInv
  <2>1. Work(q)  BY DEF IInv, WorkInv
  <2>2. CASE q = p
    BY <1>1, <1>3, <2>1, <2>2 DEF Work, Inspected, Claimed, Fenced, Committed, Matched, Kept,
                                  ledger
  <2>3. CASE q # p
    BY <1>1, <1>3, <2>1, <2>3, WorkFrame DEF ledger, Work
  <2> QED  BY <2>2, <2>3
<1> QED  BY <1>4, <1>5, <1>6, <1>7, <1>8 DEF IInv

\* The two steps that wait for a lock and the one that fails give up alike.
LEMMA LockTimeoutStep == ASSUME IInv, NEW p \in Procs, LockTimeout(p) PROVE IInv'
BY RaisedStep DEF LockTimeout, IInv, GatewayTypeOK, bounded

LEMMA FenceStep == ASSUME IInv, NEW p \in Procs, Fence(p) PROVE IInv'
<1>1. ASSUME NEW s \in {"claim", "commit"}, Authoritative(p), Goto(p, s),
             s = "claim" <=> job[p].pc = "fence", job[p].pc \in {"fence", "refence"},
             UNCHANGED <<deployment, files, holder, locks, ledger, bounded>>
      PROVE  IInv'
  <2>1. GatewayTypeOK  BY DEF IInv
  <2>2. /\ job' \in [Procs -> Job] /\ job'[p].pc = s
        /\ job'[p].claimed = job[p].claimed /\ job'[p].kept = job[p].kept
        /\ job'[p].files = job[p].files
        /\ \A q \in Procs : q # p => job'[q] = job[q]
    BY <1>1, <2>1, Moved DEF Steps, HoldsQueue, Fenced
  <2>3. GatewayTypeOK'
    BY <1>1, <2>1, <2>2 DEF GatewayTypeOK, files, locks, ledger, bounded
  <2>4. Work(p)'
    BY <1>1, <2>2 DEF IInv, WorkInv, Work, Inspected, Claimed, Fenced, Committed, Matched, Kept,
                      ledger
  <2> QED
    BY <1>1, <2>2, <2>3, <2>4, QuietStep DEF HoldsProject, HoldsQueue, Fenced, Claimed
<1>2. CASE Authoritative(p)
  BY <1>1, <1>2 DEF Fence, At
<1> QED  BY <1>2, RefusedStep DEF Fence

LEMMA ClaimStep == ASSUME IInv, NEW p \in Procs, Claim(p) PROVE IInv'
<1>1. CASE ~claim[Exec(p)]
  <2> DEFINE x == [job[p] EXCEPT !.pc = "refence", !.claimed = TRUE]
  <2>1. /\ job[p].pc = "claim" /\ claim' = [claim EXCEPT ![Exec(p)] = TRUE]
        /\ job' = [job EXCEPT ![p].pc = "refence", ![p].claimed = TRUE]
        /\ UNCHANGED <<deployment, files, holder, locks, evidence, made, accepted, bounded>>
    BY <1>1 DEF Claim, At
  <2>2. GatewayTypeOK /\ job[p] \in Job /\ Exec(p) \in Execs
    BY ExecType DEF IInv, GatewayTypeOK
  <2>3. x \in Job  BY <2>2 DEF Job, Steps, HoldsQueue, Fenced
  <2>4. job' = [job EXCEPT ![p] = x]  BY <2>1, <2>2
  <2>5. /\ x.pc = "refence" /\ x.claimed = TRUE /\ x.kept = job[p].kept
        /\ x.files = job[p].files
    BY <2>2 DEF Job
  <2> HIDE DEF x
  <2>6. /\ job' \in [Procs -> Job] /\ job'[p] = x
        /\ \A q \in Procs : q # p => job'[q] = job[q]
    BY <2>2, <2>3, <2>4, JobWritten
  <2>7. GatewayTypeOK'
    BY <2>1, <2>2, <2>6 DEF GatewayTypeOK, files, locks, bounded
  <2>8. LockInv'
    BY <2>1, <2>5, <2>6 DEF IInv, LockInv, HoldsProject, HoldsQueue, Fenced, locks
  <2>9. FenceInv'
    BY <2>1, <2>5, <2>6 DEF IInv, FenceInv, FencedIsCurrent, Authoritative, Fenced
  <2>10. ClaimInv'
    <3>1. \A q \in Procs : job[q].claimed => Exec(q) # Exec(p)
      BY <1>1 DEF IInv, ClaimInv
    <3>2. accepted[Exec(p)] = 0  BY <1>1, <2>2 DEF IInv, ClaimInv
    <3>3. \A e \in Execs : claim'[e] = (claim[e] \/ e = Exec(p))
      BY <2>1, <2>2 DEF GatewayTypeOK
    <3>4. \A q \in Procs : /\ Exec(q)' = Exec(q) /\ Exec(q) \in Execs
      BY <2>1, <2>2, ExecType DEF Exec
    <3>5. /\ \A e \in Execs : accepted'[e] \in {0, 1} /\ (accepted'[e] = 1 => claim'[e])
      BY <2>1, <3>3 DEF IInv, ClaimInv
    <3>6. \A q \in Procs : job'[q].pc \in Claimed => job'[q].claimed
      BY <2>1, <2>5, <2>6 DEF IInv, ClaimInv
    <3>7. \A q \in Procs : job'[q].claimed => claim'[Exec(q)] /\ accepted'[Exec(q)] = 0
      BY <2>1, <2>6, <3>2, <3>3, <3>4 DEF IInv, ClaimInv
    <3>8. \A q, r \in Procs : job'[q].claimed /\ job'[r].claimed /\ Exec(q) = Exec(r) => q = r
      BY <2>6, <3>1 DEF IInv, ClaimInv
    <3> QED  BY <3>4, <3>5, <3>6, <3>7, <3>8 DEF ClaimInv
  <2>11. WorkInv'
    <3> SUFFICES ASSUME NEW q \in Procs PROVE Work(q)'  BY DEF WorkInv
    <3>1. Work(q)  BY DEF IInv, WorkInv
    <3>2. CASE q = p
      BY <2>1, <2>5, <2>6, <3>1, <3>2 DEF Work, Inspected, Claimed, Fenced, Committed, Matched, Kept
    <3>3. CASE q # p
      BY <2>1, <2>6, <3>1, <3>3, WorkFrame DEF Work
    <3> QED  BY <3>2, <3>3
  <2> QED  BY <2>7, <2>8, <2>9, <2>10, <2>11 DEF IInv
<1> QED  BY <1>1, RefusedStep DEF Claim

LEMMA CommitCandidateStep == ASSUME IInv, NEW p \in Procs, CommitCandidate(p) PROVE IInv'
<1>1. PICK extra \in SUBSET {q \in Paths : tree[Place(p)][q] # head[Place(p)][q]} :
        LET staged == job[p].files \cup extra
            sha == [q \in Paths |-> IF q \in staged THEN tree[Place(p)][q] ELSE head[Place(p)][q]]
        IN /\ head' = [head EXCEPT ![Place(p)] = sha]
           /\ made' = made \cup {[exec |-> Exec(p), content |-> sha]}
           /\ job' = [job EXCEPT ![p].pc = "match", ![p].sha = sha]
  BY DEF CommitCandidate
<1> DEFINE sha == [q \in Paths |-> IF q \in job[p].files \cup extra THEN tree[Place(p)][q]
                                                                   ELSE head[Place(p)][q]]
           x == [job[p] EXCEPT !.pc = "match", !.sha = sha]
<1>2. /\ job[p].pc = "commit"
      /\ head' = [head EXCEPT ![Place(p)] = sha]
      /\ made' = made \cup {[exec |-> Exec(p), content |-> sha]}
      /\ job' = [job EXCEPT ![p].pc = "match", ![p].sha = sha]
      /\ UNCHANGED <<deployment, tree, worktree, marker, holder, locks, claim, evidence, accepted,
                     bounded>>
  BY <1>1 DEF CommitCandidate, At
<1>3. GatewayTypeOK /\ job[p] \in Job /\ Exec(p) \in Execs /\ Place(p) \in Worktrees
  BY ExecType DEF IInv, GatewayTypeOK, Place, Worktrees
<1>4. tree[Place(p)] \in Tree /\ head[Place(p)] \in Tree  BY <1>3 DEF GatewayTypeOK
<1>5. sha \in Tree  BY <1>4 DEF Tree
<1> HIDE DEF sha
<1>6. x \in Job  BY <1>3, <1>5 DEF Job, Steps, HoldsQueue, Fenced
<1>7. job' = [job EXCEPT ![p] = x]  BY <1>2, <1>3
<1>8. /\ x.pc = "match" /\ x.sha = sha /\ x.claimed = job[p].claimed /\ x.kept = job[p].kept
      /\ x.files = job[p].files
  BY <1>3 DEF Job
<1> HIDE DEF x
<1>9. /\ job' \in [Procs -> Job] /\ job'[p] = x
      /\ \A q \in Procs : q # p => job'[q] = job[q]
  BY <1>3, <1>6, <1>7, JobWritten
<1>10. GatewayTypeOK'
  <2>1. made' \subseteq Commit  BY <1>2, <1>3, <1>5 DEF GatewayTypeOK, Commit
  <2>2. head' \in [Worktrees -> Tree]  BY <1>2, <1>3, <1>5 DEF GatewayTypeOK
  <2> QED  BY <1>2, <1>3, <1>9, <2>1, <2>2 DEF GatewayTypeOK, locks, bounded
<1>11. LockInv'
  BY <1>2, <1>8, <1>9 DEF IInv, LockInv, HoldsProject, HoldsQueue, Fenced, locks
<1>12. FenceInv'
  BY <1>2, <1>8, <1>9 DEF IInv, FenceInv, FencedIsCurrent, Authoritative, Fenced
<1>13. ClaimInv'
  BY <1>2, <1>8, <1>9 DEF IInv, ClaimInv, Claimed, Fenced, Exec
<1>14. WorkInv'
  <2> SUFFICES ASSUME NEW q \in Procs PROVE Work(q)'  BY DEF WorkInv
  <2>1. Work(q)  BY DEF IInv, WorkInv
  <2>2. CASE q = p
    <3>1. Exec(p)' = Exec(p) /\ [exec |-> Exec(p), content |-> sha] \in made'
      BY <1>2 DEF Exec
    <3> QED
      BY <1>2, <1>8, <1>9, <2>1, <2>2, <3>1 DEF Work, Inspected, Claimed, Fenced, Committed, Matched,
                                                Kept
  <2>3. CASE q # p
    BY <1>2, <1>9, <2>1, <2>3, WorkFrame DEF Work
  <2> QED  BY <2>2, <2>3
<1> QED  BY <1>10, <1>11, <1>12, <1>13, <1>14 DEF IInv

LEMMA MatchCommitStep == ASSUME IInv, NEW p \in Procs, MatchCommit(p) PROVE IInv'
<1>1. ASSUME ~Refused(p) PROVE IInv'
  <2>1. /\ job[p].pc = "match" /\ Goto(p, "persist")
        /\ {q \in Paths : job[p].sha[q] # job[p].base[q]} = job[p].files
        /\ UNCHANGED <<deployment, files, holder, locks, ledger, bounded>>
    BY <1>1 DEF MatchCommit, At
  <2>2. GatewayTypeOK /\ Work(p)  BY DEF IInv, WorkInv
  <2>3. /\ job' \in [Procs -> Job] /\ job'[p].pc = "persist" /\ job'[p].base = job[p].base
        /\ job'[p].claimed = job[p].claimed /\ job'[p].kept = job[p].kept
        /\ job'[p].files = job[p].files /\ job'[p].sha = job[p].sha
        /\ \A q \in Procs : q # p => job'[q] = job[q]
    BY <2>1, <2>2, Moved DEF Steps, HoldsQueue, Fenced
  <2>4. GatewayTypeOK'
    BY <2>1, <2>2, <2>3 DEF GatewayTypeOK, files, locks, ledger, bounded
  <2>5. Work(p)'
    BY <2>1, <2>2, <2>3 DEF Work, Inspected, Claimed, Fenced, Committed, Matched, Kept, Exec,
                            ledger
  <2> QED
    BY <2>1, <2>3, <2>4, <2>5, QuietStep DEF HoldsProject, HoldsQueue, Fenced, Claimed
<1> QED  BY <1>1, RefusedStep

LEMMA PersistStep == ASSUME IInv, NEW p \in Procs, Persist(p) PROVE IInv'
<1>1. /\ job[p].pc = "persist"
      /\ UNCHANGED <<deployment, files, holder, locks, claim, made, accepted, bounded>>
  BY DEF Persist, At
<1>2. GatewayTypeOK /\ Work(p) /\ job[p] \in Job /\ Exec(p) \in Execs
  BY ExecType DEF IInv, WorkInv, GatewayTypeOK
<1>3. Manifests(p) \subseteq Manifest
  <2>1. job[p].declared \subseteq Paths /\ job[p].seen \in Tree  BY <1>2 DEF Job
  <2> QED  BY <1>2, <2>1 DEF Manifests, Manifest, Tree
\* The last manifest has been written.
<1>4. CASE Manifests(p) \subseteq job[p].kept
  <2>1. Goto(p, "promote") /\ UNCHANGED evidence  BY <1>4 DEF Persist
  <2>2. /\ job' \in [Procs -> Job] /\ job'[p].pc = "promote" /\ job'[p].base = job[p].base
        /\ job'[p].claimed = job[p].claimed /\ job'[p].kept = job[p].kept
        /\ job'[p].files = job[p].files /\ job'[p].sha = job[p].sha
        /\ job'[p].declared = job[p].declared /\ job'[p].seen = job[p].seen
        /\ \A q \in Procs : q # p => job'[q] = job[q]
    BY <1>2, <2>1, Moved DEF Steps, HoldsQueue, Fenced
  <2>3. GatewayTypeOK'
    BY <1>1, <1>2, <2>1, <2>2 DEF GatewayTypeOK, files, locks, bounded
  <2>4. Manifests(p)' = Manifests(p)  BY <1>1, <2>2 DEF Manifests, Exec
  <2>5. Work(p)'
    BY <1>1, <1>2, <1>4, <2>1, <2>2, <2>4 DEF Work, Inspected, Claimed, Fenced, Committed, Matched,
                                              Kept, Exec
  <2> QED
    BY <1>1, <2>1, <2>2, <2>3, <2>5, QuietStep
       DEF HoldsProject, HoldsQueue, Fenced, Claimed, ledger
\* One more is written.
<1>5. ASSUME NEW m \in Manifests(p), evidence' = evidence \cup {m},
             job' = [job EXCEPT ![p].kept = @ \cup {m}]
      PROVE  IInv'
  <2> DEFINE x == [job[p] EXCEPT !.kept = job[p].kept \cup {m}]
  <2>1. m \in Manifest /\ m.by = p  BY <1>3 DEF Manifests
  <2>2. x \in Job  BY <1>2, <2>1 DEF Job
  <2>3. job' = [job EXCEPT ![p] = x]  BY <1>2, <1>5
  <2>4. /\ x.pc = "persist" /\ x.sha = job[p].sha /\ x.claimed = job[p].claimed
        /\ x.files = job[p].files /\ x.base = job[p].base /\ x.kept = job[p].kept \cup {m}
    BY <1>1, <1>2 DEF Job
  <2> HIDE DEF x
  <2>5. /\ job' \in [Procs -> Job] /\ job'[p] = x
        /\ \A q \in Procs : q # p => job'[q] = job[q]
    BY <1>2, <2>2, <2>3, JobWritten
  <2>6. GatewayTypeOK'
    BY <1>1, <1>2, <1>5, <2>1, <2>5 DEF GatewayTypeOK, files, locks, bounded
  <2>7. LockInv'
    BY <1>1, <2>4, <2>5 DEF IInv, LockInv, HoldsProject, HoldsQueue, Fenced, locks
  <2>8. FenceInv'
    BY <1>1, <2>4, <2>5 DEF IInv, FenceInv, FencedIsCurrent, Authoritative, Fenced
  <2>9. ClaimInv'
    BY <1>1, <2>4, <2>5 DEF IInv, ClaimInv, Claimed, Fenced, Exec
  <2>10. WorkInv'
    <3> SUFFICES ASSUME NEW q \in Procs PROVE Work(q)'  BY DEF WorkInv
    <3>1. Work(q)  BY DEF IInv, WorkInv
    <3>2. CASE q = p
      BY <1>1, <1>5, <2>1, <2>4, <2>5, <3>1, <3>2
         DEF Work, Inspected, Claimed, Fenced, Committed, Matched, Kept, Exec
    <3>3. CASE q # p
      BY <1>1, <1>5, <2>5, <3>1, <3>3, WorkFrame DEF Work
    <3> QED  BY <3>2, <3>3
  <2> QED  BY <2>6, <2>7, <2>8, <2>9, <2>10 DEF IInv
<1> QED  BY <1>4, <1>5 DEF Persist

LEMMA PromoteStep == ASSUME IInv, NEW p \in Procs, Promote(p) PROVE IInv'
<1>1. /\ job[p].pc = "promote" /\ Goto(p, "event") /\ LocksReleased(p)
      /\ UNCHANGED <<deployment, tree, head, worktree, holder, ledger, bounded>>
  BY DEF Promote, At
<1>2. GatewayTypeOK /\ Work(p) /\ Exec(p) \in Execs  BY ExecType DEF IInv, WorkInv
<1>3. /\ job' \in [Procs -> Job] /\ job'[p].pc = "event" /\ job'[p].base = job[p].base
      /\ job'[p].claimed = job[p].claimed /\ job'[p].kept = job[p].kept
      /\ job'[p].files = job[p].files /\ job'[p].sha = job[p].sha
      /\ job'[p].declared = job[p].declared /\ job'[p].seen = job[p].seen
      /\ \A q \in Procs : q # p => job'[q] = job[q]
  BY <1>1, <1>2, Moved DEF Steps
<1>4. GatewayTypeOK'
  <2>1. marker' \in [Execs -> {"none", "open", "promotable", "quarantined"}]
    BY <1>2 DEF Promote, GatewayTypeOK
  <2> QED  BY <1>1, <1>2, <1>3, <2>1, ReleaseType DEF GatewayTypeOK, ledger, bounded
<1>5. LockInv'
  BY <1>1, <1>3, ReleaseKeeps DEF LockInv, HoldsProject, HoldsQueue, Fenced
<1>6. FenceInv'
  BY <1>1, <1>3 DEF IInv, FenceInv, FencedIsCurrent, Authoritative, Fenced
<1>7. ClaimInv'
  BY <1>1, <1>3 DEF IInv, ClaimInv, Claimed, Fenced, Exec, ledger
<1>8. WorkInv'
  <2> SUFFICES ASSUME NEW q \in Procs PROVE Work(q)'  BY DEF WorkInv
  <2>1. CASE q = p
    <3>1. Manifests(p)' = Manifests(p)  BY <1>1, <1>3 DEF Manifests, Exec
    <3> QED
      BY <1>1, <1>2, <1>3, <2>1, <3>1 DEF Work, Inspected, Claimed, Fenced, Committed, Matched, Kept,
                                          Exec, ledger
  <2>2. CASE q # p
    <3>1. Work(q)  BY DEF IInv, WorkInv
    <3> QED  BY <1>1, <1>3, <2>2, <3>1, WorkFrame DEF ledger, Work
  <2> QED  BY <2>1, <2>2
<1> QED  BY <1>4, <1>5, <1>6, <1>7, <1>8 DEF IInv

\* Only the process that made the claim is at the event: the execution has not been
\* accepted before, and nobody else can accept it after.
LEMMA AcceptStep == ASSUME IInv, NEW p \in Procs, Accept(p) PROVE IInv'
<1>1. /\ job[p].pc = "event" /\ job' = [job EXCEPT ![p] = Idle]
      /\ \/ accepted' = [accepted EXCEPT ![Exec(p)] = @ + 1]
         \/ UNCHANGED accepted
      /\ UNCHANGED <<deployment, files, holder, locks, claim, evidence, made, bounded>>
  BY DEF Accept, At
<1>2. GatewayTypeOK /\ Exec(p) \in Execs  BY ExecType DEF IInv
<1>3. /\ job' \in [Procs -> Job] /\ job'[p] = Idle
      /\ \A q \in Procs : q # p => job'[q] = job[q]
  BY <1>1, <1>2, IdleType, JobWritten
<1>4. job[p].claimed /\ claim[Exec(p)] /\ accepted[Exec(p)] = 0
  BY <1>1 DEF IInv, ClaimInv, Claimed
<1>5. \A e \in Execs : accepted'[e] = accepted[e] \/ (e = Exec(p) /\ accepted'[e] = 1)
  BY <1>1, <1>2, <1>4 DEF GatewayTypeOK
<1>6. GatewayTypeOK'
  <2>1. accepted' \in [Execs -> Nat]  BY <1>1, <1>2 DEF GatewayTypeOK
  <2> QED  BY <1>1, <1>2, <1>3, <2>1 DEF GatewayTypeOK, files, locks, bounded
<1>7. LockInv'
  BY <1>1, <1>3 DEF IInv, LockInv, HoldsProject, HoldsQueue, Fenced, locks, Idle
<1>8. FenceInv'
  BY <1>1, <1>3 DEF IInv, FenceInv, FencedIsCurrent, Authoritative, Fenced, Idle
<1>9. ClaimInv'
  <2>1. \A q \in Procs : Exec(q)' = Exec(q) /\ Exec(q) \in Execs  BY <1>1, <1>2, ExecType DEF Exec
  <2>2. \A q \in Procs : job'[q].claimed => q # p /\ job[q].claimed  BY <1>3 DEF Idle
  <2>3. \A q \in Procs : job'[q].claimed => Exec(q) # Exec(p)
    BY <1>4, <2>2 DEF IInv, ClaimInv
  <2>4. \A q \in Procs : job'[q].pc \in Claimed => job'[q].claimed
    BY <1>3 DEF IInv, ClaimInv, Claimed, Fenced, Idle
  <2>5. \A q \in Procs : job'[q].claimed => claim'[Exec(q)] /\ accepted'[Exec(q)] = 0
    BY <1>1, <1>5, <2>1, <2>2, <2>3 DEF IInv, ClaimInv
  <2>6. \A e \in Execs : accepted'[e] \in {0, 1} /\ (accepted'[e] = 1 => claim'[e])
    BY <1>1, <1>4, <1>5 DEF IInv, ClaimInv
  <2>7. \A q, r \in Procs : job'[q].claimed /\ job'[r].claimed /\ Exec(q) = Exec(r) => q = r
    BY <2>2 DEF IInv, ClaimInv
  <2> QED  BY <2>1, <2>4, <2>5, <2>6, <2>7 DEF ClaimInv
<1>10. WorkInv'
  <2> SUFFICES ASSUME NEW q \in Procs PROVE Work(q)'  BY DEF WorkInv
  <2>1. CASE q = p
    BY <1>1, <1>3, <2>1 DEF Work, Inspected, Claimed, Fenced, Committed, Matched, Kept, Idle
  <2>2. CASE q # p
    <3>1. Work(q)  BY DEF IInv, WorkInv
    <3> QED  BY <1>1, <1>3, <2>2, <3>1, WorkFrame DEF Work
  <2> QED  BY <2>1, <2>2
<1> QED  BY <1>6, <1>7, <1>8, <1>9, <1>10 DEF IInv

\* A rejection removes the claim and the evidence of its own execution only.
LEMMA RejectStep == ASSUME IInv, NEW p \in Procs, Reject(p) PROVE IInv'
<1>1. /\ job[p].pc = "reject" /\ job' = [job EXCEPT ![p] = Idle]
      /\ evidence' = evidence \ job[p].kept
      /\ claim' = [claim EXCEPT ![Exec(p)] = @ /\ ~job[p].claimed]
      /\ UNCHANGED <<deployment, tree, head, holder, locks, made, accepted, bounded>>
  BY DEF Reject, At
<1>2. GatewayTypeOK /\ job[p] \in Job /\ Exec(p) \in Execs
  BY ExecType DEF IInv, GatewayTypeOK
<1>3. /\ job' \in [Procs -> Job] /\ job'[p] = Idle
      /\ \A q \in Procs : q # p => job'[q] = job[q]
  BY <1>1, <1>2, IdleType, JobWritten
<1>4. GatewayTypeOK'
  <2>1. /\ worktree' \in [Execs -> {"none", "live", "missing"}]
        /\ marker' \in [Execs -> {"none", "open", "promotable", "quarantined"}]
    BY <1>2 DEF Reject, GatewayTypeOK
  <2>2. claim' \in [Execs -> BOOLEAN]  BY <1>1, <1>2 DEF GatewayTypeOK
  <2>3. evidence' \subseteq Manifest  BY <1>1, <1>2 DEF GatewayTypeOK
  <2> QED  BY <1>1, <1>2, <1>3, <2>1, <2>2, <2>3 DEF GatewayTypeOK, locks, bounded
<1>5. LockInv'
  BY <1>1, <1>3 DEF IInv, LockInv, HoldsProject, HoldsQueue, Fenced, locks, Idle
<1>6. FenceInv'
  BY <1>1, <1>3 DEF IInv, FenceInv, FencedIsCurrent, Authoritative, Fenced, Idle
<1>7. ClaimInv'
  <2>1. \A q \in Procs : Exec(q)' = Exec(q) /\ Exec(q) \in Execs  BY <1>1, <1>2, ExecType DEF Exec
  <2>2. \A q \in Procs : job'[q].claimed => q # p /\ job[q].claimed  BY <1>3 DEF Idle
  <2>3. \A e \in Execs : claim[e] => claim'[e] \/ (e = Exec(p) /\ job[p].claimed)
    BY <1>1, <1>2 DEF GatewayTypeOK
  <2>4. \A q \in Procs : job'[q].pc \in Claimed => job'[q].claimed
    BY <1>3 DEF IInv, ClaimInv, Claimed, Fenced, Idle
  <2>5. \A q \in Procs : job'[q].claimed => claim'[Exec(q)] /\ accepted'[Exec(q)] = 0
    BY <1>1, <2>1, <2>2, <2>3 DEF IInv, ClaimInv
  <2>6. \A e \in Execs : accepted'[e] \in {0, 1} /\ (accepted'[e] = 1 => claim'[e])
    BY <1>1, <2>3 DEF IInv, ClaimInv
  <2>7. \A q, r \in Procs : job'[q].claimed /\ job'[r].claimed /\ Exec(q) = Exec(r) => q = r
    BY <2>2 DEF IInv, ClaimInv
  <2> QED  BY <2>1, <2>4, <2>5, <2>6, <2>7 DEF ClaimInv
<1>8. WorkInv'
  <2> SUFFICES ASSUME NEW q \in Procs PROVE Work(q)'  BY DEF WorkInv
  <2>1. CASE q = p
    BY <1>1, <1>3, <2>1 DEF Work, Inspected, Claimed, Fenced, Committed, Matched, Kept, Idle
  <2>2. CASE q # p
    <3>1. Work(q) /\ Work(p)  BY DEF IInv, WorkInv
    <3>2. job[q].kept \subseteq evidence'  BY <1>1, <2>2, <3>1 DEF Work
    <3> QED  BY <1>1, <1>3, <2>2, <3>1, <3>2, WorkFrame
  <2> QED  BY <2>1, <2>2
<1> QED  BY <1>4, <1>5, <1>6, <1>7, <1>8 DEF IInv

LEMMA WriteStep == ASSUME IInv, NEW w \in Worktrees, Write(w) PROVE IInv'
<1>1. /\ writes' = writes + 1
      /\ UNCHANGED <<deployment, head, worktree, marker, holder, locks, ledger, job, starts, faults>>
  BY DEF Write
<1>2. tree' \in [Worktrees -> Tree]
  <2>1. PICK q \in Paths, c \in Contents : tree' = [tree EXCEPT ![w][q] = c]  BY DEF Write
  <2>2. tree \in [Worktrees -> Tree]  BY DEF IInv, GatewayTypeOK
  <2>3. [tree[w] EXCEPT ![q] = c] \in Tree  BY <2>2 DEF Tree
  <2> QED  BY <2>1, <2>2, <2>3
<1>3. GatewayTypeOK'  BY <1>1, <1>2 DEF IInv, GatewayTypeOK, locks, ledger
<1>4. LockInv'  BY <1>1 DEF IInv, LockInv, locks
<1>5. FenceInv'  BY <1>1 DEF IInv, FenceInv, FencedIsCurrent, Authoritative
<1>6. ClaimInv'  BY <1>1 DEF IInv, ClaimInv, Exec, ledger
<1>7. WorkInv'  BY <1>1 DEF IInv, WorkInv, Work, Manifests, Exec, ledger
<1> QED  BY <1>3, <1>4, <1>5, <1>6, <1>7 DEF IInv

LEMMA AgentCommitsStep == ASSUME IInv, NEW p \in Procs, AgentCommits(p) PROVE IInv'
<1>1. /\ head' = [head EXCEPT ![Place(p)] = tree[Place(p)]]
      /\ UNCHANGED <<deployment, tree, worktree, marker, holder, locks, ledger, job, bounded>>
  BY DEF AgentCommits
<1>2. head' \in [Worktrees -> Tree]
  <2>1. Place(p) \in Worktrees  BY ExecType DEF IInv, Place, Worktrees
  <2> QED  BY <1>1, <2>1 DEF IInv, GatewayTypeOK
<1>3. GatewayTypeOK'  BY <1>1, <1>2 DEF IInv, GatewayTypeOK, locks, ledger, bounded
<1>4. LockInv'  BY <1>1 DEF IInv, LockInv, locks
<1>5. FenceInv'  BY <1>1 DEF IInv, FenceInv, FencedIsCurrent, Authoritative
<1>6. ClaimInv'  BY <1>1 DEF IInv, ClaimInv, Exec, ledger
<1>7. WorkInv'  BY <1>1 DEF IInv, WorkInv, Work, Manifests, Exec, ledger
<1> QED  BY <1>3, <1>4, <1>5, <1>6, <1>7 DEF IInv

LEMMA InputOutputErrorStep == ASSUME IInv, NEW p \in Procs, InputOutputError(p) PROVE IInv'
BY RaisedStep DEF InputOutputError, IInv, GatewayTypeOK

LEMMA CrashStep == ASSUME IInv, NEW p \in Procs, Crash(p) PROVE IInv'
<1>1. /\ faults' = faults + 1 /\ job' = [job EXCEPT ![p] = Idle]
      /\ project' = IF project = p THEN Orphan ELSE project
      /\ queue' = IF queue = p THEN Orphan ELSE queue
      /\ UNCHANGED <<deployment, files, holder, ledger, writes, starts>>
  BY DEF Crash
<1>2. GatewayTypeOK  BY DEF IInv
<1>3. /\ job' \in [Procs -> Job] /\ job'[p] = Idle
      /\ \A q \in Procs : q # p => job'[q] = job[q]
  BY <1>1, <1>2, IdleType, JobWritten
<1>4. GatewayTypeOK'  BY <1>1, <1>2, <1>3 DEF GatewayTypeOK, files, ledger
<1>5. LockInv'
  BY <1>1, <1>3 DEF IInv, LockInv, HoldsProject, HoldsQueue, Fenced, Idle
<1>6. FenceInv'
  BY <1>1, <1>3 DEF IInv, FenceInv, FencedIsCurrent, Authoritative, Fenced, Idle
<1>7. ClaimInv'
  BY <1>1, <1>3 DEF IInv, ClaimInv, Claimed, Fenced, Exec, ledger, Idle
<1>8. WorkInv'
  <2> SUFFICES ASSUME NEW q \in Procs PROVE Work(q)'  BY DEF WorkInv
  <2>1. CASE q = p
    BY <1>1, <1>3, <2>1 DEF Work, Inspected, Claimed, Fenced, Committed, Matched, Kept, Idle
  <2>2. CASE q # p
    <3>1. Work(q)  BY DEF IInv, WorkInv
    <3> QED  BY <1>1, <1>3, <2>2, <3>1, WorkFrame DEF ledger, Work
  <2> QED  BY <2>1, <2>2
<1> QED  BY <1>4, <1>5, <1>6, <1>7, <1>8 DEF IInv

\* Those who hold the locks otherwise: a lease ends or begins only when nobody is
\* between its fence and the release of its locks.
LEMMA FreeLock ==
  ASSUME IInv, LeaseLock = None, SlowPromotions = FALSE \/ deployment.kind = "worker"
  PROVE  \A p \in Procs : job[p].pc \notin Fenced
BY GatewayAssumption DEF IInv, LockInv, LeaseLock, HoldsProject, HoldsQueue

LEMMA OthersStep ==
  ASSUME IInv, UNCHANGED <<deployment, files, ledger, job, bounded>>, GatewayTypeOK', LockInv',
         FenceInv'
  PROVE  IInv'
<1>1. ClaimInv'  BY DEF IInv, ClaimInv, Exec, ledger
<1>2. WorkInv'  BY DEF IInv, WorkInv, Work, Manifests, Exec, ledger
<1> QED  BY <1>1, <1>2 DEF IInv

LEMMA LeaseStep ==
  ASSUME IInv, LeaseLock = None, holder' \in Procs \cup {None},
         UNCHANGED <<deployment, files, locks, ledger, job, bounded>>
  PROVE  IInv'
<1>1. GatewayTypeOK'  BY DEF IInv, GatewayTypeOK, files, locks, ledger, bounded
<1>2. LockInv'  BY DEF IInv, LockInv, locks
<1>3. FenceInv'  BY FreeLock DEF FenceInv, FencedIsCurrent
<1> QED  BY <1>1, <1>2, <1>3, OthersStep

LEMMA RemoveProjectLockStep == ASSUME IInv, RemoveProjectLock PROVE IInv'
<1>1. /\ project = Orphan /\ project' = None
      /\ UNCHANGED <<deployment, files, holder, queue, ledger, job, bounded>>
  BY DEF RemoveProjectLock
<1>2. GatewayTypeOK'  BY <1>1 DEF IInv, GatewayTypeOK, files, ledger, bounded
<1>3. LockInv'  BY <1>1, GatewayAssumption DEF IInv, LockInv
<1>4. FenceInv'  BY <1>1 DEF IInv, FenceInv, FencedIsCurrent, Authoritative
<1> QED  BY <1>1, <1>2, <1>3, <1>4, OthersStep

LEMMA BreakQueueLockStep == ASSUME IInv, BreakQueueLock PROVE IInv'
<1>1. /\ queue = Orphan \/ SlowPromotions
      /\ queue' = None
      /\ UNCHANGED <<deployment, files, holder, project, ledger, job, bounded>>
  BY DEF BreakQueueLock
<1>2. GatewayTypeOK'  BY DEF BreakQueueLock, IInv, GatewayTypeOK, files, ledger, bounded
<1>3. LockInv'  BY <1>1, GatewayAssumption DEF IInv, LockInv
<1>4. FenceInv'  BY <1>1 DEF IInv, FenceInv, FencedIsCurrent, Authoritative
<1> QED  BY <1>1, <1>2, <1>3, <1>4, OthersStep

-----------------------------------------------------------------------------
(* The invariant is inductive *)

LEMMA InitIInv == ASSUME Init PROVE IInv
<1>1. Blank \in Tree  BY GatewayAssumption DEF Blank, Tree, Contents
<1>2. GatewayTypeOK  BY <1>1, IdleType, GatewayAssumption DEF Init, GatewayTypeOK
<1>3. LockInv  BY DEF Init, LockInv, HoldsProject, HoldsQueue, Fenced, Idle
<1>4. FenceInv  BY DEF Init, FenceInv, FencedIsCurrent, Fenced, Idle
<1>5. ClaimInv
  <2>1. \A q \in Procs : job[q] = Idle  BY DEF Init
  <2> QED  BY <2>1 DEF Init, ClaimInv, Claimed, Fenced, Idle
<1>6. WorkInv
  <2>1. \A q \in Procs : job[q] = Idle  BY DEF Init
  <2> QED  BY <2>1 DEF WorkInv, Work, Inspected, Claimed, Fenced, Committed, Matched, Kept, Idle
<1> QED  BY <1>2, <1>3, <1>4, <1>5, <1>6 DEF IInv

LEMMA NextStep == ASSUME IInv, [Next]_vars PROVE IInv'
<1>1. ASSUME NEW p \in Procs, Execute(p) PROVE IInv'
  BY <1>1, AgentReturnsStep, CaptureStep, RecheckStep, TakeProjectStep, TakeQueueStep,
     LockTimeoutStep, FenceStep, ClaimStep, CommitCandidateStep, MatchCommitStep, PersistStep,
     PromoteStep, AcceptStep, RejectStep DEF Execute
<1>2. ASSUME NEW p \in Procs, GiveLease(p) PROVE IInv'
  BY <1>2, LeaseStep DEF GiveLease
<1>3. ASSUME EndLease PROVE IInv'
  BY <1>3, LeaseStep DEF EndLease
<1>4. CASE UNCHANGED vars
  <2>1. UNCHANGED <<deployment, files, locks, ledger, job, bounded>> /\ holder' = holder
    BY <1>4 DEF vars
  <2>2. GatewayTypeOK'  BY <2>1 DEF IInv, GatewayTypeOK, files, locks, ledger, bounded
  <2>3. LockInv'  BY <2>1 DEF IInv, LockInv, locks
  <2>4. FenceInv'  BY <2>1 DEF IInv, FenceInv, FencedIsCurrent, Authoritative
  <2> QED  BY <2>1, <2>2, <2>3, <2>4, OthersStep
<1>5. CASE Next
  BY <1>1, <1>2, <1>3, <1>5, StartStep, AgentCommitsStep, InputOutputErrorStep, CrashStep,
     WriteStep, RemoveProjectLockStep, BreakQueueLockStep DEF Next
<1> QED  BY <1>4, <1>5

THEOREM Inductive == Spec => []IInv
BY InitIInv, NextStep, PTL DEF Spec

-----------------------------------------------------------------------------
(* The theorems *)

\* The files, the locks and the state of every call stay what the code keeps them as.
THEOREM TypeCorrect == Spec => []GatewayTypeOK
<1>1. IInv => GatewayTypeOK  BY DEF IInv
<1> QED  BY <1>1, Inductive, PTL

\* Unless queue.lock can be broken under a slow promotion that a queue lease fences,
\* a promotion works under the lease that is current from its first fence to the
\* release of its locks (gateway.py:687-737).
THEOREM FencedPromotionIsCurrent ==
  Spec => [](SlowPromotions = FALSE \/ deployment.kind = "worker" => FencedIsCurrent)
<1>1. IInv => (SlowPromotions = FALSE \/ deployment.kind = "worker" => FencedIsCurrent)
  BY DEF IInv, FenceInv
<1> QED  BY <1>1, Inductive, PTL

\* An execution id is accepted at most once, whatever fails, and even when queue.lock
\* is broken: the claim alone decides (cas_promote_guard).
THEOREM AcceptedAtMostOnce == Spec => []AcceptedOnce
<1>1. IInv => AcceptedOnce  BY DEF IInv, ClaimInv, AcceptedOnce
<1> QED  BY <1>1, Inductive, PTL

\* What is accepted was committed with the inspected paths and no other, in scope, and
\* its evidence is kept.
LEMMA AcceptStepIsInspected ==
  ASSUME IInv, Next, NEW p \in Procs, accepted'[Exec(p)] # accepted[Exec(p)], job'[p] # job[p]
  PROVE  /\ [exec |-> Exec(p), content |-> job[p].sha] \in made
         /\ {q \in Paths : job[p].sha[q] # job[p].base[q]} = job[p].files
         /\ job[p].files \subseteq Scoped
         /\ Manifests(p) \subseteq evidence
<1>1. PICK q \in Procs : Accept(q)
  <2>1. accepted' # accepted  OBVIOUS
  <2>2. \A q \in Procs : ~Refused(q) /\ ~Raised(q)  BY <2>1 DEF Refused, Raised, ledger
  <2>3. \A q \in Procs : Execute(q) => Accept(q)
    BY <2>1, <2>2 DEF Execute, AgentReturns, Capture, Recheck, TakeProject, TakeQueue, LockTimeout,
                      Fence, Claim, CommitCandidate, MatchCommit, Persist, Promote, Reject, ledger
  <2>4. \A q \in Procs : ~(\/ Start(q) \/ AgentCommits(q) \/ InputOutputError(q) \/ Crash(q)
                          \/ GiveLease(q))
    BY <2>1, <2>2 DEF Start, AgentCommits, InputOutputError, Crash, GiveLease, ledger
  <2>5. ~(\/ \E w \in Worktrees : Write(w)
          \/ EndLease \/ BreakQueueLock \/ RemoveProjectLock)
    BY <2>1 DEF Write, EndLease, BreakQueueLock, RemoveProjectLock, ledger
  <2> QED  BY <2>3, <2>4, <2>5 DEF Next
<1>2. q = p  BY <1>1, IdleType, JobWritten DEF Accept, IInv
<1>3. job[p].pc = "event" /\ Work(p)  BY <1>1, <1>2 DEF Accept, At, IInv, WorkInv
<1> QED  BY <1>3 DEF Work, Inspected, Claimed, Committed, Matched, Kept

THEOREM AcceptedWasInspected == Spec => AcceptedIsInspected
<1>1. ASSUME IInv, [Next]_vars
      PROVE  [\A p \in Procs : accepted'[Exec(p)] # accepted[Exec(p)] /\ job'[p] # job[p] =>
                LET j == job[p] IN
                /\ [exec |-> Exec(p), content |-> j.sha] \in made
                /\ {q \in Paths : j.sha[q] # j.base[q]} = j.files
                /\ j.files \subseteq Scoped
                /\ Manifests(p) \subseteq evidence]_vars
  BY <1>1, AcceptStepIsInspected
<1> QED  BY <1>1, Inductive, PTL DEF Spec, AcceptedIsInspected
=============================================================================
