--------------------------- MODULE ExecutionGateway ---------------------------
(***************************************************************************)
(* AgentExecutionGateway.execute: an agent writes in a git worktree, the   *)
(* gateway inspects what it did, verifies it, inspects it again, and under *)
(* the project and the queue lock fences the lease, claims the execution,  *)
(* commits, compares the commit and keeps evidence.                        *)
(*                                                                         *)
(* A worktree maps paths to contents; a commit is such a map.  Processes   *)
(* interleave at the reads and writes of the worktree, of the lock files   *)
(* and of the claim; what the agent left running, a commit hook and the    *)
(* verification commands may write at any time.  Leases are ended and      *)
(* given by others, under the lock that guards them.                       *)
(*                                                                         *)
(* Abstracted: the refusals compile_request makes before the agent runs,   *)
(* which change nothing; which field of a result is wrong; build output    *)
(* and ignored paths; a lease id, its epoch and its owner are the process  *)
(* that holds it.  A command writes the document of a lease before the Run *)
(* that points at it (release, acquire), so the two reads of the fence     *)
(* agree whenever no command holds the lock.                               *)
(***************************************************************************)
EXTENDS Naturals, FiniteSets

CONSTANTS
  Procs,           \* processes that call execute
  Execs,           \* execution ids
  Paths,           \* paths of a worktree
  Scoped,          \* the paths the Work Unit and the grant allow
  Control,         \* Control Plane paths
  Deployments,     \* what a run covers: kind of worktree, kind of lease, ids
  SlowPromotions,  \* a promotion may outlast the age at which queue.lock is broken
  MaxContent,      \* bound: contents of a path
  MaxWrites,       \* bound: writes in all worktrees
  MaxStarts,       \* bound: calls of execute
  MaxFaults,       \* bound: crashes and I/O errors
  Shared,          \* the worktree of the Work Unit
  None, Orphan

ASSUME GatewayAssumption ==
  /\ Scoped \subseteq Paths \ Control /\ Control \subseteq Paths
  /\ Deployments \subseteq
       [ephemeral : BOOLEAN, kind : {"worker", "queue"}, exec : [Procs -> Execs]]
  /\ SlowPromotions \in BOOLEAN
  /\ MaxContent \in Nat /\ MaxWrites \in Nat /\ MaxStarts \in Nat /\ MaxFaults \in Nat
  /\ Shared \notin Execs /\ None \notin Procs /\ Orphan \notin Procs \cup {None}

VARIABLES
  deployment,      \* the deployment of this behaviour
  tree, head,      \* the files of each worktree, and those of its HEAD
  worktree,        \* worktree[x]: the ephemeral worktree of execution x
  marker,          \* marker[x]: its metadata, kept by the Control Plane
  holder,          \* the process whose lease of the Work Unit is active
  project, queue,  \* whose project.lock and queue.lock are
  claim,           \* claim[x]: there is a promotion claim for execution x
  evidence,        \* the durable evidence manifests
  job,             \* job[p]: the state of p's execute
  made,            \* the commits the gateway made
  accepted,        \* accepted[x]: how often x was accepted
  writes, starts, faults

files   == <<tree, head, worktree, marker>>
locks   == <<project, queue>>
ledger  == <<claim, evidence, made, accepted>>
bounded == <<writes, starts, faults>>
vars == <<deployment, files, holder, locks, ledger, job, bounded>>

-----------------------------------------------------------------------------
(* Types *)

Contents == 0 .. MaxContent
Tree == [Paths -> Contents]
Worktrees == Execs \cup {Shared}
Blank == [q \in Paths |-> 0]
Manifest == [by : Procs, exec : Execs, path : Paths, content : Contents]
Commit == [exec : Execs, content : Tree]

Idle == [pc |-> "idle", base |-> Blank, seen |-> Blank, files |-> {}, declared |-> {},
         sha |-> Blank, claimed |-> FALSE, kept |-> {}]

\* The steps of execute after the agent, in the order of the code.
Inspecting == {"capture", "recheck"}
Fenced == {"claim", "refence", "commit", "match", "persist", "promote"}
HoldsQueue == Fenced \cup {"fence"}
Steps == Inspecting \cup HoldsQueue \cup {"agent", "want", "queue", "event", "reject"}

Job == [pc : Steps \cup {"idle"}, base : Tree, seen : Tree, files : SUBSET Paths,
        declared : SUBSET Paths, sha : Tree, claimed : BOOLEAN, kept : SUBSET Manifest]

GatewayTypeOK ==
  /\ deployment \in Deployments
  /\ tree \in [Worktrees -> Tree] /\ head \in [Worktrees -> Tree]
  /\ worktree \in [Execs -> {"none", "live", "missing"}]
  /\ marker \in [Execs -> {"none", "open", "promotable", "quarantined"}]
  /\ holder \in Procs \cup {None}
  /\ project \in Procs \cup {None, Orphan} /\ queue \in Procs \cup {None, Orphan}
  /\ claim \in [Execs -> BOOLEAN]
  /\ evidence \subseteq Manifest /\ made \subseteq Commit
  /\ accepted \in [Execs -> Nat]
  /\ job \in [Procs -> Job]
  /\ writes \in Nat /\ starts \in Nat /\ faults \in Nat

Init ==
  /\ deployment \in Deployments
  /\ tree = [w \in Worktrees |-> Blank] /\ head = tree
  /\ worktree = [x \in Execs |-> "none"] /\ marker = worktree
  /\ holder = None /\ project = None /\ queue = None
  /\ claim = [x \in Execs |-> FALSE] /\ evidence = {} /\ made = {}
  /\ accepted = [x \in Execs |-> 0]
  /\ job = [p \in Procs |-> Idle]
  /\ writes = 0 /\ starts = 0 /\ faults = 0

-----------------------------------------------------------------------------
(* What the gateway reads *)

At(p, pc) == job[p].pc = pc
Exec(p) == deployment.exec[p]
Place(p) == IF deployment.ephemeral THEN Exec(p) ELSE Shared
Present(p) == ~deployment.ephemeral \/ worktree[Exec(p)] = "live"

\* inspect_changed_paths: uncommitted, or committed since the base.
Changed(w, base) ==
  {q \in Paths \ Control : tree[w][q] # head[w][q] \/ head[w][q] # base[q]}

\* assert_no_new_control_plane_paths, against the snapshot taken before the agent.
ControlUntouched(p) == \A q \in Control : tree[Place(p)][q] = job[p].seen[q]

\* assert_authoritative_lease.
Authoritative(p) == holder = p

Goto(p, pc) == job' = [job EXCEPT ![p].pc = pc]

-----------------------------------------------------------------------------
(* The ends of an execution *)

\* The ExitStack: project.lock goes by its token, queue.lock whoever's it is.
LocksReleased(p) ==
  /\ project' = IF project = p THEN None ELSE project
  /\ queue' = IF job[p].pc \in HoldsQueue THEN None ELSE queue

\* An ExecutionGatewayError has left the locks before its handler cleans up.
Refused(p) ==
  /\ Goto(p, "reject") /\ LocksReleased(p)
  /\ UNCHANGED <<deployment, files, holder, ledger, bounded>>

\* Any other exception leaves the locks, and nothing cleans up.
Raised(p) ==
  /\ job' = [job EXCEPT ![p] = Idle] /\ LocksReleased(p)
  /\ UNCHANGED <<deployment, files, holder, ledger>>

\* Evidence and claim go only if this call made them; quarantine_violation
\* removes an ephemeral worktree and its branch.
Reject(p) ==
  /\ At(p, "reject")
  /\ evidence' = evidence \ job[p].kept
  /\ claim' = [claim EXCEPT ![Exec(p)] = @ /\ ~job[p].claimed]
  /\ job' = [job EXCEPT ![p] = Idle]
  /\ IF deployment.ephemeral
     THEN /\ worktree' = [worktree EXCEPT ![Exec(p)] = "none"]
          /\ marker' = [marker EXCEPT ![Exec(p)] = "quarantined"]
     ELSE UNCHANGED <<worktree, marker>>
  /\ UNCHANGED <<deployment, tree, head, holder, locks, made, accepted, bounded>>

-----------------------------------------------------------------------------
(* The agent *)

Begun(p, from) == [Idle EXCEPT !.pc = "agent", !.base = head[Shared], !.seen = from]

\* In the worktree of the Work Unit as it is, or in one of its own.  One left
\* under the same id is deleted, and git then refuses to add it again.
Start(p) ==
  LET x == Exec(p) IN
  /\ At(p, "idle") /\ Authoritative(p) /\ starts < MaxStarts
  /\ starts' = starts + 1
  /\ \/ /\ ~deployment.ephemeral
        /\ job' = [job EXCEPT ![p] = Begun(p, tree[Shared])]
        /\ UNCHANGED files
     \/ /\ deployment.ephemeral /\ worktree[x] = "none"
        /\ worktree' = [worktree EXCEPT ![x] = "live"]
        /\ marker' = [marker EXCEPT ![x] = "open"]
        /\ tree' = [tree EXCEPT ![x] = head[Shared]]
        /\ head' = [head EXCEPT ![x] = head[Shared]]
        /\ job' = [job EXCEPT ![p] = Begun(p, head[Shared])]
     \/ /\ deployment.ephemeral /\ worktree[x] # "none"
        /\ worktree' = [worktree EXCEPT ![x] = "missing"]
        /\ UNCHANGED <<tree, head, marker, job>>
  /\ UNCHANGED <<deployment, holder, locks, ledger, writes, faults>>

\* The agent, what it left running, a verification command or a hook.
Write(w) ==
  /\ writes < MaxWrites
  /\ \E p \in Procs : Place(p) = w /\ ~At(p, "idle") /\ Present(p)
  /\ \E q \in Paths : \E c \in Contents \ {tree[w][q]} : tree' = [tree EXCEPT ![w][q] = c]
  /\ writes' = writes + 1
  /\ UNCHANGED <<deployment, head, worktree, marker, holder, locks, ledger, job, starts, faults>>

AgentCommits(p) ==
  /\ At(p, "agent") /\ Present(p) /\ head[Place(p)] # tree[Place(p)]
  /\ head' = [head EXCEPT ![Place(p)] = tree[Place(p)]]
  /\ UNCHANGED <<deployment, tree, worktree, marker, holder, locks, ledger, job, bounded>>

\* A result that is malformed, of another request, epoch or context, not
\* succeeded, or that asks for another command or claims another HEAD is refused.
AgentReturns(p) ==
  /\ At(p, "agent")
  /\ \/ /\ \E declared \in SUBSET Scoped :
             job' = [job EXCEPT ![p].pc = "capture", ![p].declared = declared]
        /\ UNCHANGED <<deployment, files, holder, locks, ledger, bounded>>
     \/ Refused(p)

-----------------------------------------------------------------------------
(* Inspection *)

\* Mutant: what the agent has committed itself is not looked at.
InScopeUncommitted(p) ==
  {q \in Paths \ Control : tree[Place(p)][q] # head[Place(p)][q]} \subseteq Scoped

InScope(p) == Changed(Place(p), job[p].base) \subseteq Scoped

\* Changed paths, their fingerprint and the declared artifacts.
Capture(p) ==
  /\ At(p, "capture")
  /\ IF Present(p) /\ ControlUntouched(p) /\ InScope(p)
     THEN /\ job' = [job EXCEPT ![p].pc = "recheck", ![p].seen = tree[Place(p)],
                                ![p].files = Changed(Place(p), job[p].base)]
          /\ UNCHANGED <<deployment, files, holder, locks, ledger, bounded>>
     ELSE Refused(p)

Unchanged(p) ==
  /\ Changed(Place(p), job[p].base) = job[p].files
  /\ \A q \in job[p].files : tree[Place(p)][q] = job[p].seen[q]

\* The gateway runs the commands of the project profile, which may fail, and
\* inspects again; the artifacts are hashed again.  A required check that nobody
\* passed, or that only the agent reported, is refused.
Recheck(p) ==
  /\ At(p, "recheck")
  /\ \/ /\ Present(p) /\ ControlUntouched(p) /\ InScope(p) /\ Unchanged(p)
        /\ job' = [job EXCEPT ![p].pc = "want", ![p].seen = tree[Place(p)]]
        /\ UNCHANGED <<deployment, files, holder, locks, ledger, bounded>>
     \/ Refused(p)

-----------------------------------------------------------------------------
(* Promotion *)

TakeProject(p) ==
  /\ At(p, "want") /\ project = None
  /\ project' = p /\ Goto(p, "queue")
  /\ UNCHANGED <<deployment, files, holder, queue, ledger, bounded>>

\* Mutant: queue.lock is not taken.
PassQueue(p) ==
  /\ At(p, "queue")
  /\ Goto(p, "fence")
  /\ UNCHANGED <<deployment, files, holder, locks, ledger, bounded>>

TakeQueue(p) ==
  /\ At(p, "queue") /\ queue = None
  /\ queue' = p /\ Goto(p, "fence")
  /\ UNCHANGED <<deployment, files, holder, project, ledger, bounded>>

\* CONFLICT after 30 s, SupervisorLockError after 15 s.
LockTimeout(p) ==
  /\ \/ At(p, "want") /\ project # None
     \/ At(p, "queue") /\ queue # None
  /\ Raised(p)
  /\ UNCHANGED bounded

Fence(p) ==
  /\ job[p].pc \in {"fence", "refence"}
  /\ IF Authoritative(p)
     THEN /\ Goto(p, IF At(p, "fence") THEN "claim" ELSE "commit")
          /\ UNCHANGED <<deployment, files, holder, locks, ledger, bounded>>
     ELSE Refused(p)

\* Mutant: the claim is written over another.
ClaimAnyway(p) ==
  /\ At(p, "claim")
  /\ claim' = [claim EXCEPT ![Exec(p)] = TRUE]
  /\ job' = [job EXCEPT ![p].pc = "refence", ![p].claimed = TRUE]
  /\ UNCHANGED <<deployment, files, holder, locks, evidence, made, accepted, bounded>>

\* cas_promote_guard: O_EXCL on one file per execution id.
Claim(p) ==
  /\ At(p, "claim")
  /\ IF claim[Exec(p)] THEN Refused(p)
     ELSE /\ claim' = [claim EXCEPT ![Exec(p)] = TRUE]
          /\ job' = [job EXCEPT ![p].pc = "refence", ![p].claimed = TRUE]
          /\ UNCHANGED <<deployment, files, holder, locks, evidence, made, accepted, bounded>>

\* create_governed_commit adds the inspected paths with the contents they have by
\* now; others a hook or a concurrent git add stages may slip in.
CommitCandidate(p) ==
  LET w == Place(p) IN
  /\ At(p, "commit") /\ Present(p)
  /\ \E extra \in SUBSET {q \in Paths : tree[w][q] # head[w][q]} :
       LET staged == (job[p].files \cup extra)
           sha == [q \in Paths |-> IF q \in staged THEN tree[w][q] ELSE head[w][q]] IN
       /\ head' = [head EXCEPT ![w] = sha]
       /\ made' = made \cup {[exec |-> Exec(p), content |-> sha]}
       /\ job' = [job EXCEPT ![p].pc = "match", ![p].sha = sha]
  /\ UNCHANGED <<deployment, tree, worktree, marker, holder, locks, claim, evidence, accepted,
                 bounded>>

\* assert_commit_matches_candidate: the paths of the commit, and the contents of
\* the declared artifacts only.
MatchCommit(p) ==
  /\ At(p, "match")
  /\ IF /\ {q \in Paths : job[p].sha[q] # job[p].base[q]} = job[p].files
        /\ \A q \in job[p].declared : job[p].sha[q] = job[p].seen[q]
     THEN /\ Goto(p, "persist")
          /\ UNCHANGED <<deployment, files, holder, locks, ledger, bounded>>
     ELSE Refused(p)

Manifests(p) == {[by |-> p, exec |-> Exec(p), path |-> q, content |-> job[p].seen[q]] :
                   q \in job[p].declared}

\* One manifest per declared artifact, one file at a time.
Persist(p) ==
  /\ At(p, "persist")
  /\ IF Manifests(p) \subseteq job[p].kept
     THEN Goto(p, "promote") /\ UNCHANGED evidence
     ELSE \E m \in Manifests(p) \ job[p].kept :
            /\ evidence' = evidence \cup {m}
            /\ job' = [job EXCEPT ![p].kept = @ \cup {m}]
  /\ UNCHANGED <<deployment, files, holder, locks, claim, made, accepted, bounded>>

\* promote_result, only for an ephemeral worktree; then the locks are released.
Promote(p) ==
  /\ At(p, "promote")
  /\ marker' = IF deployment.ephemeral THEN [marker EXCEPT ![Exec(p)] = "promotable"] ELSE marker
  /\ Goto(p, "event") /\ LocksReleased(p)
  /\ UNCHANGED <<deployment, tree, head, worktree, holder, ledger, bounded>>

\* The execution_accepted event; without journal.lock the call raises instead.
Accept(p) ==
  /\ At(p, "event")
  /\ job' = [job EXCEPT ![p] = Idle]
  /\ \/ accepted' = [accepted EXCEPT ![Exec(p)] = @ + 1]
     \/ UNCHANGED accepted
  /\ UNCHANGED <<deployment, files, holder, locks, claim, evidence, made, bounded>>

-----------------------------------------------------------------------------
(* Failures, and those who hold the locks otherwise *)

\* GitWorkspaceError, OSError: no handler of execute catches them.
InputOutputError(p) ==
  /\ job[p].pc \in Inspecting \cup Fenced
  /\ \/ faults < MaxFaults /\ faults' = faults + 1
     \/ ~Present(p) /\ UNCHANGED faults
  /\ Raised(p)
  /\ UNCHANGED <<writes, starts>>

Crash(p) ==
  /\ ~At(p, "idle") /\ faults < MaxFaults
  /\ faults' = faults + 1
  /\ job' = [job EXCEPT ![p] = Idle]
  /\ project' = IF project = p THEN Orphan ELSE project
  /\ queue' = IF queue = p THEN Orphan ELSE queue
  /\ UNCHANGED <<deployment, files, holder, ledger, writes, starts>>

\* Nothing but an operator removes a project.lock.
RemoveProjectLock ==
  /\ project = Orphan
  /\ project' = None
  /\ UNCHANGED <<deployment, files, holder, queue, ledger, job, bounded>>

\* A waiter breaks a queue.lock older than its own timeout.
BreakQueueLock ==
  /\ queue = Orphan \/ (SlowPromotions /\ queue \in Procs)
  /\ queue' = None
  /\ UNCHANGED <<deployment, files, holder, project, ledger, job, bounded>>

\* A command of the Command Gateway, or an operation on the queue.
LeaseLock == IF deployment.kind = "worker" THEN project ELSE queue

EndLease ==
  /\ holder # None /\ LeaseLock = None
  /\ holder' = None
  /\ UNCHANGED <<deployment, files, locks, ledger, job, bounded>>

GiveLease(p) ==
  /\ holder = None /\ LeaseLock = None /\ At(p, "idle")
  /\ holder' = p
  /\ UNCHANGED <<deployment, files, locks, ledger, job, bounded>>

-----------------------------------------------------------------------------

Execute(p) ==
  \/ AgentReturns(p) \/ Capture(p) \/ Recheck(p)
  \/ TakeProject(p) \/ TakeQueue(p) \/ LockTimeout(p)
  \/ Fence(p) \/ Claim(p) \/ CommitCandidate(p) \/ MatchCommit(p)
  \/ Persist(p) \/ Promote(p) \/ Accept(p) \/ Reject(p)

Next ==
  \/ \E p \in Procs : \/ Execute(p) \/ Start(p) \/ AgentCommits(p)
                      \/ InputOutputError(p) \/ Crash(p) \/ GiveLease(p)
  \/ \E w \in Worktrees : Write(w)
  \/ EndLease \/ BreakQueueLock \/ RemoveProjectLock

Spec == Init /\ [][Next]_vars

-----------------------------------------------------------------------------
(* Properties *)

\* From its first fence to the release of its locks a promotion works under the
\* active lease of the Work Unit: nobody ends or reassigns it in between, under
\* either kind of lease (gateway.py:687-737).
FencedIsCurrent == \A p \in Procs : job[p].pc \in Fenced => Authoritative(p)

\* No execution id is accepted twice, by two processes or by two calls of one,
\* after rejections and crashes (cas_promote_guard).
AcceptedOnce == \A x \in Execs : accepted[x] <= 1

\* What is accepted was committed, with the inspected paths and no other, all of
\* them in scope, and is on the evidence of every declared artifact.
AcceptedIsInspected ==
  [][\A p \in Procs : accepted'[Exec(p)] # accepted[Exec(p)] /\ job'[p] # job[p] =>
       LET j == job[p] IN
       /\ [exec |-> Exec(p), content |-> j.sha] \in made
       /\ {q \in Paths : j.sha[q] # j.base[q]} = j.files
       /\ j.files \subseteq Scoped
       /\ Manifests(p) \subseteq evidence]_vars

\* "Re-read the commit object and prove it contains exactly the candidate"
\* (transactional.py:535): the contents that were inspected.
CommitIsCandidate ==
  \A p \in Procs : job[p].pc \in {"persist", "promote"} =>
    \A q \in job[p].files : job[p].sha[q] = job[p].seen[q]
=============================================================================
