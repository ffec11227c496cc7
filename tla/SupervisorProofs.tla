--------------------------- MODULE SupervisorProofs ---------------------------
(***************************************************************************)
(* Proofs about the daemon that serves a workspace: one at a time, one     *)
(* active Run of a lineage, no recovery of a Run that stopped for good,    *)
(* and no more recoveries than allowed.  For any daemons, Runs, processes  *)
(* and faults.                                                             *)
(***************************************************************************)
EXTENDS Supervisor, FiniteSetTheorems, TLAPS

-----------------------------------------------------------------------------
(* The inductive invariant *)

\* The lock file tells who serves, once starts do not overlap.
LockInv ==
  /\ \A d \in Daemons : daemon[d].pc \in Serving => lock = [owner |-> d, written |-> TRUE]
  /\ \A d \in Daemons : daemon[d].pc = "write" => lock = [owner |-> d, written |-> FALSE]
  /\ \A d, e \in Daemons : daemon[d].pc \in {"unlink", "create"} => daemon[e].pc \notin Serving
  /\ \A d, e \in Daemons : daemon[d].pc \in Starting /\ daemon[e].pc \in Starting => d = e

\* What a recovery under way rests on, also when several daemons serve.
Plan(d) ==
  /\ daemon[d].pc \in {"reset", "open"} => run[daemon[d].run].stop = "recoverable"
  /\ daemon[d].pc \in {"unregister", "register"} => daemon[d].next # None
  /\ daemon[d].next # None => run[daemon[d].next].status # "none"
  /\ daemon[d].pc \notin Serving => daemon[d].todo = {}
  /\ daemon[d].pc = "process" /\ daemon[d].seen.status = "active" =>
       daemon[d].seen.progress # "terminal"

RunInv ==
  /\ \A r \in Runs : run[r].stop = "recoverable" => run[r].status = "stopped"
  /\ \A r \in Runs : run[r].from # None => run[run[r].from].stop = "recoverable"
  /\ \A r \in Runs : registry[r] # None => run[r].status # "none"
  /\ \A d \in Daemons : Plan(d)

\* What the daemon that serves alone knows at each of its steps.
ReadsActive(d) == daemon[d].pc = "process" /\ daemon[d].seen.status = "active"
Recovers(d) == daemon[d].pc \in {"source", "close", "judge", "reset", "open"} \/ ReadsActive(d)
Taken == Serving \ {"idle", "next"}
Knows(d) ==
  LET j == daemon[d] IN
  /\ j.pc \in Serving => \A r \in j.todo : registry[r] # None
  /\ j.pc \in Taken => j.run \notin j.todo /\ j.next \notin j.todo
  /\ j.pc = "observe" => registry[j.run] # None
  /\ Recovers(d) => \A r \in Runs \ {j.run} : run[r].status # "active"
  /\ j.pc \in {"judge", "reset", "open"} => run[j.run].status # "active"
  /\ j.pc \in {"close", "judge", "reset", "open"} => j.attempt = attempts + 1 /\ attempts < Limit
  /\ j.pc = "state" =>
       j.attempt = attempts \/ (j.attempt = attempts + 1 /\ attempts < Limit)

\* A recovery Run that was opened and not counted: being counted, or abandoned by a daemon
\* that died.  Then it is not registered, and nothing else that is registered is active.
Counts(d) == daemon[d].pc = "state" /\ daemon[d].attempt = attempts + 1
Abandons(d) == ~Recovers(d) /\ daemon[d].pc \notin {"state", "unregister", "register"}
Uncounted ==
  /\ Cardinality(Opened) <= 2 + attempts /\ attempts < Limit
  /\ \A r \in Runs : registry[r] # None => run[r].status # "active"
  /\ \A d \in Daemons : Counts(d) \/ Abandons(d)
CountInv == attempts <= Limit /\ (Cardinality(Opened) <= 1 + attempts \/ Uncounted)

AloneInv == LockInv /\ (\A d \in Daemons : Knows(d)) /\ OneActiveRun /\ CountInv

SInv == SupervisorTypeOK /\ RunInv /\ (ConcurrentStarts = FALSE => AloneInv)

-----------------------------------------------------------------------------
(* What the steps do to a daemon and to the Runs *)

LEMMA FreshType ==
  Fresh \in Instance /\ \A s \in {"idle", "dead", "observe"} : [Fresh EXCEPT !.pc = s] \in Instance
<1>1. Fresh \in Instance
  BY BoundsAssumption DEF Fresh, Instance, NoSight, Sight, RunStatuses, Progresses, Root, Runs
<1> QED  BY <1>1 DEF Instance, Fresh, Serving

\* A step of d leaves what the others are doing alone.
LEMMA DaemonWritten ==
  ASSUME SupervisorTypeOK, NEW d \in Daemons, NEW x \in Instance, daemon' = [daemon EXCEPT ![d] = x]
  PROVE  /\ daemon' \in [Daemons -> Instance] /\ daemon'[d] = x
         /\ \A e \in Daemons : e # d => daemon'[e] = daemon[e]
BY DEF SupervisorTypeOK

LEMMA Went ==
  ASSUME SupervisorTypeOK, NEW d \in Daemons,
         NEW s \in {"off", "dead"} \cup Starting \cup Serving, Goto(d, s)
  PROVE  /\ daemon' \in [Daemons -> Instance]
         /\ daemon'[d].pc = s /\ daemon'[d].todo = daemon[d].todo /\ daemon'[d].run = daemon[d].run
         /\ daemon'[d].seen = daemon[d].seen /\ daemon'[d].attempt = daemon[d].attempt
         /\ daemon'[d].next = daemon[d].next /\ daemon'[d].pid = daemon[d].pid
         /\ daemon'[d].mark = daemon[d].mark
         /\ \A e \in Daemons : e # d => daemon'[e] = daemon[e]
<1>1. daemon[d] \in Instance  BY DEF SupervisorTypeOK
<1>2. [daemon[d] EXCEPT !.pc = s] \in Instance  BY <1>1 DEF Instance
<1>3. daemon' = [daemon EXCEPT ![d] = [daemon[d] EXCEPT !.pc = s]]  BY DEF Goto
<1> QED  BY <1>1, <1>2, <1>3, DaemonWritten DEF Instance

\* A step that opens no Run: it leaves a Run alone, or closes an active one.
ClosedOnly(r) ==
  /\ run[r].status = "active" /\ run'[r].status \in {"completed", "stopped"}
  /\ run'[r].from = run[r].from
  /\ run'[r].stop = "recoverable" => run'[r].status = "stopped"
NoneOpened == \A r \in Runs : run'[r] = run[r] \/ ClosedOnly(r)

LEMMA CloseEffect ==
  ASSUME SupervisorTypeOK, NEW r \in Runs, NEW status \in {"completed", "stopped"},
         NEW stop \in Stops \cup {None}, stop = "recoverable" => status = "stopped",
         Close(r, status, stop)
  PROVE  /\ run' \in [Runs -> [status : RunStatuses, stop : Stops \cup {None},
                                from : Runs \cup {None}]]
         /\ quiet' \in [Runs -> BOOLEAN]
         /\ run'[r].status = status /\ run'[r].stop = stop
         /\ NoneOpened
BY DEF SupervisorTypeOK, Close, RunStatuses, NoneOpened, ClosedOnly

LEMMA KeptRuns ==
  ASSUME SInv, NoneOpened
  PROVE  /\ Opened' = Opened
         /\ \A r \in Runs : /\ run'[r].status = "active" => run[r].status = "active"
                            /\ run[r].status # "none" => run'[r].status # "none"
                            /\ run[r].stop = "recoverable" => run'[r] = run[r]
                            /\ run'[r].stop = "recoverable" => run'[r].status = "stopped"
                            /\ run'[r].from # None => run'[run'[r].from].stop = "recoverable"
         /\ OneActiveRun => OneActiveRun'
<1>1. \A r \in Runs : /\ run'[r].status = "active" => run[r].status = "active"
                      /\ run[r].status # "none" <=> run'[r].status # "none"
                      /\ run[r].stop = "recoverable" => run'[r] = run[r]
                      /\ run'[r].stop = "recoverable" => run'[r].status = "stopped"
                      /\ run'[r].from = run[r].from
  BY DEF NoneOpened, ClosedOnly, SInv, RunInv
<1>2. \A r \in Runs : run[r].from # None => run[r].from \in Runs
  BY DEF SInv, SupervisorTypeOK
<1>3. \A r \in Runs : run'[r].from # None => run'[run'[r].from].stop = "recoverable"
  BY <1>1, <1>2 DEF SInv, RunInv
<1>4. Opened' = Opened  BY <1>1 DEF Opened
<1>5. OneActiveRun => OneActiveRun'  BY <1>1 DEF OneActiveRun
<1> QED  BY <1>1, <1>3, <1>4, <1>5

\* The plans of the daemons that do not move stay good.
LEMMA PlanFrame ==
  ASSUME SInv, NoneOpened, NEW e \in Daemons, daemon'[e] = daemon[e]
  PROVE  Plan(e)'
<1>1. Plan(e) /\ daemon[e] \in Instance  BY DEF SInv, RunInv, SupervisorTypeOK
<1>2. daemon[e].run \in Runs /\ daemon[e].next \in Runs \cup {None}  BY <1>1 DEF Instance
<1> QED  BY <1>1, <1>2, KeptRuns DEF Plan

\* A step of the world: no daemon moves and no Run opens.
LEMMA WorldStep ==
  ASSUME SInv, SupervisorTypeOK', UNCHANGED <<lock, daemon, attempts, registry>>, NoneOpened
  PROVE  SInv'
<1>1. RunInv'  BY KeptRuns, PlanFrame DEF SInv, RunInv
<1>2. ASSUME ConcurrentStarts = FALSE PROVE AloneInv'
  <2>1. AloneInv  BY <1>2 DEF SInv
  <2>2. LockInv'  BY <2>1 DEF AloneInv, LockInv
  <2>3. \A d \in Daemons : daemon[d] \in Instance  BY DEF SInv, SupervisorTypeOK
  <2>4. \A d \in Daemons : Recovers(d)' = Recovers(d)  BY DEF Recovers, ReadsActive
  <2>5. ASSUME NEW d \in Daemons PROVE Knows(d)'
    <3>1. Knows(d) /\ daemon[d].run \in Runs  BY <2>1, <2>3 DEF AloneInv, Instance
    <3> QED  BY <2>4, <3>1, KeptRuns DEF Knows
  <2>6. CountInv'
    BY <2>1, <2>4, KeptRuns DEF AloneInv, CountInv, Uncounted, Counts, Abandons
  <2> QED  BY <2>1, <2>2, <2>5, <2>6, KeptRuns DEF AloneInv
<1> QED  BY <1>1, <1>2 DEF SInv

\* A daemon that serves alone is the only one that serves.
LEMMA OthersIdle ==
  ASSUME LockInv, NEW d \in Daemons, daemon[d].pc \in Serving,
         NEW e \in Daemons, e # d
  PROVE  daemon[e].pc \notin Serving /\ daemon[e].pc \notin Starting
BY DEF LockInv, Starting

\* A step of the daemon that serves: it keeps its lock and opens no Run.
LEMMA ServingStep ==
  ASSUME SInv, SupervisorTypeOK', NEW d \in Daemons,
         daemon[d].pc \in Serving, daemon'[d].pc \in Serving,
         \A e \in Daemons : e # d => daemon'[e] = daemon[e],
         UNCHANGED <<lock, attempts>>, NoneOpened,
         \A r \in Runs : registry'[r] # None => registry[r] # None,
         Plan(d)', ConcurrentStarts = FALSE => Knows(d)',
         ConcurrentStarts = FALSE /\ Uncounted => (Counts(d) \/ Abandons(d))'
  PROVE  SInv'
<1>1. RunInv'  BY KeptRuns, PlanFrame DEF SInv, RunInv
<1>2. ASSUME ConcurrentStarts = FALSE PROVE AloneInv'
  <2>1. AloneInv  BY <1>2 DEF SInv
  <2>2. \A e \in Daemons : e # d => daemon[e].pc \notin Serving /\ daemon[e].pc \notin Starting
    BY <2>1, OthersIdle DEF AloneInv
  <2>3. Serving \cap Starting = {} /\ "write" \in Starting  BY DEF Serving, Starting
  <2>4. LockInv'  BY <2>1, <2>2, <2>3 DEF AloneInv, LockInv, Starting
  <2>5. ASSUME NEW e \in Daemons, e # d PROVE Knows(e)'
    BY <2>2, <2>5 DEF Knows, Recovers, ReadsActive, Serving, Taken
  <2>6. ASSUME NEW e \in Daemons, e # d PROVE Abandons(e)'
    BY <2>2, <2>6 DEF Abandons, Recovers, ReadsActive, Serving
  <2>7. CountInv'
    BY <1>2, <2>1, <2>6, KeptRuns DEF AloneInv, CountInv, Uncounted
  <2>8. Knows(d)'  BY <1>2
  <2> QED  BY <2>1, <2>4, <2>5, <2>7, <2>8, KeptRuns DEF AloneInv
<1> QED  BY <1>1, <1>2 DEF SInv

\* A step that takes a daemon to a place from which it touches no Run.
LEMMA RestingStep ==
  ASSUME SInv, SupervisorTypeOK', NEW d \in Daemons,
         daemon'[d].pc \in {"off", "dead", "idle"} \cup Starting, daemon'[d].todo = {},
         daemon'[d].next # None => run[daemon'[d].next].status # "none",
         \A e \in Daemons : e # d => daemon'[e] = daemon[e],
         UNCHANGED <<run, attempts, registry>>, ConcurrentStarts = FALSE => LockInv'
  PROVE  SInv'
<1>1. NoneOpened  BY DEF NoneOpened
<1>2. Plan(d)'  BY DEF Plan, Starting
<1>3. RunInv'  BY <1>1, <1>2, KeptRuns, PlanFrame DEF SInv, RunInv
<1>4. ASSUME ConcurrentStarts = FALSE PROVE AloneInv'
  <2>1. AloneInv  BY <1>4 DEF SInv
  <2>2. Knows(d)' /\ Abandons(d)'
    BY DEF Knows, Abandons, Recovers, ReadsActive, Starting, Taken
  <2>3. ASSUME NEW e \in Daemons, e # d PROVE Knows(e)'
    BY <2>1, <2>3 DEF AloneInv, Knows, Recovers, ReadsActive
  <2>4. ASSUME NEW e \in Daemons, e # d
        PROVE  (Counts(e) => Counts(e)') /\ (Abandons(e) => Abandons(e)')
    BY <2>4 DEF Counts, Abandons, Recovers, ReadsActive
  <2>5. CountInv'
    BY <1>1, <2>1, <2>2, <2>4, KeptRuns DEF AloneInv, CountInv, Uncounted
  <2>6. LockInv'  BY <1>4
  <2> QED  BY <1>1, <2>1, <2>2, <2>3, <2>5, <2>6, KeptRuns DEF AloneInv
<1> QED  BY <1>3, <1>4 DEF SInv

-----------------------------------------------------------------------------
(* Daemons that start and end *)

\* What the four steps of a start have in common.
LEMMA StartingStep ==
  ASSUME SInv, NEW d \in Daemons, daemon[d].pc \in {"off"} \cup Starting,
         NEW s \in {"dead", "idle"} \cup Starting, Goto(d, s),
         lock' \in [owner : Daemons \cup {None}, written : BOOLEAN],
         UNCHANGED <<files, orch, faults, deaths>>, ConcurrentStarts = FALSE => LockInv'
  PROVE  SInv'
<1>1. SupervisorTypeOK  BY DEF SInv
<1>2. s \in {"off", "dead"} \cup Starting \cup Serving  BY DEF Serving
<1>3. /\ daemon' \in [Daemons -> Instance]
      /\ daemon'[d].pc = s /\ daemon'[d].todo = daemon[d].todo /\ daemon'[d].next = daemon[d].next
      /\ daemon'[d].run = daemon[d].run
      /\ \A e \in Daemons : e # d => daemon'[e] = daemon[e]
  BY <1>1, <1>2, Went
<1>4. SupervisorTypeOK'  BY <1>1, <1>3 DEF SupervisorTypeOK, files
<1>5. Plan(d) /\ daemon[d].pc \notin Serving  BY DEF SInv, RunInv, Serving, Starting
<1> QED  BY <1>3, <1>4, <1>5, RestingStep DEF Plan, files

LEMMA ReadLockStep == ASSUME SInv, NEW d \in Daemons, ReadLock(d) PROVE SInv'
<1> DEFINE s == IF ~lock.written THEN "create" ELSE IF Up(lock.owner) THEN "dead" ELSE "unlink"
<1>1. /\ daemon[d].pc = "off" /\ Goto(d, s) /\ UNCHANGED <<lock, files, orch, faults, deaths>>
      /\ ConcurrentStarts \/ \A e \in Daemons : daemon[e].pc \notin Starting
  BY DEF ReadLock
<1>2. /\ s \in {"dead", "create", "unlink"}
      /\ s = "create" => ~lock.written
      /\ s = "unlink" => ~Up(lock.owner)
  OBVIOUS
<1> HIDE DEF s
<1>3. SupervisorTypeOK /\ {"dead", "create", "unlink"} \subseteq {"dead"} \cup Starting
  BY DEF SInv, Starting
<1>4. ASSUME ConcurrentStarts = FALSE PROVE LockInv'
  <2>1. LockInv  BY <1>4 DEF SInv, AloneInv
  <2>2. /\ daemon'[d].pc = s
        /\ \A e \in Daemons : e # d => daemon'[e] = daemon[e]
    BY <1>1, <1>2, <1>3, Went
  <2>3. s # "dead" => \A e \in Daemons : daemon[e].pc \notin Serving
    <3>1. \A e \in Daemons : daemon[e].pc \in Serving => lock.written /\ lock.owner = e
      BY <2>1 DEF LockInv
    <3>2. \A e \in Daemons : daemon[e].pc \in Serving => Up(e)  BY DEF Up, Serving
    <3> QED  BY <1>2, <3>1, <3>2
  <2>4. \A e \in Daemons : daemon[e].pc \notin Starting  BY <1>1, <1>4
  <2> QED  BY <1>1, <1>2, <2>1, <2>2, <2>3, <2>4 DEF LockInv, Starting, Serving
<1>5. lock' \in [owner : Daemons \cup {None}, written : BOOLEAN]
  BY <1>1, <1>3 DEF SupervisorTypeOK
<1> QED  BY <1>1, <1>2, <1>3, <1>4, <1>5, StartingStep DEF Starting

LEMMA UnlinkLockStep == ASSUME SInv, NEW d \in Daemons, UnlinkLock(d) PROVE SInv'
<1> DEFINE s == IF lock = Free THEN "dead" ELSE "create"
<1>1. /\ daemon[d].pc = "unlink" /\ Goto(d, s) /\ lock' = Free
      /\ UNCHANGED <<files, orch, faults, deaths>>
  BY DEF UnlinkLock
<1>2. s \in {"dead", "create"}  OBVIOUS
<1> HIDE DEF s
<1>3. SupervisorTypeOK /\ {"dead", "create"} \subseteq {"dead"} \cup Starting
  BY DEF SInv, Starting
<1>4. ASSUME ConcurrentStarts = FALSE PROVE LockInv'
  <2>1. LockInv  BY <1>4 DEF SInv, AloneInv
  <2>2. /\ daemon'[d].pc = s
        /\ \A e \in Daemons : e # d => daemon'[e] = daemon[e]
    BY <1>1, <1>2, <1>3, Went
  <2> QED  BY <1>1, <1>2, <2>1, <2>2 DEF LockInv, Starting, Serving
<1>5. lock' \in [owner : Daemons \cup {None}, written : BOOLEAN]
  BY <1>1 DEF Free
<1> QED  BY <1>1, <1>2, <1>3, <1>4, <1>5, StartingStep DEF Starting

LEMMA CreateLockStep == ASSUME SInv, NEW d \in Daemons, CreateLock(d) PROVE SInv'
<1>1. daemon[d].pc = "create" /\ UNCHANGED <<files, orch, faults, deaths>>
  BY DEF CreateLock
<1>2. SupervisorTypeOK /\ {"dead", "write"} \subseteq {"dead"} \cup Starting
  BY DEF SInv, Starting
<1>3. PICK s \in {"dead", "write"} :
        /\ Goto(d, s)
        /\ \/ s = "dead" /\ lock' = lock
           \/ s = "write" /\ lock' = [owner |-> d, written |-> FALSE]
  BY DEF CreateLock
<1>4. ASSUME ConcurrentStarts = FALSE PROVE LockInv'
  <2>1. LockInv  BY <1>4 DEF SInv, AloneInv
  <2>2. /\ daemon'[d].pc = s
        /\ \A e \in Daemons : e # d => daemon'[e] = daemon[e]
    BY <1>2, <1>3, Went
  <2> QED  BY <1>1, <1>3, <2>1, <2>2 DEF LockInv, Starting, Serving
<1>5. lock' \in [owner : Daemons \cup {None}, written : BOOLEAN]
  <2>1. lock \in [owner : Daemons \cup {None}, written : BOOLEAN]  BY <1>2 DEF SupervisorTypeOK
  <2>2. [owner |-> d, written |-> FALSE] \in [owner : Daemons \cup {None}, written : BOOLEAN]
    OBVIOUS
  <2> QED  BY <1>3, <2>1, <2>2
<1> QED  BY <1>1, <1>2, <1>3, <1>4, <1>5, StartingStep DEF Starting

LEMMA WriteLockStep == ASSUME SInv, NEW d \in Daemons, WriteLock(d) PROVE SInv'
<1>1. /\ daemon[d].pc = "write" /\ Goto(d, "idle") /\ UNCHANGED <<files, orch, faults, deaths>>
      /\ lock' = IF lock.owner = d THEN [lock EXCEPT !.written = TRUE] ELSE lock
  BY DEF WriteLock
<1>2. SupervisorTypeOK  BY DEF SInv
<1>3. ASSUME ConcurrentStarts = FALSE PROVE LockInv'
  <2>1. LockInv  BY <1>3 DEF SInv, AloneInv
  <2>2. /\ daemon'[d].pc = "idle"
        /\ \A e \in Daemons : e # d => daemon'[e] = daemon[e]
    BY <1>1, <1>2, Went DEF Serving
  <2>3. lock = [owner |-> d, written |-> FALSE]  BY <1>1, <2>1 DEF LockInv
  <2>4. lock' = [owner |-> d, written |-> TRUE]  BY <1>1, <2>3
  <2>5. \A e \in Daemons : e # d => daemon[e].pc \notin Serving /\ daemon[e].pc \notin Starting
    <3>1. \A e \in Daemons : daemon[e].pc \in Serving => lock.written  BY <2>1 DEF LockInv
    <3> QED  BY <1>1, <2>1, <2>3, <3>1 DEF LockInv, Starting
  <2> QED  BY <2>2, <2>4, <2>5 DEF LockInv, Starting, Serving
<1>4. lock' \in [owner : Daemons \cup {None}, written : BOOLEAN]
  <2>1. lock \in [owner : Daemons \cup {None}, written : BOOLEAN]  BY <1>2 DEF SupervisorTypeOK
  <2> QED  BY <1>1, <2>1
<1> QED  BY <1>1, <1>3, <1>4, StartingStep DEF Starting

\* A daemon that dies, gives up its lock, or begins the next cycle after an error.
LEMMA StoppingStep ==
  ASSUME SInv, NEW d \in Daemons, NEW s \in {"dead", "idle"},
         daemon' = [daemon EXCEPT ![d] = [Fresh EXCEPT !.pc = s]], SupervisorTypeOK',
         \/ s = "dead" /\ (lock' = lock \/ (lock' = Free /\ lock.owner = d))
         \/ daemon[d].pc \in Serving /\ lock' = lock,
         UNCHANGED files
  PROVE  SInv'
<1>1. SupervisorTypeOK  BY DEF SInv
<1>2. /\ daemon'[d] = [Fresh EXCEPT !.pc = s]
      /\ \A e \in Daemons : e # d => daemon'[e] = daemon[e]
  BY <1>1, FreshType, DaemonWritten
<1>3. daemon'[d].pc = s /\ daemon'[d].todo = {} /\ daemon'[d].next = None
  BY <1>2 DEF Fresh
<1>4. ASSUME ConcurrentStarts = FALSE PROVE LockInv'
  <2>1. LockInv  BY <1>4 DEF SInv, AloneInv
  <2>2. CASE lock' = lock
    BY <1>2, <1>3, <2>1, <2>2 DEF LockInv, Starting, Serving
  <2>3. CASE lock' = Free /\ lock.owner = d /\ s = "dead"
    <3>1. \A e \in Daemons : daemon[e].pc \in Serving \/ daemon[e].pc = "write" => e = d
      BY <2>1, <2>3 DEF LockInv
    <3> QED  BY <1>2, <1>3, <2>1, <2>3, <3>1 DEF LockInv, Starting, Serving
  <2> QED  BY <2>2, <2>3
<1> QED  BY <1>2, <1>3, <1>4, RestingStep DEF files

LEMMA ReapedType == ASSUME SupervisorTypeOK, NEW d \in Daemons PROVE Reaped(d) \in [Pids -> Process]
<1>1. NoProcess("gone") \in Process
  BY BoundsAssumption DEF NoProcess, Process, Root, Runs
<1> QED  BY <1>1 DEF SupervisorTypeOK, Reaped

LEMMA StoppedType ==
  ASSUME SInv, NEW d \in Daemons, NEW s \in {"dead", "idle"},
         daemon' = [daemon EXCEPT ![d] = [Fresh EXCEPT !.pc = s]],
         orch' \in [Pids -> Process], faults' \in Nat, UNCHANGED <<files, deaths>>,
         lock' = lock \/ lock' = Free
  PROVE  SupervisorTypeOK'
<1>1. SupervisorTypeOK  BY DEF SInv
<1>2. daemon' \in [Daemons -> Instance]  BY <1>1, FreshType, DaemonWritten
<1>3. lock' \in [owner : Daemons \cup {None}, written : BOOLEAN]
  <2>1. lock \in [owner : Daemons \cup {None}, written : BOOLEAN]  BY <1>1 DEF SupervisorTypeOK
  <2>2. Free \in [owner : Daemons \cup {None}, written : BOOLEAN]  BY DEF Free
  <2> QED  BY <2>1, <2>2
<1> QED  BY <1>1, <1>2, <1>3 DEF SupervisorTypeOK, files

LEMMA ShutdownStep == ASSUME SInv, NEW d \in Daemons, Shutdown(d) PROVE SInv'
<1>1. /\ daemon' = [daemon EXCEPT ![d] = [Fresh EXCEPT !.pc = "dead"]]
      /\ lock' = lock \/ (lock' = Free /\ lock.owner = d)
      /\ orch' = Reaped(d) /\ UNCHANGED <<files, faults, deaths>>
  BY DEF Shutdown
<1>2. orch' \in [Pids -> Process] /\ faults' \in Nat
  BY <1>1, ReapedType DEF SInv, SupervisorTypeOK
<1>3. SupervisorTypeOK'  BY <1>1, <1>2, StoppedType
<1> QED  BY <1>1, <1>3, StoppingStep

LEMMA CrashStep == ASSUME SInv, NEW d \in Daemons, Crash(d) PROVE SInv'
<1>1. /\ daemon' = [daemon EXCEPT ![d] = [Fresh EXCEPT !.pc = "dead"]]
      /\ orch' = Reaped(d) /\ faults' = faults + 1 /\ UNCHANGED <<lock, files, deaths>>
  BY DEF Crash
<1>2. orch' \in [Pids -> Process] /\ faults' \in Nat
  BY <1>1, ReapedType DEF SInv, SupervisorTypeOK
<1>3. SupervisorTypeOK'  BY <1>1, <1>2, StoppedType
<1> QED  BY <1>1, <1>3, StoppingStep

LEMMA FailStep == ASSUME SInv, NEW d \in Daemons, Fail(d) PROVE SInv'
<1>1. /\ daemon[d].pc \in Serving /\ daemon' = [daemon EXCEPT ![d] = [Fresh EXCEPT !.pc = "idle"]]
      /\ faults' = faults + 1 /\ UNCHANGED <<lock, files, orch, deaths>>
  BY DEF Fail
<1>2. orch' \in [Pids -> Process] /\ faults' \in Nat
  BY <1>1 DEF SInv, SupervisorTypeOK
<1>3. SupervisorTypeOK'  BY <1>1, <1>2, StoppedType
<1> QED  BY <1>1, <1>3, StoppingStep

-----------------------------------------------------------------------------
(* Orchestrators, time and people: the world around the daemons *)

LEMMA EndedType == ASSUME SupervisorTypeOK, NEW p \in Pids PROVE Ended(p) \in Process
<1>1. NoProcess("gone") \in Process
  BY BoundsAssumption DEF NoProcess, Process, Root, Runs
<1>2. orch[p] \in Process  BY DEF SupervisorTypeOK
<1>3. [orch[p] EXCEPT !.state = "zombie"] \in Process  BY <1>2 DEF Process
<1> QED  BY <1>1, <1>3 DEF Ended

LEMMA EndStep ==
  ASSUME SInv, NEW p \in Pids, End(p), UNCHANGED <<lock, daemon, files, faults>>, deaths' \in Nat
  PROVE  SInv'
<1>1. orch' \in [Pids -> Process]  BY EndedType DEF SInv, SupervisorTypeOK, End
<1>2. SupervisorTypeOK'  BY <1>1 DEF SInv, SupervisorTypeOK, files
<1> QED  BY <1>2, WorldStep DEF files, NoneOpened

LEMMA BootStep == ASSUME SInv, NEW p \in Pids, Boot(p) PROVE SInv'
<1>1. /\ orch' = [orch EXCEPT ![p].state = "working"] /\ legacy' = [legacy EXCEPT ![orch[p].run] = p]
      /\ UNCHANGED <<lock, daemon, run, grant, blocked, quiet, attempts, registry, record,
                     faults, deaths>>
  BY DEF Boot
<1>2. SupervisorTypeOK /\ orch[p] \in Process  BY DEF SInv, SupervisorTypeOK
<1>3. orch' \in [Pids -> Process] /\ legacy' \in [Runs -> Pids \cup {None}]
  <2>1. [orch[p] EXCEPT !.state = "working"] \in Process /\ orch[p].run \in Runs  BY <1>2 DEF Process
  <2>2. orch' = [orch EXCEPT ![p] = [orch[p] EXCEPT !.state = "working"]]  BY <1>1
  <2> QED  BY <1>1, <1>2, <2>1, <2>2 DEF SupervisorTypeOK
<1>4. SupervisorTypeOK'  BY <1>1, <1>2, <1>3 DEF SupervisorTypeOK
<1> QED  BY <1>1, <1>4, WorldStep DEF NoneOpened

LEMMA ClosingStep ==
  ASSUME SInv, NEW r \in Runs, NEW status \in {"completed", "stopped"},
         NEW stop \in Stops \cup {None}, stop = "recoverable" => status = "stopped",
         Close(r, status, stop),
         UNCHANGED <<lock, daemon, grant, blocked, attempts, registry, record, legacy, orch,
                     faults, deaths>>
  PROVE  SInv'
<1>1. SupervisorTypeOK  BY DEF SInv
<1>2. SupervisorTypeOK' /\ NoneOpened  BY <1>1, CloseEffect DEF SupervisorTypeOK
<1> QED  BY <1>2, WorldStep

LEMMA TickStep == ASSUME SInv, NEW p \in Pids, Tick(p) PROVE SInv'
<1>1. UNCHANGED <<lock, daemon, grant, attempts, registry, record, legacy, orch, faults, deaths>>
  BY DEF Tick
<1>2. PICK r \in Runs :
        \/ /\ blocked' \in BOOLEAN
           /\ quiet' = [quiet EXCEPT ![r] = FALSE]
           /\ UNCHANGED run
        \/ Close(r, "completed", None) /\ UNCHANGED blocked
        \/ \E s \in Stops : Close(r, "stopped", s) /\ UNCHANGED blocked
  BY DEF Tick, SInv, SupervisorTypeOK, Process
<1>3. CASE blocked' \in BOOLEAN /\ quiet' = [quiet EXCEPT ![r] = FALSE] /\ UNCHANGED run
  <2>1. SupervisorTypeOK'  BY <1>1, <1>3 DEF SInv, SupervisorTypeOK
  <2> QED  BY <1>1, <1>3, <2>1, WorldStep DEF NoneOpened
<1>4. CASE Close(r, "completed", None) /\ UNCHANGED blocked
  BY <1>1, <1>4, ClosingStep, NoneAssumption
<1>5. ASSUME NEW s \in Stops, Close(r, "stopped", s), UNCHANGED blocked PROVE SInv'
  BY <1>1, <1>5, ClosingStep
<1> QED  BY <1>2, <1>3, <1>4, <1>5

LEMMA QuietenStep == ASSUME SInv, NEW r \in Runs, Quieten(r) PROVE SInv'
<1>1. SupervisorTypeOK'  BY DEF SInv, SupervisorTypeOK, Quieten
<1> QED  BY <1>1, WorldStep DEF Quieten, NoneOpened

LEMMA KillSwitchStep == ASSUME SInv, NEW r \in Runs, KillSwitch(r) PROVE SInv'
BY ClosingStep DEF KillSwitch, Stops

LEMMA LoseGrantStep == ASSUME SInv, LoseGrant PROVE SInv'
<1>1. grant' \in [lost : {None, "revoked", "expired"}, uses : Nat]
  BY BoundsAssumption DEF LoseGrant, SInv, SupervisorTypeOK
<1>2. SupervisorTypeOK'  BY <1>1 DEF SInv, SupervisorTypeOK, LoseGrant
<1> QED  BY <1>2, WorldStep DEF LoseGrant, NoneOpened

-----------------------------------------------------------------------------
(* The cycle of a daemon that serves *)

LEMMA BeginCycleStep == ASSUME SInv, NEW d \in Daemons, BeginCycle(d) PROVE SInv'
<1> DEFINE rs == {r \in Runs : registry[r] # None}
           x == [daemon[d] EXCEPT !.pc = "next", !.todo = rs]
<1>1. /\ daemon[d].pc = "idle" /\ UNCHANGED <<lock, files, orch, faults, deaths>>
      /\ daemon' = [daemon EXCEPT ![d].pc = "next", ![d].todo = rs]
  BY DEF BeginCycle
<1>2. SupervisorTypeOK /\ daemon[d] \in Instance /\ Plan(d)
  BY DEF SInv, SupervisorTypeOK, RunInv
<1> HIDE DEF rs
<1>3. rs \subseteq Runs  BY DEF rs
<1>4. x \in Instance  BY <1>2, <1>3 DEF Instance, Serving
<1>5. daemon' = [daemon EXCEPT ![d] = x]  BY <1>1, <1>2
<1>6. x.pc = "next" /\ x.todo = rs /\ x.next = daemon[d].next  BY <1>2 DEF Instance
<1> HIDE DEF x
<1>7. /\ daemon' \in [Daemons -> Instance] /\ daemon'[d] = x
      /\ \A e \in Daemons : e # d => daemon'[e] = daemon[e]
  BY <1>2, <1>4, <1>5, DaemonWritten
<1>8. SupervisorTypeOK'  BY <1>1, <1>2, <1>7 DEF SupervisorTypeOK, files
<1>9. Plan(d)'  BY <1>1, <1>2, <1>6, <1>7 DEF Plan, files, Serving
<1>10. Knows(d)'
  BY <1>1, <1>6, <1>7 DEF Knows, Recovers, ReadsActive, Taken, rs, files
<1>11. Abandons(d)'  BY <1>6, <1>7 DEF Abandons, Recovers, ReadsActive
<1> QED
  BY <1>1, <1>6, <1>7, <1>8, <1>9, <1>10, <1>11, ServingStep DEF files, NoneOpened, Serving

LEMMA TakeRunStep == ASSUME SInv, NEW d \in Daemons, TakeRun(d) PROVE SInv'
<1>1. daemon[d].pc = "next" /\ UNCHANGED <<lock, files, orch, faults, deaths>>
  BY DEF TakeRun
<1>2. /\ SupervisorTypeOK /\ daemon[d] \in Instance /\ daemon[d].todo \subseteq Runs
      /\ None \notin Runs
  <2>1. None \notin Runs  BY NoneAssumption, BoundsAssumption DEF Runs
  <2>2. SupervisorTypeOK /\ daemon[d] \in Instance  BY DEF SInv, SupervisorTypeOK
  <2> QED  BY <2>1, <2>2 DEF Instance
<1>3. ASSUME NEW x \in Instance, daemon' = [daemon EXCEPT ![d] = x], x.next = None,
             x.pc \in {"observe", "idle"}, x.todo \subseteq daemon[d].todo,
             x.pc = "observe" => x.run \in daemon[d].todo \ x.todo
      PROVE  SInv'
  <2>1. /\ daemon' \in [Daemons -> Instance] /\ daemon'[d] = x
        /\ \A e \in Daemons : e # d => daemon'[e] = daemon[e]
    BY <1>2, <1>3, DaemonWritten
  <2>2. SupervisorTypeOK'  BY <1>1, <1>2, <2>1 DEF SupervisorTypeOK, files
  <2>3. Plan(d)'  BY <1>3, <2>1 DEF Plan, Serving
  <2>4. ASSUME ConcurrentStarts = FALSE PROVE Knows(d)'
    <3>1. \A r \in daemon[d].todo : registry[r] # None
      BY <1>1, <2>4 DEF SInv, AloneInv, Knows, Serving
    <3> QED  BY <1>1, <1>2, <1>3, <2>1, <3>1 DEF Knows, Recovers, ReadsActive, Taken, files
  <2>5. Abandons(d)'  BY <1>3, <2>1 DEF Abandons, Recovers, ReadsActive
  <2> QED
    BY <1>1, <1>3, <2>1, <2>2, <2>3, <2>4, <2>5, ServingStep DEF files, NoneOpened, Serving
<1>4. ASSUME NEW r \in daemon[d].todo,
             daemon' = [daemon EXCEPT ![d] = [Fresh EXCEPT !.pc = "observe", !.run = r,
                                                           !.todo = daemon[d].todo \ {r}]]
      PROVE  SInv'
  <2> DEFINE ts == daemon[d].todo \ {r}
             x == [Fresh EXCEPT !.pc = "observe", !.run = r, !.todo = ts]
  <2>1. x \in Instance
    <3>1. ts \in SUBSET Runs /\ r \in Runs /\ Fresh \in Instance  BY <1>2, FreshType
    <3> HIDE DEF ts
    <3> QED  BY <3>1 DEF Instance, Serving
  <2>2. x.pc = "observe" /\ x.run = r /\ x.todo = ts /\ x.next = None
    BY DEF Fresh
  <2> HIDE DEF x
  <2>3. daemon' = [daemon EXCEPT ![d] = x]  BY <1>4 DEF x
  <2> QED  BY <1>3, <2>1, <2>2, <2>3
<1>5. ASSUME daemon' = [daemon EXCEPT ![d] = [Fresh EXCEPT !.pc = "idle"]] PROVE SInv'
  <2>1. /\ [Fresh EXCEPT !.pc = "idle"].pc = "idle" /\ [Fresh EXCEPT !.pc = "idle"].todo = {}
        /\ [Fresh EXCEPT !.pc = "idle"].next = None
    BY DEF Fresh
  <2> QED  BY <1>3, <1>5, <2>1, FreshType
<1> QED  BY <1>4, <1>5 DEF TakeRun

\* The first half of an observation: while a recovery Run is uncounted, no registered
\* Run can be seen active.
LEMMA ObserveRunStep == ASSUME SInv, NEW d \in Daemons, ObserveRun(d) PROVE SInv'
<1> DEFINE r == daemon[d].run
           st == run[r].status
           pg == Progress(r)
           sight == [daemon[d].seen EXCEPT !.status = st, !.progress = pg]
           x == [daemon[d] EXCEPT !.pc = "process", !.seen = sight]
<1>1. /\ daemon[d].pc = "observe" /\ UNCHANGED <<lock, files, orch, faults, deaths>>
      /\ daemon' = [daemon EXCEPT ![d].pc = "process", ![d].seen.status = st,
                                   ![d].seen.progress = pg]
  BY DEF ObserveRun
<1>2. SupervisorTypeOK /\ daemon[d] \in Instance /\ Plan(d)
  BY DEF SInv, SupervisorTypeOK, RunInv
<1>3. r \in Runs /\ daemon[d].seen \in Sight  BY <1>2 DEF Instance
<1>4. st \in RunStatuses /\ pg \in Progresses
  BY <1>2, <1>3 DEF SupervisorTypeOK, Progress, Progresses
<1>5. st = "active" => pg # "terminal"  BY DEF Progress
<1> HIDE DEF st, pg
<1>6. sight \in Sight /\ sight.status = st /\ sight.progress = pg  BY <1>3, <1>4 DEF Sight
<1>7. daemon' = [daemon EXCEPT ![d] = x]  BY <1>1, <1>2 DEF Instance
<1> HIDE DEF sight
<1>8. x \in Instance  BY <1>2, <1>6 DEF Instance, Serving
<1>9. /\ x.pc = "process" /\ x.todo = daemon[d].todo /\ x.next = daemon[d].next /\ x.run = r
      /\ x.seen.status = st /\ x.seen.progress = pg
  BY <1>2, <1>6 DEF Instance
<1> HIDE DEF x
<1>10. /\ daemon' \in [Daemons -> Instance] /\ daemon'[d] = x
      /\ \A e \in Daemons : e # d => daemon'[e] = daemon[e]
  BY <1>2, <1>7, <1>8, DaemonWritten
<1>11. SupervisorTypeOK'  BY <1>1, <1>2, <1>10 DEF SupervisorTypeOK, files
<1>12. Plan(d)'  BY <1>1, <1>2, <1>5, <1>9, <1>10 DEF Plan, files, Serving
<1>13. ASSUME ConcurrentStarts = FALSE PROVE Knows(d)' /\ (Uncounted => Abandons(d)')
  <2>1. Knows(d) /\ OneActiveRun  BY <1>13 DEF SInv, AloneInv
  <2>2. registry[r] # None /\ r \notin daemon[d].todo /\ daemon[d].next \notin daemon[d].todo
        /\ \A s \in daemon[d].todo : registry[s] # None
    BY <1>1, <2>1 DEF Knows, Taken, Serving
  <2>3. st = "active" => \A s \in Runs \ {r} : run[s].status # "active"
    BY <1>3, <2>1 DEF OneActiveRun, st
  <2>4. Knows(d)'
    BY <1>1, <1>9, <1>10, <2>2, <2>3 DEF Knows, Recovers, ReadsActive, Taken, files
  <2>5. Uncounted => st # "active"  BY <1>3, <2>2 DEF Uncounted, st
  <2> QED  BY <1>9, <1>10, <2>4, <2>5 DEF Abandons, Recovers, ReadsActive
<1> QED
  BY <1>1, <1>9, <1>10, <1>11, <1>12, <1>13, ServingStep DEF files, NoneOpened, Serving

\* The second half: the step that is chosen; a recovery only of a Run seen active.
LEMMA ChosenAction ==
  ASSUME NEW sight \in Sight, NEW alive, NEW rec,
         sight.status = "active" => sight.progress # "terminal"
  PROVE  /\ ChooseAction(sight, alive, rec)[1] \in {"kill", "mark", "source", "start"}
         /\ ChooseAction(sight, alive, rec)[2] \in Marks \cup {None}
         /\ ChooseAction(sight, alive, rec)[1] = "source" => sight.status = "active"
<1> DEFINE c == ChooseAction(sight, alive, rec)
<1>1. sight.progress \in {"terminal", "blocked", "stalled", "progressing"}  BY DEF Sight, Progresses
<1>2. sight.status # "active" => c \in {<<"kill", "terminal">>, <<"mark", "terminal">>}
  BY DEF ChooseAction
<1>3. sight.status = "active" /\ sight.progress = "blocked" =>
        c \in {<<"kill", "needs_human">>, <<"mark", "needs_human">>}
  BY DEF ChooseAction
<1>4. sight.status = "active" /\ sight.progress = "stalled" => c = <<"source", None>>
  BY DEF ChooseAction
<1>5. sight.status = "active" /\ sight.progress = "progressing" =>
        c \in {<<"mark", "served">>, <<"source", None>>, <<"start", "served">>}
  BY DEF ChooseAction
<1> QED  BY <1>1, <1>2, <1>3, <1>4, <1>5 DEF Marks

LEMMA ObserveProcessStep == ASSUME SInv, NEW d \in Daemons, ObserveProcess(d) PROVE SInv'
<1> DEFINE r == daemon[d].run
           plan == ChooseAction(daemon[d].seen, ProcessAlive(r), record[r])
           pc == plan[1]
           mk == plan[2]
           sight == [NoSight EXCEPT !.epoch = EpochOf(r)]
           x == [daemon[d] EXCEPT !.pc = pc, !.mark = mk, !.seen = sight]
<1>1. /\ daemon[d].pc = "process" /\ UNCHANGED <<lock, files, orch, faults, deaths>>
      /\ daemon' = [daemon EXCEPT ![d].pc = pc, ![d].mark = mk, ![d].seen = sight]
  BY DEF ObserveProcess
<1>2. SupervisorTypeOK /\ daemon[d] \in Instance /\ Plan(d)
  BY DEF SInv, SupervisorTypeOK, RunInv
<1>3. /\ r \in Runs /\ daemon[d].seen \in Sight
      /\ daemon[d].seen.status = "active" => daemon[d].seen.progress # "terminal"
  BY <1>1, <1>2 DEF Instance, Plan
<1>4. sight \in Sight /\ sight.status = "none"
  <2>1. record[r] \in [pid : Pids \cup {None}, epoch : Nat]  BY <1>2, <1>3 DEF SupervisorTypeOK
  <2>2. EpochOf(r) \in Nat \cup {None}  BY <2>1 DEF EpochOf
  <2> QED  BY <2>2 DEF Sight, NoSight, RunStatuses, Progresses
<1>5. /\ pc \in {"kill", "mark", "source", "start"} /\ mk \in Marks \cup {None}
      /\ pc = "source" => daemon[d].seen.status = "active"
  BY <1>3, ChosenAction
<1> HIDE DEF pc, mk, sight
<1>6. daemon' = [daemon EXCEPT ![d] = x]  BY <1>1, <1>2
<1>7. x \in Instance  BY <1>2, <1>4, <1>5 DEF Instance, Serving
<1>8. /\ x.pc = pc /\ x.todo = daemon[d].todo /\ x.next = daemon[d].next /\ x.run = r
  BY <1>2 DEF Instance
<1> HIDE DEF x
<1>9. /\ daemon' \in [Daemons -> Instance] /\ daemon'[d] = x
      /\ \A e \in Daemons : e # d => daemon'[e] = daemon[e]
  BY <1>2, <1>6, <1>7, DaemonWritten
<1>10. SupervisorTypeOK'  BY <1>1, <1>2, <1>9 DEF SupervisorTypeOK, files
<1>11. Plan(d)'  BY <1>1, <1>2, <1>5, <1>8, <1>9 DEF Plan, files, Serving
<1>12. ASSUME ConcurrentStarts = FALSE PROVE Knows(d)'
  <2>1. Knows(d)  BY <1>12 DEF SInv, AloneInv
  <2>2. pc = "source" => ReadsActive(d)  BY <1>1, <1>5 DEF ReadsActive
  <2> QED
    BY <1>1, <1>5, <1>8, <1>9, <2>1, <2>2 DEF Knows, Recovers, ReadsActive, Taken, files, Serving
<1>13. ASSUME Uncounted PROVE Abandons(d)'
  <2>1. ~Recovers(d)  BY <1>1, <1>13 DEF Uncounted, Counts, Abandons
  <2>2. pc # "source"  BY <1>1, <1>5, <2>1 DEF Recovers, ReadsActive
  <2> QED  BY <1>5, <1>8, <1>9, <2>2 DEF Abandons, Recovers, ReadsActive
<1>14. daemon'[d].pc \in Serving  BY <1>5, <1>8, <1>9 DEF Serving
<1> QED
  BY <1>1, <1>9, <1>10, <1>11, <1>12, <1>13, <1>14, ServingStep DEF files, NoneOpened, Serving

\* A step that moves the daemon on among the places where it recovers nothing, and
\* changes none of the files that say what was opened, counted and registered.
LEMMA MovingStep ==
  ASSUME SInv, SupervisorTypeOK', NEW d \in Daemons,
         daemon[d].pc \in {"kill", "start", "spawn", "record"},
         daemon'[d].pc \in {"spawn", "record", "mark"},
         daemon'[d].todo = daemon[d].todo, daemon'[d].next = daemon[d].next,
         daemon'[d].run = daemon[d].run,
         \A e \in Daemons : e # d => daemon'[e] = daemon[e],
         UNCHANGED <<lock, run, attempts, registry>>
  PROVE  SInv'
<1>1. Plan(d)  BY DEF SInv, RunInv
<1>2. Plan(d)'  BY <1>1 DEF Plan, Serving
<1>3. ASSUME ConcurrentStarts = FALSE PROVE Knows(d)'
  <2>1. Knows(d)  BY <1>3 DEF SInv, AloneInv
  <2> QED  BY <2>1 DEF Knows, Recovers, ReadsActive, Taken, Serving
<1>4. Abandons(d)'  BY DEF Abandons, Recovers, ReadsActive
<1> QED  BY <1>2, <1>3, <1>4, ServingStep DEF NoneOpened, Serving

LEMMA TerminateStep == ASSUME SInv, NEW d \in Daemons, Terminate(d) PROVE SInv'
<1>1. daemon[d].pc = "kill" /\ Goto(d, "mark") /\ UNCHANGED <<lock, files, faults, deaths>>
  BY DEF Terminate
<1>2. SupervisorTypeOK /\ daemon[d].run \in Runs
  BY DEF SInv, SupervisorTypeOK, Instance
<1>3. /\ daemon' \in [Daemons -> Instance] /\ daemon'[d].pc = "mark"
      /\ daemon'[d].todo = daemon[d].todo /\ daemon'[d].next = daemon[d].next
      /\ daemon'[d].run = daemon[d].run
      /\ \A e \in Daemons : e # d => daemon'[e] = daemon[e]
  BY <1>1, <1>2, Went DEF Serving
<1>4. orch' \in [Pids -> Process]
  <2>1. record[daemon[d].run].pid \in Pids \cup {None}  BY <1>2 DEF SupervisorTypeOK
  <2> QED  BY <1>2, <2>1, EndedType DEF Terminate, PidAlive, SupervisorTypeOK
<1>5. SupervisorTypeOK'  BY <1>1, <1>2, <1>3, <1>4 DEF SupervisorTypeOK, files
<1> QED  BY <1>1, <1>3, <1>5, MovingStep DEF files

LEMMA CheckGrantStep == ASSUME SInv, NEW d \in Daemons, CheckGrant(d) PROVE SInv'
<1>1. daemon[d].pc = "start" /\ Goto(d, "spawn") /\ UNCHANGED <<lock, files, orch, faults, deaths>>
  BY DEF CheckGrant
<1>2. SupervisorTypeOK  BY DEF SInv
<1>3. /\ daemon' \in [Daemons -> Instance] /\ daemon'[d].pc = "spawn"
      /\ daemon'[d].todo = daemon[d].todo /\ daemon'[d].next = daemon[d].next
      /\ daemon'[d].run = daemon[d].run
      /\ \A e \in Daemons : e # d => daemon'[e] = daemon[e]
  BY <1>1, <1>2, Went DEF Serving
<1>4. SupervisorTypeOK'  BY <1>1, <1>2, <1>3 DEF SupervisorTypeOK, files
<1> QED  BY <1>1, <1>3, <1>4, MovingStep DEF files

LEMMA SpawnStep == ASSUME SInv, NEW d \in Daemons, Spawn(d) PROVE SInv'
<1>1. PICK p \in Pids :
        /\ orch' = [Reaped(d) EXCEPT ![p] = [state |-> "spawned", run |-> daemon[d].run,
                                             parent |-> d, recorded |-> FALSE]]
        /\ daemon' = [daemon EXCEPT ![d].pc = "record", ![d].pid = p]
  BY DEF Spawn
<1> DEFINE x == [daemon[d] EXCEPT !.pc = "record", !.pid = p]
<1>2. daemon[d].pc = "spawn" /\ UNCHANGED <<lock, files, faults, deaths>>  BY DEF Spawn
<1>3. SupervisorTypeOK /\ daemon[d] \in Instance /\ daemon[d].run \in Runs
  BY DEF SInv, SupervisorTypeOK, Instance
<1>4. x \in Instance  BY <1>3 DEF Instance, Serving
<1>5. /\ x.pc = "record" /\ x.todo = daemon[d].todo /\ x.next = daemon[d].next
      /\ x.run = daemon[d].run
  BY <1>3 DEF Instance
<1>6. daemon' = [daemon EXCEPT ![d] = x]  BY <1>1, <1>3
<1> HIDE DEF x
<1>7. /\ daemon' \in [Daemons -> Instance] /\ daemon'[d] = x
      /\ \A e \in Daemons : e # d => daemon'[e] = daemon[e]
  BY <1>3, <1>4, <1>6, DaemonWritten
<1>8. orch' \in [Pids -> Process]
  <2>1. [state |-> "spawned", run |-> daemon[d].run, parent |-> d, recorded |-> FALSE] \in Process
    BY <1>3 DEF Process
  <2> QED  BY <1>1, <1>3, <2>1, ReapedType
<1>9. SupervisorTypeOK'  BY <1>2, <1>3, <1>7, <1>8 DEF SupervisorTypeOK, files
<1> QED  BY <1>2, <1>5, <1>7, <1>9, MovingStep DEF files

LEMMA WriteRecordStep == ASSUME SInv, NEW d \in Daemons, WriteRecord(d) PROVE SInv'
<1> DEFINE e == daemon[d].seen.epoch
           n == (IF e = None THEN 0 ELSE e) + 1
<1>1. /\ daemon[d].pc = "record" /\ Goto(d, "mark")
      /\ record' = [record EXCEPT ![daemon[d].run] = [pid |-> daemon[d].pid, epoch |-> n]]
      /\ orch' = [orch EXCEPT ![daemon[d].pid].recorded = TRUE]
      /\ UNCHANGED <<lock, run, grant, blocked, quiet, attempts, registry, legacy, faults, deaths>>
  BY DEF WriteRecord
<1>2. /\ SupervisorTypeOK /\ daemon[d].run \in Runs /\ daemon[d].seen \in Sight
      /\ daemon[d].pid \in Pids \cup {None}
  BY DEF SInv, SupervisorTypeOK, Instance
<1>3. n \in Nat  BY <1>2 DEF Sight
<1> HIDE DEF n
<1>4. record' \in [Runs -> [pid : Pids \cup {None}, epoch : Nat]]
  BY <1>1, <1>2, <1>3 DEF SupervisorTypeOK
<1>5. orch' \in [Pids -> Process]
  <2>1. CASE daemon[d].pid \in Pids
    <3>1. orch[daemon[d].pid] \in Process  BY <1>2, <2>1 DEF SupervisorTypeOK
    <3>2. [orch[daemon[d].pid] EXCEPT !.recorded = TRUE] \in Process  BY <3>1 DEF Process
    <3> QED  BY <1>1, <1>2, <2>1, <3>2 DEF SupervisorTypeOK
  <2>2. CASE daemon[d].pid \notin Pids
    BY <1>1, <1>2, <2>2 DEF SupervisorTypeOK
  <2> QED  BY <2>1, <2>2
<1>6. /\ daemon' \in [Daemons -> Instance] /\ daemon'[d].pc = "mark"
      /\ daemon'[d].todo = daemon[d].todo /\ daemon'[d].next = daemon[d].next
      /\ daemon'[d].run = daemon[d].run
      /\ \A f \in Daemons : f # d => daemon'[f] = daemon[f]
  BY <1>1, <1>2, Went DEF Serving
<1>7. SupervisorTypeOK'  BY <1>1, <1>2, <1>4, <1>5, <1>6 DEF SupervisorTypeOK
<1> QED  BY <1>1, <1>6, <1>7, MovingStep

LEMMA MarkStep == ASSUME SInv, NEW d \in Daemons, Mark(d) PROVE SInv'
<1> DEFINE r == daemon[d].run
           ts == daemon[d].todo
           x == [Fresh EXCEPT !.pc = "next", !.todo = ts]
<1>1. /\ daemon[d].pc = "mark" /\ daemon' = [daemon EXCEPT ![d] = x]
      /\ registry' = IF registry[r] = None THEN registry
                     ELSE [registry EXCEPT ![r] = daemon[d].mark]
      /\ UNCHANGED <<lock, run, grant, blocked, quiet, attempts, record, legacy, orch, faults, deaths>>
  BY DEF Mark
<1>2. /\ SupervisorTypeOK /\ r \in Runs /\ ts \in SUBSET Runs
      /\ daemon[d].mark \in Marks \cup {None}
  BY DEF SInv, SupervisorTypeOK, Instance
<1>3. /\ registry' \in [Runs -> Marks \cup {None}]
      /\ \A t \in Runs : registry'[t] # None => registry[t] # None
      /\ \A t \in Runs : t # r => registry'[t] = registry[t]
  BY <1>1, <1>2 DEF SupervisorTypeOK
<1> HIDE DEF ts
<1>4. x \in Instance
  <2>1. "next" \in Serving /\ Fresh \in Instance /\ ts \in SUBSET Runs  BY <1>2, FreshType DEF Serving
  <2> QED  BY <2>1 DEF Instance
<1>5. x.pc = "next" /\ x.todo = ts /\ x.next = None  BY DEF Fresh
<1> HIDE DEF x
<1>6. /\ daemon' \in [Daemons -> Instance] /\ daemon'[d] = x
      /\ \A e \in Daemons : e # d => daemon'[e] = daemon[e]
  BY <1>1, <1>2, <1>4, DaemonWritten
<1>7. SupervisorTypeOK'  BY <1>1, <1>2, <1>3, <1>6 DEF SupervisorTypeOK
<1>8. Plan(d)'  BY <1>5, <1>6 DEF Plan, Serving
<1>9. ASSUME ConcurrentStarts = FALSE PROVE Knows(d)'
  <2>1. Knows(d)  BY <1>9 DEF SInv, AloneInv
  <2>2. r \notin ts /\ \A t \in ts : registry[t] # None
    BY <1>1, <2>1 DEF Knows, Taken, Serving, ts
  <2> QED  BY <1>2, <1>3, <1>5, <1>6, <2>2 DEF Knows, Recovers, ReadsActive, Taken
<1>10. Abandons(d)'  BY <1>5, <1>6 DEF Abandons, Recovers, ReadsActive
<1> QED
  BY <1>1, <1>3, <1>5, <1>6, <1>7, <1>8, <1>9, <1>10, ServingStep DEF NoneOpened, Serving

-----------------------------------------------------------------------------
(* Recovery *)

LEMMA ReadSourceStep == ASSUME SInv, NEW d \in Daemons, ReadSource(d) PROVE SInv'
<1>1. daemon[d].pc = "source" /\ UNCHANGED <<lock, files, orch, faults, deaths>>
  BY DEF ReadSource
<1>2. /\ SupervisorTypeOK /\ daemon[d] \in Instance /\ Plan(d) /\ daemon[d].run \in Runs
      /\ attempts \in Nat
  BY DEF SInv, SupervisorTypeOK, RunInv, Instance
<1>3. Limit \in Nat  BY BoundsAssumption DEF Limit
<1>4. ASSUME NEW x \in Instance, daemon' = [daemon EXCEPT ![d] = x],
             x.todo = daemon[d].todo, x.next = daemon[d].next, x.run = daemon[d].run,
             \/ x.pc = "state" /\ x.attempt = attempts
             \/ x.pc = "close" /\ x.attempt = attempts + 1 /\ attempts < Limit
             \/ x.pc = "judge" /\ x.attempt = attempts + 1 /\ attempts < Limit
                               /\ run[x.run].status # "active"
      PROVE  SInv'
  <2>1. /\ daemon' \in [Daemons -> Instance] /\ daemon'[d] = x
        /\ \A e \in Daemons : e # d => daemon'[e] = daemon[e]
    BY <1>2, <1>4, DaemonWritten
  <2>2. SupervisorTypeOK'  BY <1>1, <1>2, <2>1 DEF SupervisorTypeOK, files
  <2>3. Plan(d)'  BY <1>1, <1>2, <1>4, <2>1 DEF Plan, Serving, files
  <2>4. ASSUME ConcurrentStarts = FALSE PROVE Knows(d)'
    <3>1. Knows(d)  BY <2>4 DEF SInv, AloneInv
    <3> QED  BY <1>1, <1>4, <2>1, <3>1 DEF Knows, Recovers, ReadsActive, Taken, Serving, files
  <2>5. ~Uncounted  BY <1>1 DEF Uncounted, Counts, Abandons, Recovers
  <2>6. daemon[d].pc \in Serving /\ daemon'[d].pc \in Serving  BY <1>1, <1>4, <2>1 DEF Serving
  <2> QED
    BY <1>1, <2>1, <2>2, <2>3, <2>4, <2>5, <2>6, ServingStep DEF files, NoneOpened
<1>5. CASE attempts + 1 > Limit
  <2> DEFINE x == [daemon[d] EXCEPT !.pc = "state", !.attempt = attempts, !.mark = "dead_letter"]
  <2>1. x \in Instance  BY <1>2 DEF Instance, Serving, Marks
  <2>2. daemon' = [daemon EXCEPT ![d] = x]  BY <1>2, <1>5 DEF ReadSource
  <2>3. /\ x.todo = daemon[d].todo /\ x.next = daemon[d].next /\ x.run = daemon[d].run
        /\ x.pc = "state" /\ x.attempt = attempts
    BY <1>2 DEF Instance
  <2> HIDE DEF x
  <2> QED  BY <1>4, <2>1, <2>2, <2>3
<1>6. CASE ~(attempts + 1 > Limit)
  <2> DEFINE s == IF run[daemon[d].run].status = "active" THEN "close" ELSE "judge"
             x == [daemon[d] EXCEPT !.pc = s, !.attempt = attempts + 1]
  <2>1. s \in {"close", "judge"} /\ (s = "judge" => run[daemon[d].run].status # "active")
    OBVIOUS
  <2>2. daemon' = [daemon EXCEPT ![d].pc = s, ![d].attempt = attempts + 1]
    BY <1>6 DEF ReadSource
  <2> HIDE DEF s
  <2>3. x \in Instance
    <3>1. s \in Serving /\ attempts + 1 \in Nat /\ daemon[d] \in Instance
      BY <1>2, <2>1 DEF Serving
    <3> QED  BY <3>1 DEF Instance
  <2>4. daemon' = [daemon EXCEPT ![d] = x]  BY <1>2, <2>2
  <2>5. /\ x.todo = daemon[d].todo /\ x.next = daemon[d].next /\ x.run = daemon[d].run
        /\ x.pc = s /\ x.attempt = attempts + 1
    BY <1>2 DEF Instance
  <2> HIDE DEF x
  <2>6. attempts < Limit  BY <1>2, <1>3, <1>6
  <2> QED  BY <1>4, <2>1, <2>3, <2>4, <2>5, <2>6
<1> QED  BY <1>5, <1>6

\* A step of a recovery that goes on, or is given up, without opening a Run.
LEMMA RecoveringStep ==
  ASSUME SInv, SupervisorTypeOK', NEW d \in Daemons,
         daemon[d].pc \in {"close", "judge", "reset", "open"},
         daemon'[d].pc \in {"judge", "reset", "open", "state"},
         daemon'[d].todo = daemon[d].todo, daemon'[d].next = daemon[d].next,
         daemon'[d].run = daemon[d].run, daemon'[d].attempt = daemon[d].attempt,
         \A e \in Daemons : e # d => daemon'[e] = daemon[e],
         UNCHANGED <<lock, attempts, registry>>, NoneOpened,
         daemon'[d].pc \in {"judge", "reset", "open"} => run'[daemon[d].run].status # "active",
         daemon'[d].pc \in {"reset", "open"} => run'[daemon[d].run].stop = "recoverable"
  PROVE  SInv'
<1>1. Plan(d) /\ daemon[d].next \in Runs \cup {None} /\ daemon[d].run \in Runs
  BY DEF SInv, RunInv, SupervisorTypeOK, Instance
<1>2. Plan(d)'  BY <1>1, KeptRuns DEF Plan, Serving
<1>3. ASSUME ConcurrentStarts = FALSE PROVE Knows(d)'
  <2>1. Knows(d) /\ Recovers(d)  BY <1>3 DEF SInv, AloneInv, Recovers
  <2>2. \A r \in Runs \ {daemon[d].run} : run'[r].status # "active"
    BY <2>1, KeptRuns DEF Knows
  <2> QED  BY <1>1, <2>1, <2>2 DEF Knows, Recovers, ReadsActive, Taken, Serving
<1>4. ~Uncounted  BY DEF Uncounted, Counts, Abandons, Recovers
<1>5. daemon[d].pc \in Serving /\ daemon'[d].pc \in Serving  BY DEF Serving
<1> QED  BY <1>2, <1>3, <1>4, <1>5, ServingStep

LEMMA GaveUp ==
  ASSUME SupervisorTypeOK, NEW d \in Daemons, GiveUp(d)
  PROVE  /\ daemon' \in [Daemons -> Instance] /\ daemon'[d].pc = "state"
         /\ daemon'[d].todo = daemon[d].todo /\ daemon'[d].next = daemon[d].next
         /\ daemon'[d].run = daemon[d].run /\ daemon'[d].attempt = daemon[d].attempt
         /\ \A e \in Daemons : e # d => daemon'[e] = daemon[e]
<1> DEFINE x == [daemon[d] EXCEPT !.pc = "state", !.mark = "needs_human"]
<1>1. daemon[d] \in Instance  BY DEF SupervisorTypeOK
<1>2. x \in Instance  BY <1>1 DEF Instance, Serving, Marks
<1>3. daemon' = [daemon EXCEPT ![d] = x]  BY <1>1 DEF GiveUp
<1>4. /\ x.pc = "state" /\ x.todo = daemon[d].todo /\ x.next = daemon[d].next
      /\ x.run = daemon[d].run /\ x.attempt = daemon[d].attempt
  BY <1>1 DEF Instance
<1> HIDE DEF x
<1> QED  BY <1>2, <1>3, <1>4, DaemonWritten

LEMMA GiveUpStep ==
  ASSUME SInv, NEW d \in Daemons, daemon[d].pc \in {"close", "judge", "reset", "open"}, GiveUp(d),
         UNCHANGED <<lock, files, orch, faults, deaths>>
  PROVE  SInv'
<1>1. SupervisorTypeOK  BY DEF SInv
<1>2. SupervisorTypeOK'  BY <1>1, GaveUp DEF SupervisorTypeOK, files
<1> QED  BY <1>1, <1>2, GaveUp, RecoveringStep DEF files, NoneOpened

LEMMA CloseSourceStep == ASSUME SInv, NEW d \in Daemons, CloseSource(d) PROVE SInv'
<1>1. daemon[d].pc = "close"
      /\ UNCHANGED <<lock, grant, blocked, attempts, registry, record, legacy, orch, faults, deaths>>
  BY DEF CloseSource
<1>2. SupervisorTypeOK /\ daemon[d].run \in Runs  BY DEF SInv, SupervisorTypeOK, Instance
<1>3. CASE Close(daemon[d].run, "stopped", "recoverable") /\ Goto(d, "judge")
  <2>1. /\ run' \in [Runs -> [status : RunStatuses, stop : Stops \cup {None},
                               from : Runs \cup {None}]]
        /\ quiet' \in [Runs -> BOOLEAN] /\ NoneOpened
        /\ run'[daemon[d].run].status = "stopped"
    BY <1>2, <1>3, CloseEffect DEF Stops
  <2>2. /\ daemon' \in [Daemons -> Instance] /\ daemon'[d].pc = "judge"
        /\ daemon'[d].todo = daemon[d].todo /\ daemon'[d].next = daemon[d].next
        /\ daemon'[d].run = daemon[d].run /\ daemon'[d].attempt = daemon[d].attempt
        /\ \A e \in Daemons : e # d => daemon'[e] = daemon[e]
    BY <1>2, <1>3, Went DEF Serving
  <2>3. SupervisorTypeOK'  BY <1>1, <1>2, <2>1, <2>2 DEF SupervisorTypeOK
  <2> QED  BY <1>1, <2>1, <2>2, <2>3, RecoveringStep
<1>4. CASE GiveUp(d) /\ UNCHANGED <<run, quiet>>
  BY <1>1, <1>4, GiveUpStep DEF files
<1> QED  BY <1>3, <1>4 DEF CloseSource

LEMMA JudgeStopStep == ASSUME SInv, NEW d \in Daemons, JudgeStop(d) PROVE SInv'
<1>1. daemon[d].pc = "judge" /\ UNCHANGED <<lock, files, orch, faults, deaths>>
  BY DEF JudgeStop
<1>2. SupervisorTypeOK /\ daemon[d].run \in Runs /\ RunInv
  BY DEF SInv, SupervisorTypeOK, Instance
<1>3. CASE run[daemon[d].run].stop = "recoverable" /\ Goto(d, "reset")
  <2>1. /\ daemon' \in [Daemons -> Instance] /\ daemon'[d].pc = "reset"
        /\ daemon'[d].todo = daemon[d].todo /\ daemon'[d].next = daemon[d].next
        /\ daemon'[d].run = daemon[d].run /\ daemon'[d].attempt = daemon[d].attempt
        /\ \A e \in Daemons : e # d => daemon'[e] = daemon[e]
    BY <1>2, <1>3, Went DEF Serving
  <2>2. SupervisorTypeOK'  BY <1>1, <1>2, <2>1 DEF SupervisorTypeOK, files
  <2>3. run[daemon[d].run].status = "stopped"  BY <1>2, <1>3 DEF RunInv
  <2> QED  BY <1>1, <1>3, <2>1, <2>2, <2>3, RecoveringStep DEF files, NoneOpened
<1> QED  BY <1>1, <1>3, GiveUpStep DEF JudgeStop

LEMMA ResetUnitsStep == ASSUME SInv, NEW d \in Daemons, ResetUnits(d) PROVE SInv'
<1>1. daemon[d].pc = "reset"
      /\ UNCHANGED <<lock, run, grant, quiet, attempts, registry, record, legacy, orch, faults, deaths>>
  BY DEF ResetUnits
<1>2. SupervisorTypeOK /\ daemon[d].run \in Runs /\ RunInv /\ Plan(d)
  BY DEF SInv, SupervisorTypeOK, Instance, RunInv
<1>3. CASE blocked' = FALSE /\ Goto(d, "open")
  <2>1. /\ daemon' \in [Daemons -> Instance] /\ daemon'[d].pc = "open"
        /\ daemon'[d].todo = daemon[d].todo /\ daemon'[d].next = daemon[d].next
        /\ daemon'[d].run = daemon[d].run /\ daemon'[d].attempt = daemon[d].attempt
        /\ \A e \in Daemons : e # d => daemon'[e] = daemon[e]
    BY <1>2, <1>3, Went DEF Serving
  <2>2. SupervisorTypeOK'  BY <1>1, <1>2, <1>3, <2>1 DEF SupervisorTypeOK
  <2>3. run[daemon[d].run].stop = "recoverable" /\ run[daemon[d].run].status = "stopped"
    BY <1>1, <1>2 DEF RunInv, Plan
  <2> QED  BY <1>1, <2>1, <2>2, <2>3, RecoveringStep DEF NoneOpened
<1>4. CASE GiveUp(d) /\ UNCHANGED blocked
  BY <1>1, <1>4, GiveUpStep DEF files
<1> QED  BY <1>3, <1>4 DEF ResetUnits

\* The Runs that were opened are finitely many.
LEMMA OpenedFinite == IsFiniteSet(Opened) /\ Cardinality(Opened) \in Nat
<1>1. IsFiniteSet(Runs)
  <2>1. 0 \in Int /\ MaxRuns - 1 \in Int  BY BoundsAssumption
  <2> QED  BY <2>1, FS_Interval DEF Runs
<1>2. Opened \subseteq Runs  BY DEF Opened
<1> QED  BY <1>1, <1>2, FS_Subset, FS_CardinalityType

LEMMA OpenRecoveryStep == ASSUME SInv, NEW d \in Daemons, OpenRecovery(d) PROVE SInv'
<1>1. daemon[d].pc = "open"
      /\ UNCHANGED <<lock, blocked, quiet, attempts, registry, record, legacy, orch, faults, deaths>>
  BY DEF OpenRecovery
<1>2. CASE GiveUp(d) /\ UNCHANGED <<run, grant>>
  BY <1>1, <1>2, GiveUpStep DEF files
<1>3. ASSUME NEW n \in Runs \ Opened,
             run' = [run EXCEPT ![n] = [status |-> "active", stop |-> None,
                                        from |-> daemon[d].run]],
             grant' = [grant EXCEPT !.uses = grant.uses + 1],
             daemon' = [daemon EXCEPT ![d].pc = "state", ![d].next = n]
      PROVE  SInv'
  <2> DEFINE r == daemon[d].run
             x == [daemon[d] EXCEPT !.pc = "state", !.next = n]
  <2>1. /\ SupervisorTypeOK /\ daemon[d] \in Instance /\ r \in Runs /\ RunInv /\ Plan(d)
        /\ attempts \in Nat
    BY DEF SInv, SupervisorTypeOK, Instance, RunInv
  <2>2. x \in Instance  BY <2>1 DEF Instance, Serving
  <2>3. daemon' = [daemon EXCEPT ![d] = x]  BY <1>3, <2>1
  <2>4. /\ x.pc = "state" /\ x.todo = daemon[d].todo /\ x.next = n /\ x.run = r
        /\ x.attempt = daemon[d].attempt
    BY <2>1 DEF Instance
  <2> HIDE DEF x
  <2>5. /\ daemon' \in [Daemons -> Instance] /\ daemon'[d] = x
        /\ \A e \in Daemons : e # d => daemon'[e] = daemon[e]
    BY <2>1, <2>2, <2>3, DaemonWritten
  <2>6. /\ run' \in [Runs -> [status : RunStatuses, stop : Stops \cup {None},
                               from : Runs \cup {None}]]
        /\ run'[n].status = "active" /\ run'[n].stop = None /\ run'[n].from = r
        /\ \A s \in Runs \ {n} : run'[s] = run[s]
    BY <1>3, <2>1 DEF SupervisorTypeOK, RunStatuses
  <2>7. grant' \in [lost : {None, "revoked", "expired"}, uses : Nat]
    BY <1>3, <2>1 DEF SupervisorTypeOK
  <2>8. SupervisorTypeOK'  BY <1>1, <2>1, <2>5, <2>6, <2>7 DEF SupervisorTypeOK
  <2>9. run[n].status = "none"  BY <1>3 DEF Opened
  <2>10. n # r /\ run[r].stop = "recoverable" /\ run[r].status = "stopped"
    BY <1>1, <2>1, <2>9 DEF RunInv, Plan
  <2>11. RunInv'
    <3>1. \A s \in Runs : run'[s].stop = "recoverable" => run'[s].status = "stopped"
      BY <2>1, <2>6, NoneAssumption DEF RunInv
    <3>2. \A s \in Runs : run[s].stop = "recoverable" => s # n  BY <2>1, <2>9 DEF RunInv
    <3>3. \A s \in Runs : run[s].from \in Runs \cup {None}  BY <2>1 DEF SupervisorTypeOK
    <3>4. \A s \in Runs : run'[s].from # None => run'[run'[s].from].stop = "recoverable"
      <4> SUFFICES ASSUME NEW s \in Runs, run'[s].from # None
                   PROVE  run'[run'[s].from].stop = "recoverable"
        OBVIOUS
      <4>1. CASE s = n  BY <2>1, <2>6, <2>10, <4>1
      <4>2. CASE s # n
        <5>1. run'[s] = run[s] /\ run[s].from \in Runs  BY <2>6, <3>3, <4>2
        <5>2. run[run[s].from].stop = "recoverable"  BY <2>1, <5>1 DEF RunInv
        <5> QED  BY <2>6, <3>2, <5>1, <5>2
      <4> QED  BY <4>1, <4>2
    <3>5. \A s \in Runs : registry'[s] # None => run'[s].status # "none"
      BY <1>1, <2>1, <2>6 DEF RunInv
    <3>6. ASSUME NEW e \in Daemons, e # d PROVE Plan(e)'
      <4>1. Plan(e) /\ daemon[e].run \in Runs /\ daemon[e].next \in Runs \cup {None}
        BY <2>1 DEF RunInv, SupervisorTypeOK, Instance
      <4> QED  BY <2>5, <2>6, <2>9, <3>2, <3>6, <4>1 DEF Plan
    <3>7. Plan(d)'  BY <2>4, <2>5, <2>6 DEF Plan, Serving
    <3> QED  BY <3>1, <3>4, <3>5, <3>6, <3>7 DEF RunInv
  <2>12. ASSUME ConcurrentStarts = FALSE PROVE AloneInv'
    <3>1. AloneInv /\ Knows(d)  BY <2>12 DEF SInv, AloneInv
    <3>2. \A s \in Runs : run[s].status # "active"  BY <1>1, <3>1 DEF Knows, Recovers
    <3>3. \A e \in Daemons : e # d => daemon[e].pc \notin Serving /\ daemon[e].pc \notin Starting
      BY <1>1, <3>1, OthersIdle DEF AloneInv, Serving
    <3>4. LockInv'
      BY <1>1, <2>4, <2>5, <3>1, <3>3 DEF AloneInv, LockInv, Starting, Serving
    <3>5. daemon[d].attempt = attempts + 1 /\ attempts < Limit
          /\ r \notin daemon[d].todo /\ \A s \in daemon[d].todo : registry[s] # None
      BY <1>1, <3>1 DEF Knows, Taken, Serving
    <3>6. n \notin daemon[d].todo  BY <2>1, <2>9, <3>5 DEF RunInv
    <3>7. Knows(d)'
      BY <1>1, <2>4, <2>5, <3>5, <3>6 DEF Knows, Recovers, ReadsActive, Taken
    <3>8. ASSUME NEW e \in Daemons, e # d PROVE Knows(e)' /\ Abandons(e)'
      BY <2>5, <3>3, <3>8 DEF Knows, Abandons, Recovers, ReadsActive, Taken, Serving
    <3>9. OneActiveRun'  BY <2>6, <3>2 DEF OneActiveRun
    <3>10. CountInv'
      <4>1. Cardinality(Opened) <= 1 + attempts /\ attempts <= Limit
        BY <1>1, <3>1 DEF AloneInv, CountInv, Uncounted, Counts, Abandons, Recovers
      <4>2. Opened' = Opened \cup {n}  BY <1>3, <2>6 DEF Opened
      <4>3. Cardinality(Opened)' = Cardinality(Opened) + 1
        BY <1>3, <4>2, OpenedFinite, FS_AddElement
      <4>4. Counts(d)'  BY <1>1, <2>4, <2>5, <3>5 DEF Counts
      <4>5. \A s \in Runs : registry'[s] # None => run'[s].status # "active"
        BY <1>1, <2>1, <2>6, <2>9, <3>2 DEF RunInv
      <4>6. Cardinality(Opened)' <= 2 + attempts'
        BY <1>1, <2>1, <4>1, <4>3, OpenedFinite
      <4>7. attempts' <= Limit' /\ attempts' < Limit'  BY <1>1, <3>5, <4>1 DEF Limit
      <4> QED  BY <3>8, <4>4, <4>5, <4>6, <4>7 DEF CountInv, Uncounted
    <3> QED  BY <3>4, <3>7, <3>8, <3>9, <3>10 DEF AloneInv
  <2> QED  BY <2>8, <2>11, <2>12 DEF SInv
<1> QED  BY <1>1, <1>2, <1>3 DEF OpenRecovery

\* Once the attempt is counted, every Run that was opened is.
LEMMA WriteStateStep == ASSUME SInv, NEW d \in Daemons, WriteState(d) PROVE SInv'
<1> DEFINE s == IF daemon[d].next = None THEN "mark" ELSE "unregister"
<1>1. /\ daemon[d].pc = "state" /\ attempts' = daemon[d].attempt /\ Goto(d, s)
      /\ UNCHANGED <<lock, run, grant, blocked, quiet, registry, record, legacy, orch, faults, deaths>>
  BY DEF WriteState
<1>2. s \in {"mark", "unregister"} /\ (s = "unregister" => daemon[d].next # None)  OBVIOUS
<1> HIDE DEF s
<1>3. SupervisorTypeOK /\ Plan(d) /\ RunInv /\ attempts \in Nat /\ attempts' \in Nat
  BY <1>1 DEF SInv, SupervisorTypeOK, Instance, RunInv
<1>4. /\ daemon' \in [Daemons -> Instance] /\ daemon'[d].pc = s
      /\ daemon'[d].todo = daemon[d].todo /\ daemon'[d].next = daemon[d].next
      /\ daemon'[d].run = daemon[d].run
      /\ \A e \in Daemons : e # d => daemon'[e] = daemon[e]
  BY <1>1, <1>2, <1>3, Went DEF Serving
<1>5. SupervisorTypeOK'  BY <1>1, <1>3, <1>4 DEF SupervisorTypeOK
<1>6. NoneOpened  BY <1>1 DEF NoneOpened
<1>7. Plan(d)'  BY <1>1, <1>2, <1>3, <1>4 DEF Plan, Serving
<1>8. RunInv'
  <2>1. \A t \in Runs : registry'[t] # None => run'[t].status # "none"  BY <1>1, <1>3 DEF RunInv
  <2>2. ASSUME NEW e \in Daemons PROVE Plan(e)'  BY <1>4, <1>6, <1>7, PlanFrame
  <2> QED  BY <1>6, <2>1, <2>2, KeptRuns DEF RunInv
<1>9. ASSUME ConcurrentStarts = FALSE PROVE AloneInv'
  <2>1. AloneInv /\ Knows(d)  BY <1>9 DEF SInv, AloneInv
  <2>2. \A e \in Daemons : e # d => daemon[e].pc \notin Serving /\ daemon[e].pc \notin Starting
    BY <1>1, <2>1, OthersIdle DEF AloneInv, Serving
  <2>3. LockInv'
    BY <1>1, <1>2, <1>4, <2>1, <2>2 DEF AloneInv, LockInv, Starting, Serving
  <2>4. Knows(d)'
    BY <1>1, <1>2, <1>4, <2>1 DEF Knows, Recovers, ReadsActive, Taken, Serving
  <2>5. ASSUME NEW e \in Daemons, e # d PROVE Knows(e)'
    BY <1>4, <2>2, <2>5 DEF Knows, Recovers, ReadsActive, Taken, Serving
  <2>6. CountInv'
    <3>1. Opened' = Opened /\ Limit' = Limit /\ Limit \in Nat
      BY <1>1, BoundsAssumption DEF Opened, Limit
    <3>2. \/ daemon[d].attempt = attempts
          \/ daemon[d].attempt = attempts + 1 /\ attempts < Limit
      BY <1>1, <2>1 DEF Knows
    <3>3. attempts' <= Limit  BY <1>1, <1>3, <2>1, <3>1, <3>2 DEF AloneInv, CountInv
    <3>4. CASE Cardinality(Opened) <= 1 + attempts
      <4>1. Cardinality(Opened)' <= 1 + attempts'
        BY <1>1, <1>3, <3>1, <3>2, <3>4, OpenedFinite
      <4> QED  BY <3>1, <3>3, <4>1 DEF CountInv
    <3>5. CASE Uncounted
      <4>1. attempts' = attempts + 1 /\ Cardinality(Opened) <= 2 + attempts
        BY <1>1, <3>5 DEF Uncounted, Counts, Abandons
      <4>2. Cardinality(Opened)' <= 1 + attempts'  BY <1>3, <3>1, <4>1, OpenedFinite
      <4> QED  BY <3>1, <3>3, <4>2 DEF CountInv
    <3> QED  BY <2>1, <3>4, <3>5 DEF AloneInv, CountInv
  <2> QED  BY <1>6, <2>1, <2>3, <2>4, <2>5, <2>6, KeptRuns DEF AloneInv
<1> QED  BY <1>5, <1>8, <1>9 DEF SInv

LEMMA UnregisterSourceStep == ASSUME SInv, NEW d \in Daemons, UnregisterSource(d) PROVE SInv'
<1>1. /\ daemon[d].pc = "unregister" /\ Goto(d, "register")
      /\ registry' = [registry EXCEPT ![daemon[d].run] = None]
      /\ UNCHANGED <<lock, run, grant, blocked, quiet, attempts, record, legacy, orch, faults, deaths>>
  BY DEF UnregisterSource
<1>2. SupervisorTypeOK /\ Plan(d) /\ daemon[d].run \in Runs
  BY DEF SInv, SupervisorTypeOK, Instance, RunInv
<1>3. /\ daemon' \in [Daemons -> Instance] /\ daemon'[d].pc = "register"
      /\ daemon'[d].todo = daemon[d].todo /\ daemon'[d].next = daemon[d].next
      /\ daemon'[d].run = daemon[d].run
      /\ \A e \in Daemons : e # d => daemon'[e] = daemon[e]
  BY <1>1, <1>2, Went DEF Serving
<1>4. /\ registry' \in [Runs -> Marks \cup {None}]
      /\ \A t \in Runs : registry'[t] # None => registry[t] # None
      /\ \A t \in Runs : t # daemon[d].run => registry'[t] = registry[t]
  BY <1>1, <1>2 DEF SupervisorTypeOK
<1>5. SupervisorTypeOK'  BY <1>1, <1>2, <1>3, <1>4 DEF SupervisorTypeOK
<1>6. Plan(d)'  BY <1>1, <1>2, <1>3 DEF Plan, Serving
<1>7. ASSUME ConcurrentStarts = FALSE PROVE Knows(d)'
  <2>1. Knows(d) /\ daemon[d].todo \subseteq Runs
    BY <1>7 DEF SInv, AloneInv, SupervisorTypeOK, Instance
  <2> QED  BY <1>1, <1>3, <1>4, <2>1 DEF Knows, Recovers, ReadsActive, Taken, Serving
<1>8. ~Uncounted  BY <1>1 DEF Uncounted, Counts, Abandons
<1> QED
  BY <1>1, <1>3, <1>4, <1>5, <1>6, <1>7, <1>8, ServingStep DEF NoneOpened, Serving

\* Only a Run that is counted is registered.
LEMMA RegisterRecoveryStep == ASSUME SInv, NEW d \in Daemons, RegisterRecovery(d) PROVE SInv'
<1> DEFINE n == daemon[d].next
           ep == EpochOf(n)
           sight == [daemon[d].seen EXCEPT !.epoch = ep]
           x == [daemon[d] EXCEPT !.pc = "start", !.run = n, !.mark = "served", !.seen = sight]
<1>1. /\ daemon[d].pc = "register" /\ registry' = [registry EXCEPT ![n] = "served"]
      /\ daemon' = [daemon EXCEPT ![d].pc = "start", ![d].run = n, ![d].mark = "served",
                                  ![d].seen.epoch = ep]
      /\ UNCHANGED <<lock, run, grant, blocked, quiet, attempts, record, legacy, orch, faults, deaths>>
  BY DEF RegisterRecovery
<1>2. SupervisorTypeOK /\ daemon[d] \in Instance /\ Plan(d) /\ RunInv
  BY DEF SInv, SupervisorTypeOK, RunInv
<1>3. n \in Runs /\ run[n].status # "none" /\ daemon[d].seen \in Sight
  BY <1>1, <1>2 DEF Plan, Instance
<1>4. ep \in Nat \cup {None}
  <2>1. record[n] \in [pid : Pids \cup {None}, epoch : Nat]  BY <1>2, <1>3 DEF SupervisorTypeOK
  <2> QED  BY <2>1 DEF EpochOf
<1> HIDE DEF ep
<1>5. sight \in Sight  BY <1>3, <1>4 DEF Sight
<1>6. daemon' = [daemon EXCEPT ![d] = x]  BY <1>1, <1>2 DEF Instance
<1> HIDE DEF sight
<1>7. x \in Instance  BY <1>2, <1>3, <1>5 DEF Instance, Serving, Marks
<1>8. x.pc = "start" /\ x.todo = daemon[d].todo /\ x.next = n /\ x.run = n
  BY <1>2 DEF Instance
<1> HIDE DEF x
<1>9. /\ daemon' \in [Daemons -> Instance] /\ daemon'[d] = x
      /\ \A e \in Daemons : e # d => daemon'[e] = daemon[e]
  BY <1>2, <1>6, <1>7, DaemonWritten
<1>10. /\ registry' \in [Runs -> Marks \cup {None}]
       /\ \A t \in Runs : registry'[t] = IF t = n THEN "served" ELSE registry[t]
  BY <1>1, <1>2, <1>3 DEF SupervisorTypeOK, Marks
<1>11. SupervisorTypeOK'  BY <1>1, <1>2, <1>9, <1>10 DEF SupervisorTypeOK
<1>12. NoneOpened  BY <1>1 DEF NoneOpened
<1>13. Plan(d)'  BY <1>1, <1>3, <1>8, <1>9 DEF Plan, Serving
<1>14. RunInv'
  <2>1. \A t \in Runs : registry'[t] # None => run'[t].status # "none"
    BY <1>1, <1>2, <1>3, <1>10 DEF RunInv
  <2>2. ASSUME NEW e \in Daemons PROVE Plan(e)'
    BY <1>9, <1>12, <1>13, PlanFrame
  <2> QED  BY <1>12, <2>1, <2>2, KeptRuns DEF RunInv
<1>15. ASSUME ConcurrentStarts = FALSE PROVE AloneInv'
  <2>1. AloneInv /\ Knows(d) /\ daemon[d].todo \subseteq Runs
    BY <1>2, <1>15 DEF SInv, AloneInv, Instance
  <2>2. \A e \in Daemons : e # d => daemon[e].pc \notin Serving /\ daemon[e].pc \notin Starting
    BY <1>1, <2>1, OthersIdle DEF AloneInv, Serving
  <2>3. LockInv'
    BY <1>1, <1>8, <1>9, <2>1, <2>2 DEF AloneInv, LockInv, Starting, Serving
  <2>4. \A t \in daemon[d].todo : t # n /\ registry[t] # None
    BY <1>1, <2>1 DEF Knows, Taken, Serving
  <2>5. Knows(d)'
    BY <1>8, <1>9, <1>10, <2>1, <2>4 DEF Knows, Recovers, ReadsActive, Taken
  <2>6. ASSUME NEW e \in Daemons, e # d PROVE Knows(e)'
    BY <1>9, <2>2, <2>6 DEF Knows, Recovers, ReadsActive, Taken, Serving
  <2>7. CountInv'
    <3>1. ~Uncounted  BY <1>1 DEF Uncounted, Counts, Abandons
    <3> QED  BY <1>1, <1>12, <2>1, <3>1, KeptRuns DEF AloneInv, CountInv, Limit
  <2> QED  BY <1>12, <2>1, <2>3, <2>5, <2>6, <2>7, KeptRuns DEF AloneInv
<1> QED  BY <1>11, <1>14, <1>15 DEF SInv

-----------------------------------------------------------------------------
(* The invariant is inductive *)

LEMMA InitSInv == ASSUME Init PROVE SInv
<1>1. Root \in Runs /\ None \notin Runs  BY BoundsAssumption, NoneAssumption DEF Root, Runs
<1>2. SupervisorTypeOK
  <2>1. Free \in [owner : Daemons \cup {None}, written : BOOLEAN]  BY DEF Free
  <2>2. NoRun \in [status : RunStatuses, stop : Stops \cup {None}, from : Runs \cup {None}]
    BY DEF NoRun, RunStatuses
  <2>3. NoProcess("unused") \in Process  BY <1>1 DEF NoProcess, Process
  <2>4. [NoRun EXCEPT !.status = "active"] \in
          [status : RunStatuses, stop : Stops \cup {None}, from : Runs \cup {None}]
    BY <2>2 DEF RunStatuses
  <2>5. NoRecord \in [pid : Pids \cup {None}, epoch : Nat]  BY DEF NoRecord
  <2> QED
    BY <2>1, <2>2, <2>3, <2>4, <2>5, FreshType DEF Init, SupervisorTypeOK, Marks
<1>3. \A d \in Daemons : daemon[d] = Fresh  BY DEF Init
<1>4. \A r \in Runs : /\ run[r].stop = None /\ run[r].from = None
                      /\ run[r].status \in {"active", "none"}
                      /\ run[r].status = "active" <=> r = Root
                      /\ registry[r] # None => r = Root
  BY DEF Init, NoRun
<1>5. RunInv
  <2>1. \A d \in Daemons : Plan(d)  BY <1>3 DEF Plan, Fresh
  <2> QED  BY <1>4, <2>1, NoneAssumption DEF RunInv
<1>6. AloneInv
  <2>1. LockInv  BY <1>3 DEF LockInv, Fresh, Serving, Starting
  <2>2. \A d \in Daemons : Knows(d)
    BY <1>3 DEF Knows, Fresh, Serving, Taken, Recovers, ReadsActive
  <2>3. OneActiveRun  BY <1>4 DEF OneActiveRun
  <2>4. CountInv
    <3>1. Opened = {Root}  BY <1>1, <1>4 DEF Opened
    <3>2. Cardinality(Opened) = 1  BY <3>1, FS_Singleton
    <3>3. attempts = 0 /\ Limit \in Nat  BY BoundsAssumption DEF Init, Limit
    <3> QED  BY <3>2, <3>3 DEF CountInv
  <2> QED  BY <2>1, <2>2, <2>3, <2>4 DEF AloneInv
<1> QED  BY <1>2, <1>5, <1>6 DEF SInv

LEMMA NextStep == ASSUME SInv, [Next]_vars PROVE SInv'
<1>1. ASSUME NEW d \in Daemons, Start(d) PROVE SInv'
  BY <1>1, ReadLockStep, UnlinkLockStep, CreateLockStep, WriteLockStep DEF Start
<1>2. ASSUME NEW d \in Daemons, Recover(d) PROVE SInv'
  BY <1>2, ReadSourceStep, CloseSourceStep, JudgeStopStep, ResetUnitsStep, OpenRecoveryStep,
     WriteStateStep, UnregisterSourceStep, RegisterRecoveryStep DEF Recover
<1>3. ASSUME NEW d \in Daemons, Cycle(d) PROVE SInv'
  BY <1>2, <1>3, BeginCycleStep, TakeRunStep, ObserveRunStep, ObserveProcessStep, TerminateStep,
     MarkStep, CheckGrantStep, SpawnStep, WriteRecordStep DEF Cycle, Launch
<1>4. ASSUME NEW p \in Pids, Orchestrate(p) \/ Die(p) PROVE SInv'
  <2>1. ASSUME Exit(p) PROVE SInv'
    <3>1. deaths' \in Nat  BY <2>1 DEF Exit, SInv, SupervisorTypeOK
    <3> QED  BY <2>1, <3>1, EndStep DEF Exit
  <2>2. ASSUME Die(p) PROVE SInv'
    <3>1. deaths' \in Nat  BY <2>2 DEF Die, SInv, SupervisorTypeOK
    <3> QED  BY <2>2, <3>1, EndStep DEF Die
  <2> QED  BY <1>4, <2>1, <2>2, BootStep, TickStep DEF Orchestrate
<1>5. CASE UNCHANGED vars
  <2>1. SupervisorTypeOK'  BY <1>5 DEF SInv, SupervisorTypeOK, vars, files
  <2>2. UNCHANGED <<lock, daemon, attempts, registry>> /\ NoneOpened
    BY <1>5 DEF vars, files, NoneOpened
  <2> QED  BY <2>1, <2>2, WorldStep
<1>6. CASE Next
  BY <1>1, <1>3, <1>4, <1>6, ShutdownStep, CrashStep, FailStep, QuietenStep, KillSwitchStep,
     LoseGrantStep DEF Next
<1> QED  BY <1>5, <1>6

THEOREM Inductive == Spec => []SInv
BY InitSInv, NextStep, PTL DEF Spec

-----------------------------------------------------------------------------
(* The theorems *)

\* The lock, the daemons, the files and the processes stay what the code keeps them as.
THEOREM TypeCorrect == Spec => []SupervisorTypeOK
<1>1. SInv => SupervisorTypeOK  BY DEF SInv
<1> QED  BY <1>1, Inductive, PTL

\* While no two instances are starting at once, one serves the workspace, over any
\* crashes and restarts (instance_lock.py).
THEOREM OneDaemonServes == Spec => [](ConcurrentStarts = FALSE => AtMostOneDaemon)
<1>1. LockInv => AtMostOneDaemon
  <2> SUFFICES ASSUME LockInv, NEW d \in Daemons, NEW e \in Daemons,
                      daemon[d].pc \in Serving, daemon[e].pc \in Serving
               PROVE  d = e
    BY DEF AtMostOneDaemon
  <2>1. lock.owner = d /\ lock.owner = e  BY DEF LockInv
  <2> QED  BY <2>1
<1>2. SInv => (ConcurrentStarts = FALSE => AtMostOneDaemon)  BY <1>1 DEF SInv, AloneInv
<1> QED  BY <1>2, Inductive, PTL

\* Then no two Runs of a lineage are active at once: a recovery is opened only after
\* its source is closed, also by a successor of the daemon that began it.
THEOREM OneRunIsActive == Spec => [](ConcurrentStarts = FALSE => OneActiveRun)
<1>1. SInv => (ConcurrentStarts = FALSE => OneActiveRun)  BY DEF SInv, AloneInv
<1> QED  BY <1>1, Inductive, PTL

\* And max_recoveries bounds the recovery Runs of a lineage, although an attempt is
\* counted after its Run is opened and a crash may lose the count (recovery.py).
THEOREM RecoveriesStayBounded == Spec => [](ConcurrentStarts = FALSE => RecoveriesBounded)
<1>1. ASSUME SInv, ConcurrentStarts = FALSE PROVE RecoveriesBounded
  <2>1. attempts \in Nat /\ Limit \in Nat
    BY <1>1, BoundsAssumption DEF SInv, SupervisorTypeOK, Limit
  <2>2. CountInv  BY <1>1 DEF SInv, AloneInv
  <2> QED  BY <2>1, <2>2, OpenedFinite DEF CountInv, Uncounted, RecoveriesBounded
<1>2. SInv => (ConcurrentStarts = FALSE => RecoveriesBounded)  BY <1>1
<1> QED  BY <1>2, Inductive, PTL

\* A Run that was completed, or stopped on a hard stop, is never recovered, even by
\* daemons that start at the same time.
THEOREM HardStopsAreFinal == Spec => []HardStopIsFinal
<1>1. SInv => HardStopIsFinal  BY DEF SInv, RunInv, HardStopIsFinal
<1> QED  BY <1>1, Inductive, PTL
=============================================================================
