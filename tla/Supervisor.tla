----------------------------- MODULE Supervisor -----------------------------
(***************************************************************************)
(* The Supervisor daemon: the lock that makes one instance of it serve a   *)
(* workspace, its reconcile cycle over the registered Runs, the            *)
(* orchestrator processes it starts and ends, and the bounded recovery of  *)
(* a Run as the series of Gateway commands and file writes it really is.   *)
(*                                                                         *)
(* A daemon is one process of the operating system and may crash between   *)
(* any two of its steps; a later instance finds the files it left.  The    *)
(* commands OpenRun, CloseRun and TransitionWorkUnit are the projections   *)
(* of RunControl's actions to what the daemon reads; each is atomic        *)
(* (module GatewayJournal).  All Runs here are unattended and belong to    *)
(* one lineage, whose first Run is registered when the model starts.       *)
(*                                                                         *)
(* Abstracted: the supervisor's queue and event journal, whose results     *)
(* the cycle ignores (reconcile.py:242-281), and the heartbeats, which     *)
(* never make a live owner reclaimable (instance_lock.py:167-170).         *)
(***************************************************************************)
EXTENDS Naturals, FiniteSets

CONSTANTS
  Daemons,           \* daemon instances, each started at most once
  MaxRuns, MaxPids,  \* bounds: Runs of the lineage, orchestrator processes
  MaxRecoveries,     \* max_recoveries of the registry entry
  MaximumUses,       \* maximum_uses of the grant of the lineage
  MaxFaults,         \* bound: daemon crashes and failed cycles
  MaxDeaths,         \* bound: orchestrators that die by themselves
  GrantLosses,       \* how the grant may end: revoked, expired
  ConcurrentStarts,  \* may two instances be starting at once
  None

ASSUME BoundsAssumption ==
  /\ MaxRuns \in Nat \ {0} /\ MaxPids \in Nat
  /\ MaxRecoveries \in Nat /\ MaximumUses \in Nat
  /\ MaxFaults \in Nat /\ MaxDeaths \in Nat
  /\ ConcurrentStarts \in BOOLEAN /\ GrantLosses \subseteq {"revoked", "expired"}
ASSUME NoneAssumption == None \notin Daemons \cup Nat \cup {"recoverable", "final"}

Runs == 0 .. MaxRuns - 1
Pids == 1 .. MaxPids
Root == 0

VARIABLES
  lock,      \* supervisor instance lock file: its owner, and whether it is written
  daemon,    \* daemon[d]: where instance d is, and what it has read
  run,       \* run[r]: status and stop_condition of a Run, and the Run it recovers
  grant,     \* the grant all Runs of the lineage are opened under
  blocked,   \* every Work Unit of the lineage is blocked
  quiet,     \* quiet[r]: no progress for stalled_after_minutes
  attempts,  \* attempts in runs/recovery/<root>.json
  registry,  \* registry[r]: status of the entry of a registered Run
  record,    \* record[r]: the supervisor's process record of r
  legacy,    \* legacy[r]: pid in the process record the orchestrator writes itself
  orch,      \* orch[p]: an orchestrator process
  faults,    \* crashes and failed cycles so far
  deaths     \* orchestrators that died so far

files == <<run, grant, blocked, quiet, attempts, registry, record, legacy>>
vars == <<lock, daemon, files, orch, faults, deaths>>

-----------------------------------------------------------------------------
(* Types *)

\* recoverable: one of RECOVERABLE_STOPS; final: any other stop condition.
Stops == {"recoverable", "final"}
RunStatuses == {"none", "active", "completed", "stopped"}
Progresses == {"terminal", "blocked", "stalled", "progressing"}
Starting == {"unlink", "create", "write"}
Serving == {"idle", "next", "observe", "process", "kill", "source", "close", "judge",
            "reset", "open", "state", "unregister", "register", "start", "spawn",
            "record", "mark"}
\* "served" stands for registered, running, healthy; "terminal" for cancelled_process too.
Marks == {"served", "terminal", "needs_human", "dead_letter"}

NoRun == [status |-> "none", stop |-> None, from |-> None]
NoRecord == [pid |-> None, epoch |-> 0]
NoProcess(s) == [state |-> s, run |-> Root, parent |-> None, recorded |-> FALSE]
NoSight == [status |-> "none", progress |-> "terminal", epoch |-> None]
Fresh == [pc |-> "off", todo |-> {}, run |-> Root, seen |-> NoSight, attempt |-> 0,
          next |-> None, pid |-> None, mark |-> None]

Sight == [status : RunStatuses, progress : Progresses, epoch : Nat \cup {None}]
Instance == [pc : {"off", "dead"} \cup Starting \cup Serving, todo : SUBSET Runs, run : Runs,
             seen : Sight, attempt : Nat, next : Runs \cup {None}, pid : Pids \cup {None},
             mark : Marks \cup {None}]
Process == [state : {"unused", "spawned", "working", "zombie", "gone"},
            run : Runs, parent : Daemons \cup {None}, recorded : BOOLEAN]

SupervisorTypeOK ==
  /\ lock \in [owner : Daemons \cup {None}, written : BOOLEAN]
  /\ daemon \in [Daemons -> Instance]
  /\ run \in [Runs -> [status : RunStatuses, stop : Stops \cup {None},
                       from : Runs \cup {None}]]
  /\ grant \in [lost : {None, "revoked", "expired"}, uses : Nat]
  /\ blocked \in BOOLEAN
  /\ quiet \in [Runs -> BOOLEAN]
  /\ attempts \in Nat
  /\ registry \in [Runs -> Marks \cup {None}]
  /\ record \in [Runs -> [pid : Pids \cup {None}, epoch : Nat]]
  /\ legacy \in [Runs -> Pids \cup {None}]
  /\ orch \in [Pids -> Process]
  /\ faults \in Nat /\ deaths \in Nat

-----------------------------------------------------------------------------
(* What the code looks at *)

Free == [owner |-> None, written |-> FALSE]

\* default_pid_is_alive: a signal-0 probe, which an unreaped child still answers.
PidAlive(p) == p # None /\ orch[p].state \in {"spawned", "working", "zombie"}
Live(p) == orch[p].state \in {"spawned", "working"}
Up(d) == daemon[d].pc \notin {"off", "dead"}

\* A process that ends is kept as a zombie while the daemon that started it lives,
\* until that daemon reaps its children.
Ended(p) == IF orch[p].parent # None /\ Up(orch[p].parent)
            THEN [orch[p] EXCEPT !.state = "zombie"] ELSE NoProcess("gone")
Reaped(d) == [p \in Pids |-> IF orch[p].state = "zombie" /\ orch[p].parent = d
                             THEN NoProcess("gone") ELSE orch[p]]

\* Either process record may name a live process.
ProcessAlive(r) == PidAlive(record[r].pid) \/ PidAlive(legacy[r])

\* A record in state starting or running always has a pid.
HadProcess(rec) == rec.pid # None

\* evaluate_run_progress
Progress(r) == CASE run[r].status # "active" -> "terminal"
                 [] blocked                  -> "blocked"
                 [] quiet[r]                 -> "stalled"
                 [] OTHER                    -> "progressing"

\* Mutant: an orchestrator that was started is taken for one that runs.
ChooseStarted(seen, alive, rec) ==
  CASE seen.status # "active" ->
         IF alive THEN <<"kill", "terminal">> ELSE <<"mark", "terminal">>
    [] seen.status = "active" /\ seen.progress = "blocked" ->
         <<IF alive THEN "kill" ELSE "mark", "needs_human">>
    [] OTHER -> <<IF alive \/ HadProcess(rec) THEN "mark" ELSE "start", "served">>

\* choose_action: the step the cycle goes to, and what it will write in the registry.
ChooseAction(seen, alive, rec) ==
  CASE seen.status # "active" ->
         IF alive THEN <<"kill", "terminal">> ELSE <<"mark", "terminal">>
    [] seen.status = "active" /\ seen.progress = "blocked" ->
         <<IF alive THEN "kill" ELSE "mark", "needs_human">>
    [] seen.status = "active" /\ seen.progress = "stalled" -> <<"source", None>>
    [] seen.status = "active" /\ seen.progress = "progressing" ->
         IF alive THEN <<"mark", "served">>
         ELSE IF HadProcess(rec) THEN <<"source", None>> ELSE <<"start", "served">>

EpochOf(r) == IF record[r] = NoRecord THEN None ELSE record[r].epoch

\* int(entry.get("max_recoveries") or 3)
Limit == IF MaxRecoveries = 0 THEN 3 ELSE MaxRecoveries

\* grant_has_remaining_use: the grant documents have neither the field "status"
\* nor the field "max_uses" it looks at, only their expires_at.
HasRemainingUse == grant.lost # "expired"

OpenAuthorized == grant.lost = None /\ grant.uses < MaximumUses

Opened == {r \in Runs : run[r].status # "none"}

-----------------------------------------------------------------------------
Init ==
  /\ lock = Free
  /\ daemon = [d \in Daemons |-> Fresh]
  /\ run = [r \in Runs |-> IF r = Root THEN [NoRun EXCEPT !.status = "active"] ELSE NoRun]
  /\ grant = [lost |-> None, uses |-> 1]
  /\ blocked = FALSE
  /\ quiet = [r \in Runs |-> FALSE]
  /\ attempts = 0
  /\ registry = [r \in Runs |-> IF r = Root THEN "served" ELSE None]
  /\ record = [r \in Runs |-> NoRecord]
  /\ legacy = [r \in Runs |-> None]
  /\ orch = [p \in Pids |-> NoProcess("unused")]
  /\ faults = 0 /\ deaths = 0

\* Mutant: the stop condition is recorded and the status is not.
CloseInName(r, status, stop) ==
  /\ run[r].status = "active"
  /\ run' = [run EXCEPT ![r].stop = stop]
  /\ quiet' = [quiet EXCEPT ![r] = FALSE]

\* CloseRun; the progress of a closed Run is not looked at any more.
Close(r, status, stop) ==
  /\ run[r].status = "active"
  /\ run' = [run EXCEPT ![r].status = status, ![r].stop = stop]
  /\ quiet' = [quiet EXCEPT ![r] = FALSE]

Goto(d, pc) == daemon' = [daemon EXCEPT ![d].pc = pc]

-----------------------------------------------------------------------------
(* The instance lock *)

\* Mutant: whatever lock is found is taken for an orphaned one.
ReadLockOnly(d) ==
  /\ daemon[d].pc = "off"
  /\ ConcurrentStarts \/ \A e \in Daemons : daemon[e].pc \notin Starting
  /\ daemon' = [daemon EXCEPT ![d].pc = IF lock.written THEN "unlink" ELSE "create"]
  /\ UNCHANGED <<lock, files, orch, faults, deaths>>

\* Read the lock and judge its owner: live, orphaned, or no readable lock at all.
ReadLock(d) ==
  /\ daemon[d].pc = "off"
  /\ ConcurrentStarts \/ \A e \in Daemons : daemon[e].pc \notin Starting
  /\ Goto(d, IF ~lock.written THEN "create"
             ELSE IF Up(lock.owner) THEN "dead" ELSE "unlink")
  /\ UNCHANGED <<lock, files, orch, faults, deaths>>

\* Remove the lock that was judged orphaned, whichever lock is there by now.
UnlinkLock(d) ==
  /\ daemon[d].pc = "unlink"
  /\ Goto(d, IF lock = Free THEN "dead" ELSE "create")
  /\ lock' = Free
  /\ UNCHANGED <<files, orch, faults, deaths>>

\* O_CREAT | O_EXCL: an empty file, or the start is refused.
CreateLock(d) ==
  /\ daemon[d].pc = "create"
  /\ IF lock = Free
     THEN lock' = [owner |-> d, written |-> FALSE] /\ Goto(d, "write")
     ELSE Goto(d, "dead") /\ UNCHANGED lock
  /\ UNCHANGED <<files, orch, faults, deaths>>

\* The document goes to the file that was created, if it is still there.
WriteLock(d) ==
  /\ daemon[d].pc = "write"
  /\ lock' = IF lock.owner = d THEN [lock EXCEPT !.written = TRUE] ELSE lock
  /\ Goto(d, "idle")
  /\ UNCHANGED <<files, orch, faults, deaths>>

\* shutdown: orchestrators are left running; only an own lock is released.
Shutdown(d) ==
  /\ daemon[d].pc \in {"idle", "next"}
  /\ daemon' = [daemon EXCEPT ![d] = [Fresh EXCEPT !.pc = "dead"]]
  /\ lock' = IF lock.owner = d THEN Free ELSE lock
  /\ orch' = Reaped(d)
  /\ UNCHANGED <<files, faults, deaths>>

-----------------------------------------------------------------------------
(* The reconcile cycle *)

\* reconcile_once lists the registered Runs once.
BeginCycle(d) ==
  /\ daemon[d].pc = "idle"
  /\ daemon' = [daemon EXCEPT ![d].pc = "next",
                              ![d].todo = {r \in Runs : registry[r] # None}]
  /\ UNCHANGED <<lock, files, orch, faults, deaths>>

TakeRun(d) ==
  /\ daemon[d].pc = "next"
  /\ \/ \E r \in daemon[d].todo :
          daemon' = [daemon EXCEPT ![d] = [Fresh EXCEPT !.pc = "observe", !.run = r,
                                                        !.todo = daemon[d].todo \ {r}]]
     \/ daemon[d].todo = {} /\ daemon' = [daemon EXCEPT ![d] = [Fresh EXCEPT !.pc = "idle"]]
  /\ UNCHANGED <<lock, files, orch, faults, deaths>>

\* observe_run, first half: the Run and its progress.
ObserveRun(d) ==
  /\ daemon[d].pc = "observe"
  /\ LET r == daemon[d].run IN
     daemon' = [daemon EXCEPT ![d].pc = "process", ![d].seen.status = run[r].status,
                              ![d].seen.progress = Progress(r)]
  /\ UNCHANGED <<lock, files, orch, faults, deaths>>

\* observe_run, second half: the process records; then choose_action.
ObserveProcess(d) ==
  /\ daemon[d].pc = "process"
  /\ LET r    == daemon[d].run
         plan == ChooseAction(daemon[d].seen, ProcessAlive(r), record[r])
     IN  daemon' = [daemon EXCEPT ![d].pc = plan[1], ![d].mark = plan[2],
                                  ![d].seen = [NoSight EXCEPT !.epoch = EpochOf(r)]]
  /\ UNCHANGED <<lock, files, orch, faults, deaths>>

\* terminate_process under the epoch that was observed.
Terminate(d) ==
  /\ daemon[d].pc = "kill"
  /\ LET r   == daemon[d].run
         rec == record[r]
         p   == rec.pid
     IN  IF daemon[d].seen.epoch \in {None, rec.epoch} /\ PidAlive(p)
         THEN orch' = [orch EXCEPT ![p] = Ended(p)]
         ELSE UNCHANGED orch
  /\ Goto(d, "mark")
  /\ UNCHANGED <<lock, files, faults, deaths>>

\* update_run_entry: an entry that is gone stays gone.
Mark(d) ==
  /\ daemon[d].pc = "mark"
  /\ LET r == daemon[d].run IN
     registry' = IF registry[r] = None THEN registry
                 ELSE [registry EXCEPT ![r] = daemon[d].mark]
  /\ daemon' = [daemon EXCEPT ![d] = [Fresh EXCEPT !.pc = "next", !.todo = daemon[d].todo]]
  /\ UNCHANGED <<lock, run, grant, blocked, quiet, attempts, record, legacy, orch, faults, deaths>>

-----------------------------------------------------------------------------
(* recover: bounded recovery, one Gateway command or file write at a time *)

\* The source Run and the attempts of its lineage.
ReadSource(d) ==
  /\ daemon[d].pc = "source"
  /\ LET n == attempts + 1 IN
     daemon' = IF n > Limit
               THEN [daemon EXCEPT ![d].pc = "state", ![d].attempt = attempts,
                                   ![d].mark = "dead_letter"]
               ELSE [daemon EXCEPT ![d].pc = IF run[daemon[d].run].status = "active"
                                             THEN "close" ELSE "judge",
                                   ![d].attempt = n]
  /\ UNCHANGED <<lock, files, orch, faults, deaths>>

GiveUp(d) == daemon' = [daemon EXCEPT ![d].pc = "state", ![d].mark = "needs_human"]

\* CloseRun, refused when the Run has stopped or its revision has moved meanwhile, or
\* while another command holds the project lock.
CloseSource(d) ==
  /\ daemon[d].pc = "close"
  /\ LET r == daemon[d].run IN
     \/ Close(r, "stopped", "recoverable") /\ Goto(d, "judge")
     \/ GiveUp(d) /\ UNCHANGED <<run, quiet>>
  /\ UNCHANGED <<lock, grant, blocked, attempts, registry, record, legacy, orch,
                 faults, deaths>>

\* Mutant: the stop condition of the source is not looked at.
JudgeGrantOnly(d) ==
  /\ daemon[d].pc = "judge"
  /\ \/ HasRemainingUse /\ Goto(d, "reset")
     \/ GiveUp(d)
  /\ UNCHANGED <<lock, files, orch, faults, deaths>>

\* Only a recoverable stop under a grant that passes the preflight goes on; a boundary
\* violation, though recoverable, may lack a trusted revision to start from.
JudgeStop(d) ==
  /\ daemon[d].pc = "judge"
  /\ LET stop == run[daemon[d].run].stop IN
     \/ stop = "recoverable" /\ HasRemainingUse /\ Goto(d, "reset")
     \/ GiveUp(d)
  /\ UNCHANGED <<lock, files, orch, faults, deaths>>

\* TransitionWorkUnit for every Work Unit in progress or blocked; refused under an
\* unusable grant, an exhausted budget or a revision that has moved.
ResetUnits(d) ==
  /\ daemon[d].pc = "reset"
  /\ \/ /\ blocked => grant.lost = None
        /\ blocked' = FALSE
        /\ Goto(d, "open")
     \/ GiveUp(d) /\ UNCHANGED blocked
  /\ UNCHANGED <<lock, run, grant, quiet, attempts, registry, record, legacy, orch,
                 faults, deaths>>

\* OpenRun for the next Run of the lineage.
OpenRecovery(d) ==
  /\ daemon[d].pc = "open"
  /\ \/ \E n \in Runs \ Opened :
          /\ n = Cardinality(Opened)
          /\ OpenAuthorized
          /\ run' = [run EXCEPT ![n] = [status |-> "active", stop |-> None,
                                        from |-> daemon[d].run]]
          /\ grant' = [grant EXCEPT !.uses = grant.uses + 1]
          /\ daemon' = [daemon EXCEPT ![d].pc = "state", ![d].next = n]
     \/ GiveUp(d) /\ UNCHANGED <<run, grant>>
  /\ UNCHANGED <<lock, blocked, quiet, attempts, registry, record, legacy, orch, faults, deaths>>

\* Mutant: only attempts that did not open a Run are counted.
WriteFailures(d) ==
  /\ daemon[d].pc = "state"
  /\ attempts' = IF daemon[d].next = None THEN daemon[d].attempt ELSE attempts
  /\ Goto(d, IF daemon[d].next = None THEN "mark" ELSE "unregister")
  /\ UNCHANGED <<lock, run, grant, blocked, quiet, registry, record, legacy, orch, faults, deaths>>

\* _write_state: the attempts are counted only now.
WriteState(d) ==
  /\ daemon[d].pc = "state"
  /\ attempts' = daemon[d].attempt
  /\ Goto(d, IF daemon[d].next = None THEN "mark" ELSE "unregister")
  /\ UNCHANGED <<lock, run, grant, blocked, quiet, registry, record, legacy, orch, faults, deaths>>

UnregisterSource(d) ==
  /\ daemon[d].pc = "unregister"
  /\ registry' = [registry EXCEPT ![daemon[d].run] = None]
  /\ Goto(d, "register")
  /\ UNCHANGED <<lock, run, grant, blocked, quiet, attempts, record, legacy, orch, faults, deaths>>

\* The new Run is registered, observed and started in the same cycle.
RegisterRecovery(d) ==
  /\ daemon[d].pc = "register"
  /\ LET n == daemon[d].next IN
     /\ registry' = [registry EXCEPT ![n] = "served"]
     /\ daemon' = [daemon EXCEPT ![d].pc = "start", ![d].run = n, ![d].mark = "served",
                              ![d].seen.epoch = EpochOf(n)]
  /\ UNCHANGED <<lock, run, grant, blocked, quiet, attempts, record, legacy, orch, faults, deaths>>

-----------------------------------------------------------------------------
(* Starting an orchestrator *)

\* The grant is refused only when its status says so, a field no grant document has.
CheckGrant(d) ==
  /\ daemon[d].pc = "start"
  /\ Goto(d, "spawn")
  /\ UNCHANGED <<lock, files, orch, faults, deaths>>

\* launch_orchestrator: Popen reaps the children of the daemon that have ended.
Spawn(d) ==
  /\ daemon[d].pc = "spawn"
  /\ \E p \in Pids :
       /\ orch[p].state = "unused"
       /\ \A q \in Pids : orch[q].state = "unused" => p <= q
       /\ orch' = [Reaped(d) EXCEPT ![p] = [state |-> "spawned", run |-> daemon[d].run,
                                            parent |-> d, recorded |-> FALSE]]
       /\ daemon' = [daemon EXCEPT ![d].pc = "record", ![d].pid = p]
  /\ UNCHANGED <<lock, files, faults, deaths>>

\* write_process_record
WriteRecord(d) ==
  /\ daemon[d].pc = "record"
  /\ LET r == daemon[d].run
         e == daemon[d].seen.epoch
     IN  record' = [record EXCEPT ![r] = [pid |-> daemon[d].pid,
                                          epoch |-> (IF e = None THEN 0 ELSE e) + 1]]
  /\ orch' = [orch EXCEPT ![daemon[d].pid].recorded = TRUE]
  /\ Goto(d, "mark")
  /\ UNCHANGED <<lock, run, grant, blocked, quiet, attempts, registry, legacy, faults, deaths>>

-----------------------------------------------------------------------------
(* The orchestrator of a Run *)

End(p) == orch' = [orch EXCEPT ![p] = Ended(p)]

\* orchestrate.py writes its own record before its first tick.
Boot(p) ==
  /\ orch[p].state = "spawned"
  /\ orch' = [orch EXCEPT ![p].state = "working"]
  /\ legacy' = [legacy EXCEPT ![orch[p].run] = p]
  /\ UNCHANGED <<lock, daemon, run, grant, blocked, quiet, attempts, registry, record,
                 faults, deaths>>

\* A tick makes progress, or closes the Run: completed, or stopped on a condition,
\* orchestrator_process_failure among them.
Tick(p) ==
  /\ orch[p].state = "working"
  /\ LET r == orch[p].run IN
     /\ run[r].status = "active"
     /\ \/ /\ blocked' \in BOOLEAN
           /\ quiet' = [quiet EXCEPT ![r] = FALSE]
           /\ UNCHANGED run
        \/ Close(r, "completed", None) /\ UNCHANGED blocked
        \/ \E s \in Stops : Close(r, "stopped", s) /\ UNCHANGED blocked
  /\ UNCHANGED <<lock, daemon, grant, attempts, registry, record, legacy, orch, faults, deaths>>

\* run_not_active: the session ends.
Exit(p) ==
  /\ orch[p].state = "working" /\ run[orch[p].run].status # "active"
  /\ End(p)
  /\ UNCHANGED <<lock, daemon, files, faults, deaths>>

-----------------------------------------------------------------------------
(* Time, people and faults *)

\* stalled_after_minutes pass without progress.
Quieten(r) ==
  /\ run[r].status = "active" /\ ~quiet[r]
  /\ quiet' = [quiet EXCEPT ![r] = TRUE]
  /\ UNCHANGED <<lock, daemon, run, grant, blocked, attempts, registry, record, legacy, orch,
                 faults, deaths>>

\* A human stops a Run for good.
KillSwitch(r) ==
  /\ Close(r, "stopped", "final")
  /\ UNCHANGED <<lock, daemon, grant, blocked, attempts, registry, record, legacy, orch,
                 faults, deaths>>

LoseGrant ==
  /\ grant.lost = None
  /\ \E why \in GrantLosses : grant' = [grant EXCEPT !.lost = why]
  /\ UNCHANGED <<lock, daemon, run, blocked, quiet, attempts, registry, record, legacy, orch,
                 faults, deaths>>

\* The daemon dies; its dead children go to init.
Crash(d) ==
  /\ Up(d) /\ faults < MaxFaults
  /\ faults' = faults + 1
  /\ daemon' = [daemon EXCEPT ![d] = [Fresh EXCEPT !.pc = "dead"]]
  /\ orch' = Reaped(d)
  /\ UNCHANGED <<lock, files, deaths>>

\* Any step of a cycle may raise (a lock timed out, a disk is full): run_forever
\* notes the error and begins the next cycle.
Fail(d) ==
  /\ daemon[d].pc \in Serving \ {"idle"} /\ faults < MaxFaults
  /\ faults' = faults + 1
  /\ daemon' = [daemon EXCEPT ![d] = [Fresh EXCEPT !.pc = "idle"]]
  /\ UNCHANGED <<lock, files, orch, deaths>>

\* An orchestrator is killed, refuses to start, or dies.
Die(p) ==
  /\ Live(p) /\ deaths < MaxDeaths
  /\ deaths' = deaths + 1
  /\ End(p)
  /\ UNCHANGED <<lock, daemon, files, faults>>

-----------------------------------------------------------------------------
Start(d) == ReadLock(d) \/ UnlinkLock(d) \/ CreateLock(d) \/ WriteLock(d)
Recover(d) == \/ ReadSource(d) \/ CloseSource(d) \/ JudgeStop(d) \/ ResetUnits(d)
              \/ OpenRecovery(d) \/ WriteState(d) \/ UnregisterSource(d) \/ RegisterRecovery(d)
Launch(d) == CheckGrant(d) \/ Spawn(d) \/ WriteRecord(d)
Cycle(d) == \/ BeginCycle(d) \/ TakeRun(d) \/ ObserveRun(d) \/ ObserveProcess(d)
            \/ Terminate(d) \/ Mark(d) \/ Recover(d) \/ Launch(d)
Orchestrate(p) == Boot(p) \/ Tick(p) \/ Exit(p)

Next == \/ \E d \in Daemons : Start(d) \/ Cycle(d) \/ Shutdown(d) \/ Crash(d) \/ Fail(d)
        \/ \E p \in Pids : Orchestrate(p) \/ Die(p)
        \/ \E r \in Runs : Quieten(r) \/ KillSwitch(r)
        \/ LoseGrant

Spec == Init /\ [][Next]_vars

\* The daemon runs while its process does, a new instance is started at some time, and
\* time passes.  Orchestrators may hang: nothing is assumed of them.
Fairness == /\ \A d \in Daemons : WF_vars(Start(d)) /\ WF_vars(Cycle(d))
            /\ \A r \in Runs : WF_vars(Quieten(r))
FairSpec == Spec /\ Fairness

-----------------------------------------------------------------------------
(* Properties *)

\* One instance serves a workspace, across crashes and restarts (instance_lock.py).
AtMostOneDaemon ==
  \A d, e \in Daemons : daemon[d].pc \in Serving /\ daemon[e].pc \in Serving => d = e

\* max_recoveries bounds the recovery Runs of a lineage, although the attempt is only
\* counted after OpenRun and a crash may lose the count (recovery.py, recover).
RecoveriesBounded == Cardinality(Opened) <= 1 + Limit

\* No two Runs of a lineage, which share their Work Units, are active at once.
OneActiveRun ==
  \A r, s \in Runs : run[r].status = "active" /\ run[s].status = "active" => r = s

\* A Run completed, or stopped on a hard stop at any time, also between the steps of a
\* recovery already under way, is never recovered.
HardStopIsFinal ==
  \A r \in Runs : run[r].from # None => run[run[r].from].stop = "recoverable"

\* A process started and never recorded, its daemon having crashed or failed.
Lost(p) == /\ ~orch[p].recorded
           /\ ~\E d \in Daemons : daemon[d].pc = "record" /\ daemon[d].pid = p

Served == <>[](\E d \in Daemons : daemon[d].pc \in Serving)

Orphaned(r) == /\ registry[r] # None /\ run[r].status = "active"
               /\ ~\E p \in Pids : Live(p) /\ orch[p].run = r

\* While a daemon serves, a registered Run without a live orchestrator gets one, is
\* closed, or is handed to a human or to the dead letters.
OrphanIsResolved ==
  Served => \A r \in Runs :
              Orphaned(r) ~> ~Orphaned(r) \/ registry[r] \in {"needs_human", "dead_letter"}

\* What a comment says and the code does not do (see PROJECT.json).

\* "refuse if grant is revoked/expired as a safety signal for unattended work"
\* (reconcile.py).
NoStartWithoutGrant ==
  [][\A d \in Daemons : daemon[d].pc = "start" /\ daemon'[d].pc = "spawn" =>
                          grant.lost = None]_vars
=============================================================================
