-------------------------- MODULE SupervisorQueue --------------------------
(***************************************************************************)
(* The Supervisor's work queue and event journal, and the lock files that  *)
(* guard them.                                                             *)
(*                                                                         *)
(* Starters run the start of an orchestrator as the daemon does: reclaim   *)
(* expired leases, enqueue under a dedupe key, lease an item, acknowledge  *)
(* it, complete it (or fail it), append an event.  Promoters stand for the *)
(* execution gateway, which holds the queue lock while it promotes and     *)
(* then appends an event.  Every call takes its lock file, and any process *)
(* may die at any step.  A process that dies is replaced by a new one.     *)
(*                                                                         *)
(* Abstracted: a lease id and its epoch are one number, since both are new *)
(* at every lease; payloads and results; the unlocked dead letter written  *)
(* for a Run given up, whose id no queue item has (reconcile.py:347-361).  *)
(***************************************************************************)
EXTENDS Naturals, FiniteSets

CONSTANTS
  Starters, Promoters,  \* processes that start orchestrators, that promote results
  Keys,                 \* dedupe keys, start:<run>:<epoch>
  MaxItems,             \* bound: items ever enqueued
  MaxEpoch,             \* bound: leases of one item
  MaxAttempts,          \* max_attempts of an item
  MaxEvents,            \* bound: events in the journal
  MaxCrashes,           \* bound: processes that die
  SoleBreaker,          \* no process looks at a lock another is about to unlink
  None, Orphan

ASSUME QueueAssumption ==
  /\ MaxItems \in Nat /\ MaxEpoch \in Nat /\ MaxEvents \in Nat /\ MaxCrashes \in Nat
  /\ MaxAttempts \in Nat \ {0} /\ SoleBreaker \in BOOLEAN
  /\ None \notin Starters \cup Promoters /\ Orphan \notin Starters \cup Promoters \cup {None}

Clients == Starters \cup Promoters
Locks == {"queue", "journal"}
ItemIds == 1 .. MaxItems

VARIABLES
  lock,     \* lock[n]: whose lock file queue.lock or journal.lock is
  client,   \* client[c]: where process c is, and what it remembers
  item,     \* item[i]: an item file of the queue
  buried,   \* items with a file in the dead-letter directory
  cursor,   \* last_sequence in journal/cursor.json
  crashes   \* processes that have died

store == <<item, buried, cursor>>
vars == <<lock, client, store, crashes>>

-----------------------------------------------------------------------------
(* Types *)

OpenStates == {"queued", "leased", "acknowledged"}
NoItem == [state |-> "none", key |-> None, lease |-> None, epoch |-> 0, late |-> FALSE]
Idle == [pc |-> "idle", at |-> "want", key |-> None, seen |-> None, lease |-> None,
         seq |-> 0]
Calls == {"reclaim", "enqueue", "lease", "acknowledge", "finish", "promote", "append"}

QueueTypeOK ==
  /\ lock \in [Locks -> Clients \cup {None, Orphan}]
  /\ client \in [Clients ->
       [pc : Calls \cup {"idle"}, at : {"want", "break", "in", "bury", "check", "save", "leave"},
        key : Keys \cup {None}, seen : ItemIds \cup {None}, lease : Nat \cup {None}, seq : Nat]]
  /\ item \in [ItemIds -> [state : OpenStates \cup {"none", "completed", "gone"},
       key : Keys \cup {None}, lease : Nat \cup {None}, epoch : Nat, late : BOOLEAN]]
  /\ buried \subseteq ItemIds
  /\ cursor \in Nat /\ crashes \in Nat

-----------------------------------------------------------------------------
(* The lock files *)

LockOf(pc) == IF pc = "append" THEN "journal" ELSE "queue"
Inside(c, pc) == client[c].pc = pc /\ client[c].at = "in"
Goto(c, at) == client' = [client EXCEPT ![c].at = at]

\* O_CREAT|O_EXCL.
Enter(c) ==
  LET n == LockOf(client[c].pc) IN
  /\ client[c].pc # "idle" /\ client[c].at = "want" /\ lock[n] = None
  /\ lock' = [lock EXCEPT ![n] = c]
  /\ Goto(c, "in")
  /\ UNCHANGED <<store, crashes>>

\* Mutant: a lock file is never too old.
JudgeNever(c) == FALSE /\ UNCHANGED vars

\* The file is older than the timeout.  No section of the queue takes that long,
\* so here its creator is dead (a promotion may: ExecutionGateway's
\* SlowPromotions); unlink is a separate call.
JudgeStale(c) ==
  LET n == LockOf(client[c].pc) IN
  /\ client[c].pc # "idle" /\ client[c].at = "want" /\ lock[n] = Orphan
  /\ SoleBreaker => \A d \in Clients :
                       ~(client[d].at = "break" /\ LockOf(client[d].pc) = n)
  /\ Goto(c, "break")
  /\ UNCHANGED <<lock, store, crashes>>

\* It unlinks whatever lock file is there by then.
BreakLock(c) ==
  /\ client[c].at = "break"
  /\ lock' = [lock EXCEPT ![LockOf(client[c].pc)] = None]
  /\ Goto(c, "want")
  /\ UNCHANGED <<store, crashes>>

\* SupervisorLockError ends the cycle of its caller.
GiveUp(c) ==
  /\ client[c].pc # "idle" /\ client[c].at = "want" /\ lock[LockOf(client[c].pc)] # None
  /\ client' = [client EXCEPT ![c] = Idle]
  /\ UNCHANGED <<lock, store, crashes>>

\* The call that follows; a call that found nothing to do goes on as well.
After(c) ==
  CASE client[c].pc = "reclaim"     -> "enqueue"
    [] client[c].pc = "enqueue"     -> "lease"
    [] client[c].pc = "lease"       -> "acknowledge"
    [] client[c].pc = "acknowledge" -> "finish"
    [] client[c].pc \in {"finish", "promote"} -> "append"
    [] OTHER                        -> "idle"

\* The finally clause unlinks the lock file, whoever's it is.
Leave(c) ==
  /\ client[c].at = "leave"
  /\ lock' = [lock EXCEPT ![LockOf(client[c].pc)] = None]
  /\ client' = [client EXCEPT ![c] =
                  IF After(c) = "idle" THEN Idle ELSE [@ EXCEPT !.pc = After(c), !.at = "want"]]
  /\ UNCHANGED <<store, crashes>>

-----------------------------------------------------------------------------
(* The queue, under queue.lock *)

Begin(c) ==
  /\ client[c].pc = "idle"
  /\ \/ /\ c \in Starters
        /\ \E k \in Keys : client' = [client EXCEPT ![c] = [Idle EXCEPT !.pc = "reclaim", !.key = k]]
     \/ /\ c \in Promoters
        /\ client' = [client EXCEPT ![c] = [Idle EXCEPT !.pc = "promote"]]
  /\ UNCHANGED <<lock, store, crashes>>

Expire(i) ==
  /\ item[i].state \in {"leased", "acknowledged"} /\ ~item[i].late
  /\ item' = [item EXCEPT ![i].late = TRUE]
  /\ UNCHANGED <<lock, client, buried, cursor, crashes>>

\* Reclaiming does not look at the attempts already made.
ReclaimExpired(c) ==
  /\ Inside(c, "reclaim")
  /\ item' = [i \in ItemIds |->
       IF item[i].state \in {"leased", "acknowledged"} /\ item[i].late
       THEN [item[i] EXCEPT !.state = "queued", !.lease = None, !.late = FALSE] ELSE item[i]]
  /\ Goto(c, "leave")
  /\ UNCHANGED <<lock, buried, cursor, crashes>>

Open(k) == {i \in ItemIds : item[i].key = k /\ item[i].state \in OpenStates}

\* Mutant: only a queued item counts as a duplicate.
EnqueueAgain(c) ==
  LET same == {i \in Open(client[c].key) : item[i].state = "queued"}
      free == {i \in ItemIds : item[i].state = "none"} IN
  /\ Inside(c, "enqueue") /\ (same # {} \/ free # {})
  /\ \E i \in IF same # {} THEN same ELSE free :
       /\ item' = IF same # {} THEN item
                  ELSE [item EXCEPT ![i].state = "queued", ![i].key = client[c].key]
       /\ client' = [client EXCEPT ![c] = [@ EXCEPT !.at = "leave", !.key = None, !.seen = i,
                                                !.lease = item[i].lease]]
  /\ UNCHANGED <<lock, buried, cursor, crashes>>

\* An open item of the same key is returned as it is, with the lease it has.
Enqueue(c) ==
  LET same == Open(client[c].key)
      free == {i \in ItemIds : item[i].state = "none"} IN
  /\ Inside(c, "enqueue") /\ (same # {} \/ free # {})
  /\ \E i \in IF same # {} THEN same ELSE free :
       /\ item' = IF same # {} THEN item
                  ELSE [item EXCEPT ![i].state = "queued", ![i].key = client[c].key]
       /\ client' = [client EXCEPT ![c] = [@ EXCEPT !.at = "leave", !.key = None, !.seen = i,
                                                !.lease = item[i].lease]]
  /\ UNCHANGED <<lock, buried, cursor, crashes>>

\* Any queued item may come first: file names sort by second, then at random.
\* With nothing to lease the caller keeps the item it enqueued.
LeaseNext(c) ==
  LET queued == {i \in ItemIds : item[i].state = "queued"} IN
  /\ Inside(c, "lease")
  /\ \/ /\ queued = {}
        /\ Goto(c, "leave") /\ UNCHANGED item
     \/ \E i \in queued :
          /\ item[i].epoch < MaxEpoch
          /\ item' = [item EXCEPT ![i] = [@ EXCEPT !.state = "leased", !.late = FALSE,
                        !.epoch = item[i].epoch + 1, !.lease = item[i].epoch + 1]]
          /\ client' = [client EXCEPT ![c].at = "leave", ![c].seen = i,
                                      ![c].lease = item[i].epoch + 1]
  /\ UNCHANGED <<lock, buried, cursor, crashes>>

\* The lease the caller remembers is the one in the item file.
Holds(c) == LET i == client[c].seen IN
            /\ client[c].lease # None /\ item[i].state # "gone"
            /\ item[i].lease = client[c].lease

\* A stale lease or a missing item is an error the caller swallows.
Acknowledge(c) ==
  /\ Inside(c, "acknowledge")
  /\ item' = IF Holds(c) THEN [item EXCEPT ![client[c].seen].state = "acknowledged"] ELSE item
  /\ Goto(c, "leave")
  /\ UNCHANGED <<lock, buried, cursor, crashes>>

\* The last step that looks at the item.
Finished(c) == client' = [client EXCEPT ![c].at = "leave", ![c].seen = None, ![c].lease = None]

Complete(c) ==
  /\ Inside(c, "finish")
  /\ item' = IF Holds(c) THEN [item EXCEPT ![client[c].seen].state = "completed", ![client[c].seen].late = FALSE]
             ELSE item
  /\ Finished(c)
  /\ UNCHANGED <<lock, buried, cursor, crashes>>

Fail(c) ==
  LET i == client[c].seen IN
  /\ Inside(c, "finish") /\ Holds(c)
  /\ IF item[i].epoch >= MaxAttempts
     THEN buried' = buried \cup {i} /\ Goto(c, "bury") /\ UNCHANGED item
     ELSE /\ item' = [item EXCEPT ![i] = [@ EXCEPT !.state = "queued", !.lease = None,
                                                  !.late = FALSE]]
          /\ Finished(c) /\ UNCHANGED buried
  /\ UNCHANGED <<lock, cursor, crashes>>

\* dead_letter: the file of the queue goes after its copy is written.
Bury(c) ==
  /\ client[c].at = "bury"
  /\ item' = [item EXCEPT ![client[c].seen] = [NoItem EXCEPT !.state = "gone"]]
  /\ Finished(c)
  /\ UNCHANGED <<lock, buried, cursor, crashes>>

\* The gateway asserts the lease and promotes with the queue held still.
Promote(c) ==
  /\ Inside(c, "promote")
  /\ Goto(c, "leave")
  /\ UNCHANGED <<lock, store, crashes>>

-----------------------------------------------------------------------------
(* The event journal, under journal.lock *)

\* The file name holds a fresh uuid, so the exclusive create never fails: a
\* number that a crash left in a file without a cursor is given again.
CreateEvent(c) ==
  /\ Inside(c, "append") /\ cursor < MaxEvents
  /\ client' = [client EXCEPT ![c].at = "check", ![c].seq = cursor + 1]
  /\ UNCHANGED <<lock, store, crashes>>

\* A cursor that moved since sends the writer back to its start.
CheckCursor(c) ==
  /\ client[c].at = "check"
  /\ Goto(c, IF cursor = client[c].seq - 1 THEN "save" ELSE "in")
  /\ UNCHANGED <<lock, store, crashes>>

SaveCursor(c) ==
  /\ client[c].at = "save"
  /\ cursor' = client[c].seq
  /\ Goto(c, "leave")
  /\ UNCHANGED <<lock, item, buried, crashes>>

-----------------------------------------------------------------------------
(* An I/O error inside a section, or a bound reached, ends the caller's cycle;
   the lock file goes in the finally clause. *)

Raise(c) ==
  /\ client[c].pc # "idle" /\ client[c].at \in {"in", "bury", "check", "save"}
  /\ lock' = [lock EXCEPT ![LockOf(client[c].pc)] = None]
  /\ client' = [client EXCEPT ![c] = Idle]
  /\ UNCHANGED <<store, crashes>>

(* A process dies; its lock file stays, its successor starts afresh. *)

Die(c) ==
  /\ client[c].pc # "idle" /\ crashes < MaxCrashes
  /\ crashes' = crashes + 1
  /\ lock' = [n \in Locks |-> IF lock[n] = c THEN Orphan ELSE lock[n]]
  /\ client' = [client EXCEPT ![c] = Idle]
  /\ UNCHANGED store

Init ==
  /\ lock = [n \in Locks |-> None]
  /\ client = [c \in Clients |-> Idle]
  /\ item = [i \in ItemIds |-> NoItem]
  /\ buried = {} /\ cursor = 0 /\ crashes = 0

Section(c) ==
  \/ Enter(c) \/ Leave(c) \/ ReclaimExpired(c) \/ Enqueue(c) \/ LeaseNext(c)
  \/ Acknowledge(c) \/ Complete(c) \/ Fail(c) \/ Bury(c) \/ Promote(c)
  \/ CreateEvent(c) \/ CheckCursor(c) \/ SaveCursor(c) \/ Raise(c)

Next ==
  \/ \E c \in Clients : Begin(c) \/ Section(c) \/ JudgeStale(c) \/ BreakLock(c)
                        \/ GiveUp(c) \/ Die(c)
  \/ \E i \in ItemIds : Expire(i)

\* A waiter polls every hundredth of a second, and looks at the age of the
\* lock file before it looks at its own deadline: one that keeps waiting for a
\* lock nobody holds does not give up every time without looking.
Fairness == \A c \in Clients : WF_vars(BreakLock(c)) /\ SF_vars(JudgeStale(c))

Spec == Init /\ [][Next]_vars /\ Fairness

-----------------------------------------------------------------------------
(* Properties *)

\* At most one process is between the creation of a lock file and its removal:
\* "Exclusive lock via O_EXCL lockfile with stale recovery" (file_lock.py).
LockIsExclusive == \A c, d \in Clients :
  /\ c # d /\ client[c].at \in {"in", "bury", "check", "save", "leave"}
  /\ client[d].at \in {"in", "bury", "check", "save", "leave"}
  => LockOf(client[c].pc) # LockOf(client[d].pc)

\* One start request of a dedupe key is open at a time, over crashes, expiry,
\* adoption of another's lease and retries: queue.enqueue with a dedupe_key.
OneOpenItemPerKey == \A k \in Keys : Cardinality(Open(k)) <= 1

\* A lock file whose creator died does not outlast the processes that ask for
\* it again and again, so the queue and the journal serve again ("Writers that
\* die mid-section may leave a lockfile; after timeout_seconds a waiter may
\* reclaim a lock").
Waits(c, n) == client[c].pc # "idle" /\ client[c].at = "want" /\ LockOf(client[c].pc) = n
StaleLockIsBroken == \A n \in Locks :
  []<>(\E c \in Clients : Waits(c, n)) => []<>(lock[n] # Orphan)
=============================================================================
