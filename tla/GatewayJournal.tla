--------------------------- MODULE GatewayJournal ---------------------------
(***************************************************************************)
(* The Command Gateway's unit of work: the exclusive project lock, the     *)
(* idempotency store, the journaled multi-file transaction and `recover`.  *)
(*                                                                         *)
(* A document is the sequence of the transactions whose effect it holds,   *)
(* so equality of documents stands for equality of content hashes and the  *)
(* empty sequence for a file that does not exist yet.  A handler reads its *)
(* documents and appends its own transaction to each of them.              *)
(*                                                                         *)
(* One step is one atomic replacement of a file (persistence/atomic.py) or *)
(* one read of the documents; processes interleave between steps, an I/O   *)
(* error unwinds execute_command through its `finally`, and a crash keeps  *)
(* the disk and forgets the rest.                                          *)
(***************************************************************************)
EXTENDS Naturals, Sequences, FiniteSets, FiniteSetsExt, SequencesExt

CONSTANTS
  Procs,          \* callers of CommandGateway.execute_command
  Recoverers,     \* callers of CommandGateway.recover (the CLI)
  Commands,       \* command envelopes
  Docs,           \* paths of aggregate documents
  TxIds,          \* transaction ids; their order is that of the directory names
  KeyOf,          \* KeyOf[c]: the idempotency key of command c
  Writes,         \* Writes[c]: the documents c's handler plans, in order
  Expect,         \* Expect[c]: the revision c expects of its first document
  Eventful,       \* the commands that plan a create-exclusive domain event
  MaxFaults,      \* bound on crashes and I/O errors
  CommandsWait,   \* TRUE: nobody sends a command while a journal is pending
                  \* or a recover is running
  RecoverWaits    \* TRUE: nobody runs recover while a command is executing

CONSTANTS AnyRevision, NoLock, OrphanLock, NoTx, NoCmd

Keys == {KeyOf[c] : c \in Commands}

ASSUME TxIdsAssumption == TxIds \subseteq Nat /\ IsFiniteSet(TxIds)
ASSUME CommandsAssumption ==
  /\ Writes \in [Commands -> Seq(Docs) \ {<<>>}]
  /\ Expect \in [Commands -> Nat \cup {AnyRevision}]
  /\ DOMAIN KeyOf = Commands
  /\ Eventful \subseteq Commands
ASSUME NullsAssumption ==
  /\ NoTx \notin TxIds
  /\ NoCmd \notin Commands
  /\ NoLock \notin Procs /\ OrphanLock \notin Procs /\ NoLock # OrphanLock
ASSUME BoundsAssumption ==
  MaxFaults \in Nat /\ CommandsWait \in BOOLEAN /\ RecoverWaits \in BOOLEAN

VARIABLES
  docs,      \* docs[d]: the transactions whose effect document d holds
  events,    \* events[c]: the transaction that wrote c's event file, or NoTx
  journal,   \* journal[t]: the journal.json of transaction t
  idem,      \* idem[k]: the receipt stored under idempotency key k
  lockFile,  \* the token in project.lock: a live owner, OrphanLock or NoLock
  pc,        \* pc[p]: where p is in execute_command
  job,       \* job[p]: the local state of p's execute_command
  rec,       \* rec[r]: the local state of a recover call
  accepted,  \* accepted[c]: the transactions named by the receipts c's callers got
  faults     \* crashes and I/O errors so far

disk == <<docs, events, journal, idem>>
vars == <<docs, events, journal, idem, lockFile, pc, job, rec, accepted, faults>>

-----------------------------------------------------------------------------
(* Types *)

PCs == {"idle", "lookup", "read", "plan", "prepare", "replace", "event",
        "commit", "store", "release"}

Write == [doc : Docs, before : Seq(TxIds), after : Seq(TxIds)]

NoJournal == [status |-> "none", cmd |-> NoCmd, writes |-> <<>>]

Journal == [status : {"prepared", "committed"}, cmd : Commands, writes : Seq(Write)]

IdleJob == [cmd |-> NoCmd, tx |-> NoTx, seen |-> [d \in Docs |-> <<>>],
            writes |-> <<>>, idx |-> 1, receipt |-> NoTx]

Job == [cmd : Commands \cup {NoCmd}, tx : TxIds \cup {NoTx},
        seen : [Docs -> Seq(TxIds)], writes : Seq(Write),
        idx : Nat, receipt : TxIds \cup {NoTx}]

IdleRec == [pc |-> "idle", todo |-> {}, tx |-> NoTx, idx |-> 1]

RecState == [pc : {"idle", "scan", "write", "event", "mark"},
             todo : SUBSET TxIds, tx : TxIds \cup {NoTx}, idx : Nat]

TypeOK ==
  /\ docs \in [Docs -> Seq(TxIds)]
  /\ events \in [Commands -> TxIds \cup {NoTx}]
  /\ journal \in [TxIds -> Journal \cup {NoJournal}]
  /\ idem \in [Keys -> [cmd : Commands \cup {NoCmd}, tx : TxIds \cup {NoTx}]]
  /\ lockFile \in Procs \cup {NoLock, OrphanLock}
  /\ pc \in [Procs -> PCs]
  /\ job \in [Procs -> Job]
  /\ rec \in [Recoverers -> RecState]
  /\ accepted \in [Commands -> SUBSET TxIds]
  /\ faults \in Nat

Init ==
  /\ docs = [d \in Docs |-> <<>>]
  /\ events = [c \in Commands |-> NoTx]
  /\ journal = [t \in TxIds |-> NoJournal]
  /\ idem = [k \in Keys |-> [cmd |-> NoCmd, tx |-> NoTx]]
  /\ lockFile = NoLock
  /\ pc = [p \in Procs |-> "idle"]
  /\ job = [p \in Procs |-> IdleJob]
  /\ rec = [r \in Recoverers |-> IdleRec]
  /\ accepted = [c \in Commands |-> {}]
  /\ faults = 0

-----------------------------------------------------------------------------
(* State functions *)

Pending == {t \in TxIds : journal[t].status = "prepared"}
Executing == {p \in Procs : pc[p] # "idle"}
Recovering == {r \in Recoverers : rec[r].pc # "idle"}

\* A transaction id is a fresh uuid: no journal and no live transaction has it.
FreshTx == {t \in TxIds : /\ journal[t].status = "none"
                          /\ \A p \in Procs : job[p].tx # t}

Goto(p, where) == pc' = [pc EXCEPT ![p] = where]

-----------------------------------------------------------------------------
(* execute_command *)

\* os.open(O_CREAT | O_EXCL) succeeded.  While the file exists the caller polls
\* until its deadline and gets CONFLICT, which changes nothing.
\* Bound: a command is only sent while a transaction id is left.
Acquire(p, c) ==
  /\ pc[p] = "idle"
  /\ lockFile = NoLock
  /\ FreshTx # {}
  /\ CommandsWait => Pending = {} /\ Recovering = {}
  /\ lockFile' = p
  /\ job' = [job EXCEPT ![p] = [IdleJob EXCEPT !.cmd = c]]
  /\ Goto(p, "lookup")
  /\ UNCHANGED <<disk, rec, accepted, faults>>

\* Mutant: the payload hash of the stored receipt is not compared.
LookupKeyOnly(p) ==
  LET stored == idem[KeyOf[job[p].cmd]] IN
  /\ pc[p] = "lookup"
  /\ IF stored.cmd = NoCmd
       THEN Goto(p, "read") /\ UNCHANGED job
       ELSE Goto(p, "release") /\ job' = [job EXCEPT ![p].receipt = stored.tx]
  /\ UNCHANGED <<disk, lockFile, rec, accepted, faults>>

\* The idempotency lookup: a stored receipt of the same payload is returned, a
\* stored receipt of another payload is IDEMPOTENCY_MISMATCH.
Lookup(p) ==
  LET stored == idem[KeyOf[job[p].cmd]] IN
  /\ pc[p] = "lookup"
  /\ IF stored.cmd = NoCmd
       THEN Goto(p, "read") /\ UNCHANGED job
       ELSE /\ Goto(p, "release")
            /\ job' = [job EXCEPT ![p].receipt =
                         IF stored.cmd = job[p].cmd THEN stored.tx ELSE NoTx]
  /\ UNCHANGED <<disk, lockFile, rec, accepted, faults>>

RevisionMatches(c) ==
  Expect[c] \in {AnyRevision, Len(docs[Head(Writes[c])])}

\* Transaction.begin, then the handler reads its documents; a handler that
\* finds another revision raises CONFLICT.
ReadDocuments(p) ==
  /\ pc[p] = "read"
  /\ IF RevisionMatches(job[p].cmd)
       THEN /\ \E t \in FreshTx :
                 job' = [job EXCEPT ![p] = [@ EXCEPT !.tx = t, !.seen = docs]]
            /\ Goto(p, "plan")
       ELSE Goto(p, "release") /\ UNCHANGED job
  /\ UNCHANGED <<disk, lockFile, rec, accepted, faults>>

\* plan_yaml_write hashes each target as it is when the write is planned;
\* plan_domain_event refuses an event file that exists.
PlannedWrites(p) ==
  [i \in DOMAIN Writes[job[p].cmd] |->
     LET d == Writes[job[p].cmd][i]
     IN  [doc |-> d, before |-> docs[d], after |-> Append(job[p].seen[d], job[p].tx)]]

Plan(p) ==
  LET c == job[p].cmd IN
  /\ pc[p] = "plan"
  /\ IF c \in Eventful /\ events[c] # NoTx
       THEN Goto(p, "release") /\ UNCHANGED job
       ELSE Goto(p, "prepare") /\ job' = [job EXCEPT ![p].writes = PlannedWrites(p)]
  /\ UNCHANGED <<disk, lockFile, rec, accepted, faults>>

\* Transaction.commit up to the atomic write of the prepared journal.  The
\* staging files it writes first are read by nobody until the journal exists,
\* and no code deletes them afterwards.
Prepare(p) ==
  /\ pc[p] = "prepare"
  /\ journal' = [journal EXCEPT ![job[p].tx] =
                   [status |-> "prepared", cmd |-> job[p].cmd, writes |-> job[p].writes]]
  /\ Goto(p, "replace")
  /\ UNCHANGED <<docs, events, idem, lockFile, job, rec, accepted, faults>>

\* Mutant: an off-by-one leaves the last planned write out.
ReplaceAllButLast(p) ==
  LET w == job[p].writes[job[p].idx] IN
  /\ pc[p] = "replace"
  /\ docs' = [docs EXCEPT ![w.doc] = w.after]
  /\ job' = [job EXCEPT ![p].idx = @ + 1]
  /\ Goto(p, IF job[p].idx + 1 < Len(job[p].writes) THEN "replace" ELSE "event")
  /\ UNCHANGED <<events, journal, idem, lockFile, rec, accepted, faults>>

\* One atomic replacement of a target by its staging file.
Replace(p) ==
  LET w == job[p].writes[job[p].idx] IN
  /\ pc[p] = "replace"
  /\ docs' = [docs EXCEPT ![w.doc] = w.after]
  /\ job' = [job EXCEPT ![p].idx = @ + 1]
  /\ Goto(p, IF job[p].idx < Len(job[p].writes) THEN "replace" ELSE "event")
  /\ UNCHANGED <<events, journal, idem, lockFile, rec, accepted, faults>>

\* Mutant: the receipt is stored without marking the journal committed.
WriteEventSkipsCommit(p) ==
  LET c == job[p].cmd IN
  /\ pc[p] = "event"
  /\ events' = IF c \in Eventful THEN [events EXCEPT ![c] = job[p].tx] ELSE events
  /\ Goto(p, "store")
  /\ UNCHANGED <<docs, journal, idem, lockFile, job, rec, accepted, faults>>

WriteEvent(p) ==
  LET c == job[p].cmd IN
  /\ pc[p] = "event"
  /\ events' = IF c \in Eventful THEN [events EXCEPT ![c] = job[p].tx] ELSE events
  /\ Goto(p, "commit")
  /\ UNCHANGED <<docs, journal, idem, lockFile, job, rec, accepted, faults>>

Commit(p) ==
  /\ pc[p] = "commit"
  /\ journal' = [journal EXCEPT ![job[p].tx] =
                   [status |-> "committed", cmd |-> job[p].cmd, writes |-> job[p].writes]]
  /\ Goto(p, "store")
  /\ UNCHANGED <<docs, events, idem, lockFile, job, rec, accepted, faults>>

Store(p) ==
  /\ pc[p] = "store"
  /\ idem' = [idem EXCEPT ![KeyOf[job[p].cmd]] = [cmd |-> job[p].cmd, tx |-> job[p].tx]]
  /\ job' = [job EXCEPT ![p].receipt = job[p].tx]
  /\ Goto(p, "release")
  /\ UNCHANGED <<docs, events, journal, lockFile, rec, accepted, faults>>

\* The `finally` clause: the lock file is removed if it holds this token, and
\* the caller gets its receipt (accepted when there is one).
Release(p) ==
  /\ pc[p] = "release"
  /\ lockFile' = IF lockFile = p THEN NoLock ELSE lockFile
  /\ accepted' = IF job[p].receipt = NoTx THEN accepted
                 ELSE [accepted EXCEPT ![job[p].cmd] = @ \cup {job[p].receipt}]
  /\ job' = [job EXCEPT ![p] = IdleJob]
  /\ Goto(p, "idle")
  /\ UNCHANGED <<disk, rec, faults>>

-----------------------------------------------------------------------------
(* recover: for each TX-*/journal.json in the order of the directory names.  *)
(* It takes no lock.                                                         *)

RecoverStart(r) ==
  /\ rec[r].pc = "idle"
  /\ RecoverWaits => Executing = {}
  /\ rec' = [rec EXCEPT ![r] =
       [pc |-> "scan", tx |-> NoTx, idx |-> 1,
        todo |-> {t \in TxIds : journal[t].status # "none"}]]
  /\ UNCHANGED <<disk, lockFile, pc, job, accepted, faults>>

RecoverScan(r) ==
  /\ rec[r].pc = "scan"
  /\ IF rec[r].todo = {}
       THEN rec' = [rec EXCEPT ![r] = IdleRec]
       ELSE \E t \in rec[r].todo :
            /\ \A u \in rec[r].todo : t <= u
            /\ rec' = [rec EXCEPT ![r] =
                 [pc |-> IF journal[t].status = "prepared" THEN "write" ELSE "scan",
                  tx |-> t, idx |-> 1, todo |-> @.todo \ {t}]]
  /\ UNCHANGED <<disk, lockFile, pc, job, accepted, faults>>

\* The before-hash test of _apply_pending_writes; a write planned on a missing
\* file carries no before-hash and is never refused.
Refused(w) ==
  /\ docs[w.doc] # w.after
  /\ docs[w.doc] # <<>> /\ w.before # <<>>
  /\ docs[w.doc] # w.before

\* Mutant: recover restores the before-image and still marks the journal.
RecoverWriteRollsBack(r) ==
  LET writes == journal[rec[r].tx].writes
      w == writes[rec[r].idx] IN
  /\ rec[r].pc = "write"
  /\ docs' = [docs EXCEPT ![w.doc] = w.before]
  /\ rec' = [rec EXCEPT ![r].idx = @ + 1,
               ![r].pc = IF rec[r].idx < Len(writes) THEN "write" ELSE "event"]
  /\ UNCHANGED <<events, journal, idem, lockFile, pc, job, accepted, faults>>

\* One iteration of _apply_pending_writes: skip, refuse the whole recovery
\* (TRANSACTION_RECOVERY_REQUIRED, later journals are not looked at) or replace.
RecoverWrite(r) ==
  LET writes == journal[rec[r].tx].writes
      w == writes[rec[r].idx] IN
  /\ rec[r].pc = "write"
  /\ IF Refused(w)
       THEN rec' = [rec EXCEPT ![r] = IdleRec] /\ UNCHANGED docs
       ELSE /\ docs' = [docs EXCEPT ![w.doc] = w.after]
            /\ rec' = [rec EXCEPT ![r] = [@ EXCEPT
                 !.idx = rec[r].idx + 1, !.pc = IF rec[r].idx < Len(writes) THEN "write" ELSE "event"]]
  /\ UNCHANGED <<events, journal, idem, lockFile, pc, job, accepted, faults>>

\* _apply_pending_domain_events: an event file of another transaction refuses.
RecoverEvent(r) ==
  LET c == journal[rec[r].tx].cmd IN
  /\ rec[r].pc = "event"
  /\ IF c \in Eventful /\ events[c] \notin {NoTx, rec[r].tx}
       THEN rec' = [rec EXCEPT ![r] = IdleRec] /\ UNCHANGED events
       ELSE /\ events' = IF c \in Eventful
                           THEN [events EXCEPT ![c] = rec[r].tx] ELSE events
            /\ rec' = [rec EXCEPT ![r].pc = "mark"]
  /\ UNCHANGED <<docs, journal, idem, lockFile, pc, job, accepted, faults>>

\* Mutant: the finished journal is not rewritten.
RecoverMarkForgets(r) ==
  /\ rec[r].pc = "mark"
  /\ rec' = [rec EXCEPT ![r].pc = "scan"]
  /\ UNCHANGED <<disk, lockFile, pc, job, accepted, faults>>

RecoverMark(r) ==
  /\ rec[r].pc = "mark"
  /\ journal' = [journal EXCEPT ![rec[r].tx].status = "committed"]
  /\ rec' = [rec EXCEPT ![r].pc = "scan"]
  /\ UNCHANGED <<docs, events, idem, lockFile, pc, job, accepted, faults>>

-----------------------------------------------------------------------------
(* Faults and the operator *)

Fault == faults < MaxFaults /\ faults' = faults + 1

\* An exception that is not a GatewayError (OSError, a failpoint) while p holds
\* the lock: nothing more is written and `finally` runs.
IOError(p) ==
  /\ Fault
  /\ pc[p] \in {"plan", "prepare", "replace", "event", "commit", "store"}
  /\ Goto(p, "release")
  /\ UNCHANGED <<disk, lockFile, job, rec, accepted>>

\* The lock file was created and writing its token failed: acquire raises
\* without removing the file.
LockWriteError(p) ==
  /\ Fault
  /\ pc[p] = "idle" /\ lockFile = NoLock
  /\ lockFile' = OrphanLock
  /\ UNCHANGED <<disk, pc, job, rec, accepted>>

Crash(p) ==
  /\ Fault
  /\ pc[p] # "idle"
  /\ lockFile' = IF lockFile = p THEN OrphanLock ELSE lockFile
  /\ job' = [job EXCEPT ![p] = IdleJob]
  /\ Goto(p, "idle")
  /\ UNCHANGED <<disk, rec, accepted>>

RecoverCrash(r) ==
  /\ Fault
  /\ rec[r].pc # "idle"
  /\ rec' = [rec EXCEPT ![r] = IdleRec]
  /\ UNCHANGED <<disk, lockFile, pc, job, accepted>>

\* Environment: no production code reclaims an orphan lock; a person deletes
\* the file of a process that is gone.
RemoveOrphanLock ==
  /\ lockFile = OrphanLock
  /\ lockFile' = NoLock
  /\ UNCHANGED <<disk, pc, job, rec, accepted, faults>>

-----------------------------------------------------------------------------

Execute(p) ==
  \/ Lookup(p) \/ ReadDocuments(p) \/ Plan(p) \/ Prepare(p) \/ Replace(p)
  \/ WriteEvent(p) \/ Commit(p) \/ Store(p) \/ Release(p)

Recover(r) ==
  \/ RecoverScan(r) \/ RecoverWrite(r) \/ RecoverEvent(r) \/ RecoverMark(r)

Next ==
  \/ \E p \in Procs : Execute(p) \/ IOError(p) \/ LockWriteError(p) \/ Crash(p)
  \/ \E p \in Procs, c \in Commands : Acquire(p, c)
  \/ \E r \in Recoverers : RecoverStart(r) \/ Recover(r) \/ RecoverCrash(r)
  \/ RemoveOrphanLock

Spec == Init /\ [][Next]_vars

-----------------------------------------------------------------------------
(* Fairness: a thread that can take its next step takes it, an operator     *)
(* whose commands wait runs recover again and deletes an orphan lock file.  *)

Fairness ==
  /\ \A p \in Procs : WF_vars(Execute(p))
  /\ \A r \in Recoverers : WF_vars(Recover(r)) /\ WF_vars(RecoverStart(r))
  /\ WF_vars(RemoveOrphanLock)

FairSpec == Spec /\ Fairness

-----------------------------------------------------------------------------
(* Properties *)

Committed == {t \in TxIds : journal[t].status = "committed"}
Planned(t) == {w.doc : w \in Range(journal[t].writes)}
Holds(d) == Range(docs[d])

\* The project lock excludes: between acquire and release there is one command,
\* and the lock file holds its token, whatever crashes and failed lock writes
\* came before (lock.py, gateway.py:43-86).
LockExclusive ==
  \A p, q \in Executing : p = q /\ lockFile = p

\* A receipt is stable: all the accepted receipts of one idempotency key name
\* one transaction of one command (CG-004, CG-005; gateway.py:50-52, 78-83).
SameReceipt ==
  \A c1, c2 \in Commands :
    KeyOf[c1] = KeyOf[c2] =>
      \A t1 \in accepted[c1], t2 \in accepted[c2] : c1 = c2 /\ t1 = t2

\* An accepted receipt is only given for a transaction marked committed that
\* ran the accepted command (gateway.py:69-83).
AcceptedCommitted ==
  \A c \in Commands : \A t \in accepted[c] :
    t \in Committed /\ journal[t].cmd = c

\* Nothing is lost: the effect of a committed transaction is in every document
\* it planned and its event is on disk (transaction.py:140-185, 287-325).
CommittedDurable ==
  \A t \in Committed :
    /\ \A d \in Planned(t) : t \in Holds(d)
    /\ journal[t].cmd \in Eventful => events[journal[t].cmd] = t

\* What recover leaves, when it has nothing left to do and nobody is at work,
\* is whole transactions: "entierement avant ou entierement apres" (TX-002).
Quiet == Pending = {} /\ Executing = {} /\ Recovering = {}
RecoveredWhole ==
  Quiet => \A d \in Docs : Holds(d) = {t \in Committed : d \in Planned(t)}

\* CG-004: the same key and payload never takes effect twice.
NoDoubleEffect ==
  \A t1, t2 \in Committed : journal[t1].cmd = journal[t2].cmd => t1 = t2

\* Every prepared journal is finished: by its own command, or by recover.
PendingResolved == \A t \in TxIds : t \in Pending ~> t \in Committed

-----------------------------------------------------------------------------
(* The abstract store: a prepared journal is the point where a transaction   *)
(* takes effect, and a pending write counts as done.                         *)

PendingAfter(d) ==
  UNION {{w.after : w \in {v \in Range(journal[t].writes) : v.doc = d}} : t \in Pending}

storeBar == [d \in Docs |->
  IF PendingAfter(d) = {} THEN docs[d] ELSE CHOOSE h \in PendingAfter(d) : TRUE]
appliedBar == [t \in TxIds |-> journal[t].cmd]

Atomic == INSTANCE AtomicStore WITH store <- storeBar, applied <- appliedBar
ImplementsAtomicStore == Atomic!Spec
=============================================================================
