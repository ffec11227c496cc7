------------------------ MODULE GatewayJournalProofs ------------------------
(***************************************************************************)
(* Theorems about GatewayJournal for every set of processes, commands,     *)
(* documents and transaction ids, every number of faults, and whatever the *)
(* operator does; and, while callers are patient, that the store is       *)
(* durable and implements the abstract one.                                *)
(***************************************************************************)
EXTENDS GatewayJournal, TLAPS

\* Whoever is between acquire and release owns the lock file.
LockInv == \A p \in Procs : pc[p] # "idle" => lockFile = p

\* A journal announces at least one write.
JournalInv == \A t \in TxIds : journal[t].status # "none" => Len(journal[t].writes) >= 1

\* A live command knows its transaction, and from Prepare on its journal says
\* what it is doing.
JobInv ==
  \A p \in Procs :
    /\ pc[p] # "idle" => job[p].cmd \in Commands
    /\ pc[p] \in {"lookup", "read", "plan"} => job[p].idx = 1
    /\ pc[p] \in {"plan", "prepare"} =>
         job[p].tx \in TxIds /\ journal[job[p].tx].status = "none"
    /\ pc[p] = "prepare" => job[p].idx = 1 /\ Len(job[p].writes) >= 1
    /\ pc[p] \in {"replace", "event", "commit"} =>
         /\ job[p].tx \in TxIds
         /\ journal[job[p].tx].status # "none"
         /\ journal[job[p].tx].cmd = job[p].cmd
         /\ journal[job[p].tx].writes = job[p].writes
    /\ pc[p] = "replace" => job[p].idx \in 1..Len(job[p].writes)
    /\ pc[p] = "store" =>
         /\ job[p].tx \in TxIds
         /\ journal[job[p].tx].status = "committed"
         /\ journal[job[p].tx].cmd = job[p].cmd

\* A recover call works on a journal that exists.
RecInv ==
  \A r \in Recoverers :
    /\ rec[r].pc \in {"write", "event", "mark"} =>
         rec[r].tx \in TxIds /\ journal[rec[r].tx].status # "none"
    /\ rec[r].pc = "write" => rec[r].idx \in 1..Len(journal[rec[r].tx].writes)
    /\ \A t \in rec[r].todo : journal[t].status # "none"

\* Every receipt anybody holds is the one stored under its idempotency key.
Stored(c, t) == idem[KeyOf[c]].cmd = c /\ idem[KeyOf[c]].tx = t
ReceiptInv ==
  /\ \A c \in Commands : idem[KeyOf[c]].cmd = c =>
       /\ idem[KeyOf[c]].tx \in TxIds
       /\ journal[idem[KeyOf[c]].tx].status = "committed"
       /\ journal[idem[KeyOf[c]].tx].cmd = c
  /\ \A p \in Procs :
       /\ pc[p] # "release" => job[p].receipt = NoTx
       /\ job[p].receipt # NoTx => Stored(job[p].cmd, job[p].receipt)
       /\ pc[p] \in {"read", "plan", "prepare", "replace", "event", "commit", "store"} =>
            idem[KeyOf[job[p].cmd]].cmd = NoCmd
  /\ \A c \in Commands : \A t \in accepted[c] : Stored(c, t)

IInv == TypeOK /\ LockInv /\ JournalInv /\ JobInv /\ RecInv /\ ReceiptInv

USE DEF disk, Goto, Fault

LEMMA IdleTypes == IdleJob \in Job /\ IdleRec \in RecState
BY NullsAssumption DEF IdleJob, Job, IdleRec, RecState

LEMMA PlannedWritesType ==
  ASSUME TypeOK, NEW p \in Procs, job[p].cmd \in Commands, job[p].tx \in TxIds
  PROVE  PlannedWrites(p) \in Seq(Write) /\ Len(PlannedWrites(p)) >= 1
<1> DEFINE W == Writes[job[p].cmd]
<1>1. W \in Seq(Docs) /\ W # <<>>  BY CommandsAssumption
<1>2. \A i \in DOMAIN W : W[i] \in Docs  BY <1>1
<1>3. \A d \in Docs : docs[d] \in Seq(TxIds) /\ Append(job[p].seen[d], job[p].tx) \in Seq(TxIds)
  BY DEF TypeOK, Job
<1>4. PlannedWrites(p) \in [1..Len(W) -> Write]
  BY <1>1, <1>2, <1>3 DEF PlannedWrites, Write
<1>5. Len(W) \in Nat /\ Len(W) >= 1  BY <1>1
<1> QED  BY <1>4, <1>5

LEMMA LookupReceipt ==
  ASSUME TypeOK, JobInv, NEW p \in Procs, Lookup(p)
  PROVE  \/ job' = job
         \/ \E t \in TxIds \cup {NoTx} : job' = [job EXCEPT ![p] = [job[p] EXCEPT !.receipt = t]]
<1> DEFINE stored == idem[KeyOf[job[p].cmd]]
           t == IF stored.cmd = job[p].cmd THEN stored.tx ELSE NoTx
<1>1. stored.tx \in TxIds \cup {NoTx}  BY ZenonT(30) DEF Lookup, JobInv, Keys, TypeOK
<1>2. job' = job \/ job' = [job EXCEPT ![p] = [job[p] EXCEPT !.receipt = t]]  BY DEF Lookup
<1> QED  BY <1>1, <1>2

LEMMA LookupFields ==
  ASSUME TypeOK, JobInv, NEW p \in Procs, Lookup(p), NEW q \in Procs
  PROVE  /\ job'[q].cmd = job[q].cmd /\ job'[q].tx = job[q].tx
         /\ job'[q].idx = job[q].idx /\ job'[q].writes = job[q].writes
<1>1. CASE job' = job  BY <1>1
<1>2. ASSUME NEW t \in TxIds \cup {NoTx}, job' = [job EXCEPT ![p] = [job[p] EXCEPT !.receipt = t]]
      PROVE  /\ job'[q].cmd = job[q].cmd /\ job'[q].tx = job[q].tx
             /\ job'[q].idx = job[q].idx /\ job'[q].writes = job[q].writes
  <2>1. job[p] \in Job /\ job'[q] = IF q = p THEN [job[p] EXCEPT !.receipt = t] ELSE job[q]
    BY <1>2 DEF TypeOK
  <2> QED  BY <2>1 DEF Job
<1> QED  BY <1>1, <1>2, LookupReceipt

LEMMA InitIInv == Init => IInv
<1> SUFFICES ASSUME Init PROVE IInv  OBVIOUS
<1> USE DEF Init, IdleJob, IdleRec, NoJournal
<1>1. TypeOK  BY NullsAssumption DEF TypeOK, Job, RecState, Journal, Keys, PCs
<1>2. LockInv /\ JournalInv /\ JobInv /\ RecInv  BY DEF LockInv, JournalInv, JobInv, RecInv
<1>3. ReceiptInv
  BY NullsAssumption, CommandsAssumption DEF ReceiptInv, Stored, Keys
<1> QED  BY <1>1, <1>2, <1>3 DEF IInv

LEMMA TypeStep == IInv /\ [Next]_vars => TypeOK'
<1> SUFFICES ASSUME IInv, [Next]_vars PROVE TypeOK'  OBVIOUS
<1> USE DEF TypeOK, IInv, PCs
<1>1. ASSUME NEW p \in Procs, NEW c \in Commands, Acquire(p, c) PROVE TypeOK'
  <2>1. [IdleJob EXCEPT !.cmd = c] \in Job  BY IdleTypes DEF Job
  <2>2. job' \in [Procs -> Job]  BY <1>1, <2>1 DEF Acquire
  <2> QED  BY <1>1, <2>2 DEF Acquire
<1>2. ASSUME NEW p \in Procs, Lookup(p) PROVE TypeOK'
  <2>1. \A t \in TxIds \cup {NoTx} : [job[p] EXCEPT !.receipt = t] \in Job  BY DEF Job
  <2>3. job' \in [Procs -> Job]  BY <1>2, <2>1, LookupReceipt
  <2>4. pc' \in [Procs -> PCs]  BY <1>2 DEF Lookup
  <2> QED  BY <1>2, <2>3, <2>4 DEF Lookup
<1>3. ASSUME NEW p \in Procs, ReadDocuments(p) PROVE TypeOK'
  <2>1. \A t \in TxIds : [job[p] EXCEPT !.tx = t, !.seen = docs] \in Job
    BY ZenonT(30) DEF Job
  <2>2. job' \in [Procs -> Job]  BY ZenonT(30), <1>3, <2>1 DEF ReadDocuments, FreshTx
  <2>3. pc' \in [Procs -> PCs]  BY <1>3 DEF ReadDocuments
  <2> QED  BY <1>3, <2>2, <2>3 DEF ReadDocuments
<1>4. ASSUME NEW p \in Procs, Plan(p) PROVE TypeOK'
  <2>1. PlannedWrites(p) \in Seq(Write)
    BY <1>4, PlannedWritesType DEF Plan, JobInv
  <2>2. [job[p] EXCEPT !.writes = PlannedWrites(p)] \in Job  BY ZenonT(30), <2>1 DEF Job
  <2>3. job' \in [Procs -> Job]  BY <1>4, <2>2 DEF Plan
  <2>4. pc' \in [Procs -> PCs]  BY <1>4 DEF Plan
  <2> QED  BY <1>4, <2>3, <2>4 DEF Plan
<1>5. ASSUME NEW p \in Procs, Prepare(p) PROVE TypeOK'
  BY <1>5 DEF Prepare, Job, JobInv, Journal
<1>6. ASSUME NEW p \in Procs, Replace(p) PROVE TypeOK'
  <2>1. job[p].writes[job[p].idx] \in Write  BY <1>6 DEF Replace, Job, JobInv
  <2>2. docs' \in [Docs -> Seq(TxIds)]  BY <1>6, <2>1 DEF Replace, Write
  <2>3. [job[p] EXCEPT !.idx = job[p].idx + 1] \in Job
    <3>1. job[p] \in Job /\ job[p].idx + 1 \in Nat  BY DEF Job
    <3> QED  BY <3>1 DEF Job
  <2>4. job' \in [Procs -> Job]  BY <1>6, <2>3 DEF Replace
  <2>5. pc' \in [Procs -> PCs]  BY <1>6 DEF Replace
  <2> QED  BY <1>6, <2>2, <2>4, <2>5 DEF Replace
<1>7. ASSUME NEW p \in Procs, WriteEvent(p) PROVE TypeOK'
  BY <1>7 DEF WriteEvent, JobInv
<1>8. ASSUME NEW p \in Procs, Commit(p) PROVE TypeOK'
  BY <1>8 DEF Commit, Job, JobInv, Journal
<1>9. ASSUME NEW p \in Procs, Store(p) PROVE TypeOK'
  <2>1. job[p].cmd \in Commands /\ job[p].tx \in TxIds  BY <1>9 DEF Store, JobInv
  <2>2. [job[p] EXCEPT !.receipt = job[p].tx] \in Job  BY ZenonT(30), <2>1 DEF Job
  <2>3. job' \in [Procs -> Job]  BY <1>9, <2>2 DEF Store
  <2>4. idem' \in [Keys -> [cmd : Commands \cup {NoCmd}, tx : TxIds \cup {NoTx}]]
    BY <1>9, <2>1 DEF Store
  <2> QED  BY <1>9, <2>3, <2>4 DEF Store
<1>10. ASSUME NEW p \in Procs, Release(p) PROVE TypeOK'
  <2>1. IdleJob \in Job  BY IdleTypes
  <2>2. job' \in [Procs -> Job]  BY <1>10, <2>1 DEF Release
  <2>3. job[p].cmd \in Commands /\ job[p].receipt \in TxIds \cup {NoTx}
    BY <1>10 DEF Release, JobInv, Job
  <2>4. accepted' \in [Commands -> SUBSET TxIds]  BY <1>10, <2>3 DEF Release
  <2> QED  BY <1>10, <2>2, <2>4 DEF Release
<1>11. ASSUME NEW r \in Recoverers, RecoverStart(r) PROVE TypeOK'
  BY <1>11 DEF RecoverStart, RecState
<1>12. ASSUME NEW r \in Recoverers, RecoverScan(r) PROVE TypeOK'
  <2>1. IdleRec \in RecState  BY IdleTypes
  <2>2. rec' \in [Recoverers -> RecState]  BY <1>12, <2>1 DEF RecoverScan, RecState
  <2> QED  BY <1>12, <2>2 DEF RecoverScan
<1>13. ASSUME NEW r \in Recoverers, RecoverWrite(r) PROVE TypeOK'
  <2> DEFINE w == journal[rec[r].tx].writes[rec[r].idx]
  <2>1. w \in Write  BY <1>13 DEF RecoverWrite, RecInv, Journal, NoJournal
  <2>2. docs' \in [Docs -> Seq(TxIds)]  BY <1>13, <2>1 DEF RecoverWrite, Write
  <2>3. IdleRec \in RecState  BY IdleTypes
  <2>4. \A q \in {"write", "event"} :
          [rec[r] EXCEPT !.idx = rec[r].idx + 1, !.pc = q] \in RecState
    <3>1. rec[r] \in RecState /\ rec[r].idx + 1 \in Nat  BY DEF RecState
    <3> QED  BY <3>1 DEF RecState
  <2>5. rec' \in [Recoverers -> RecState]  BY <1>13, <2>3, <2>4 DEF RecoverWrite
  <2> QED  BY <1>13, <2>2, <2>5 DEF RecoverWrite
<1>14. ASSUME NEW r \in Recoverers, RecoverEvent(r) PROVE TypeOK'
  <2>1. rec[r].tx \in TxIds /\ journal[rec[r].tx].cmd \in Commands
    BY <1>14 DEF RecoverEvent, RecInv, Journal, NoJournal
  <2>2. events' \in [Commands -> TxIds \cup {NoTx}]  BY <1>14, <2>1 DEF RecoverEvent
  <2>3. IdleRec \in RecState  BY IdleTypes
  <2>4. [rec[r] EXCEPT !.pc = "mark"] \in RecState  BY DEF RecState
  <2>5. rec' \in [Recoverers -> RecState]  BY <1>14, <2>3, <2>4 DEF RecoverEvent
  <2> QED  BY <1>14, <2>2, <2>5 DEF RecoverEvent
<1>15. ASSUME NEW r \in Recoverers, RecoverMark(r) PROVE TypeOK'
  <2>1. rec[r].tx \in TxIds /\ journal[rec[r].tx] \in Journal
    BY <1>15 DEF RecoverMark, RecInv, NoJournal
  <2>2. [journal[rec[r].tx] EXCEPT !.status = "committed"] \in Journal
    BY <2>1 DEF Journal
  <2>3. journal' \in [TxIds -> Journal \cup {NoJournal}]
    BY <1>15, <2>1, <2>2 DEF RecoverMark
  <2>4. [rec[r] EXCEPT !.pc = "scan"] \in RecState  BY DEF RecState
  <2>5. rec' \in [Recoverers -> RecState]  BY <1>15, <2>4 DEF RecoverMark
  <2> QED  BY <1>15, <2>3, <2>5 DEF RecoverMark
<1>16. ASSUME NEW p \in Procs, IOError(p) PROVE TypeOK'
  BY <1>16 DEF IOError
<1>17. ASSUME NEW p \in Procs, LockWriteError(p) PROVE TypeOK'
  BY <1>17 DEF LockWriteError
<1>18. ASSUME NEW p \in Procs, Crash(p) PROVE TypeOK'
  <2>1. IdleJob \in Job  BY IdleTypes
  <2>2. job' \in [Procs -> Job]  BY <1>18, <2>1 DEF Crash
  <2> QED  BY <1>18, <2>2 DEF Crash
<1>19. ASSUME NEW r \in Recoverers, RecoverCrash(r) PROVE TypeOK'
  BY <1>19 DEF RecoverCrash, IdleRec, RecState
<1>20. CASE RemoveOrphanLock  BY <1>20 DEF RemoveOrphanLock
<1>21. CASE UNCHANGED vars  BY <1>21 DEF vars
<1> QED
  BY <1>1, <1>2, <1>3, <1>4, <1>5, <1>6, <1>7, <1>8, <1>9, <1>10, <1>11, <1>12,
     <1>13, <1>14, <1>15, <1>16, <1>17, <1>18, <1>19, <1>20, <1>21
  DEF Next, Execute, Recover

LEMMA LockStep == IInv /\ [Next]_vars => LockInv'
<1> SUFFICES ASSUME IInv, [Next]_vars PROVE LockInv'  OBVIOUS
<1> USE DEF IInv, TypeOK, LockInv
<1>1. ASSUME NEW p \in Procs, NEW c \in Commands, Acquire(p, c) PROVE LockInv'
  BY <1>1, NullsAssumption DEF Acquire, IdleJob
<1>2. ASSUME NEW p \in Procs, Lookup(p) PROVE LockInv'
  BY <1>2 DEF Lookup
<1>3. ASSUME NEW p \in Procs, ReadDocuments(p) PROVE LockInv'
  BY <1>3 DEF ReadDocuments, FreshTx
<1>4. ASSUME NEW p \in Procs, Plan(p) PROVE LockInv'
  BY <1>4 DEF Plan
<1>5. ASSUME NEW p \in Procs, Prepare(p) PROVE LockInv'
  BY <1>5 DEF Prepare
<1>6. ASSUME NEW p \in Procs, Replace(p) PROVE LockInv'
  BY <1>6 DEF Replace
<1>7. ASSUME NEW p \in Procs, WriteEvent(p) PROVE LockInv'
  BY <1>7 DEF WriteEvent
<1>8. ASSUME NEW p \in Procs, Commit(p) PROVE LockInv'
  BY <1>8 DEF Commit
<1>9. ASSUME NEW p \in Procs, Store(p) PROVE LockInv'
  BY <1>9 DEF Store
<1>10. ASSUME NEW p \in Procs, Release(p) PROVE LockInv'
  BY <1>10 DEF Release, IdleJob
<1>11. ASSUME NEW p \in Procs, IOError(p) PROVE LockInv'
  BY <1>11 DEF IOError
<1>12. ASSUME NEW p \in Procs, LockWriteError(p) PROVE LockInv'
  BY <1>12, NullsAssumption DEF LockWriteError
<1>13. ASSUME NEW p \in Procs, Crash(p) PROVE LockInv'
  BY <1>13 DEF Crash, IdleJob
<1>14. ASSUME NEW r \in Recoverers, RecoverStart(r) PROVE LockInv'
  BY <1>14 DEF RecoverStart
<1>15. ASSUME NEW r \in Recoverers, RecoverScan(r) PROVE LockInv'
  BY <1>15 DEF RecoverScan, IdleRec
<1>16. ASSUME NEW r \in Recoverers, RecoverWrite(r) PROVE LockInv'
  BY <1>16 DEF RecoverWrite, IdleRec
<1>17. ASSUME NEW r \in Recoverers, RecoverEvent(r) PROVE LockInv'
  BY <1>17 DEF RecoverEvent, IdleRec
<1>18. ASSUME NEW r \in Recoverers, RecoverMark(r) PROVE LockInv'
  BY <1>18 DEF RecoverMark
<1>19. ASSUME NEW r \in Recoverers, RecoverCrash(r) PROVE LockInv'
  BY <1>19 DEF RecoverCrash, IdleRec
<1>20. CASE RemoveOrphanLock  BY <1>20, NullsAssumption DEF RemoveOrphanLock
<1>21. CASE UNCHANGED vars  BY <1>21 DEF vars
<1> QED
  BY <1>1, <1>2, <1>3, <1>4, <1>5, <1>6, <1>7, <1>8, <1>9, <1>10, <1>11, <1>12, <1>13, <1>14, <1>15, <1>16, <1>17, <1>18, <1>19, <1>20, <1>21
  DEF Next, Execute, Recover

LEMMA JournalStep == IInv /\ [Next]_vars => JournalInv'
<1> SUFFICES ASSUME IInv, [Next]_vars PROVE JournalInv'  OBVIOUS
<1> USE DEF IInv, TypeOK, JournalInv
<1>1. ASSUME NEW p \in Procs, NEW c \in Commands, Acquire(p, c) PROVE JournalInv'
  BY <1>1 DEF Acquire, IdleJob, Job, JobInv, NoJournal
<1>2. ASSUME NEW p \in Procs, Lookup(p) PROVE JournalInv'
  BY <1>2 DEF Lookup, Job, JobInv, NoJournal
<1>3. ASSUME NEW p \in Procs, ReadDocuments(p) PROVE JournalInv'
  BY <1>3 DEF ReadDocuments, FreshTx, Job, JobInv, NoJournal
<1>4. ASSUME NEW p \in Procs, Plan(p) PROVE JournalInv'
  BY <1>4 DEF Plan, Job, JobInv, NoJournal
<1>5. ASSUME NEW p \in Procs, Prepare(p) PROVE JournalInv'
  BY <1>5 DEF Prepare, Job, JobInv, NoJournal
<1>6. ASSUME NEW p \in Procs, Replace(p) PROVE JournalInv'
  BY <1>6 DEF Replace, Job, JobInv, NoJournal
<1>7. ASSUME NEW p \in Procs, WriteEvent(p) PROVE JournalInv'
  BY <1>7 DEF WriteEvent, Job, JobInv, NoJournal
<1>8. ASSUME NEW p \in Procs, Commit(p) PROVE JournalInv'
  BY <1>8 DEF Commit, Job, JobInv, NoJournal
<1>9. ASSUME NEW p \in Procs, Store(p) PROVE JournalInv'
  BY <1>9 DEF Store, Job, JobInv, NoJournal
<1>10. ASSUME NEW p \in Procs, Release(p) PROVE JournalInv'
  BY <1>10 DEF Release, IdleJob, Job, JobInv, NoJournal
<1>11. ASSUME NEW p \in Procs, IOError(p) PROVE JournalInv'
  BY <1>11 DEF IOError, Job, JobInv, NoJournal
<1>12. ASSUME NEW p \in Procs, LockWriteError(p) PROVE JournalInv'
  BY <1>12 DEF LockWriteError, Job, JobInv, NoJournal
<1>13. ASSUME NEW p \in Procs, Crash(p) PROVE JournalInv'
  BY <1>13 DEF Crash, IdleJob, Job, JobInv, NoJournal
<1>14. ASSUME NEW r \in Recoverers, RecoverStart(r) PROVE JournalInv'
  BY <1>14 DEF RecoverStart, Job, JobInv, NoJournal
<1>15. ASSUME NEW r \in Recoverers, RecoverScan(r) PROVE JournalInv'
  BY <1>15 DEF RecoverScan, IdleRec, Job, JobInv, NoJournal
<1>16. ASSUME NEW r \in Recoverers, RecoverWrite(r) PROVE JournalInv'
  BY <1>16 DEF RecoverWrite, IdleRec, Job, JobInv, NoJournal
<1>17. ASSUME NEW r \in Recoverers, RecoverEvent(r) PROVE JournalInv'
  BY <1>17 DEF RecoverEvent, IdleRec, Job, JobInv, NoJournal
<1>18. ASSUME NEW r \in Recoverers, RecoverMark(r) PROVE JournalInv'
  <2>1. \A t \in TxIds : journal'[t].writes = journal[t].writes
    BY <1>18 DEF RecoverMark, RecInv
  <2>2. \A t \in TxIds : journal'[t].status # "none" => journal[t].status # "none"
    BY <1>18 DEF RecoverMark, RecInv
  <2> QED  BY <2>1, <2>2
<1>19. ASSUME NEW r \in Recoverers, RecoverCrash(r) PROVE JournalInv'
  BY <1>19 DEF RecoverCrash, IdleRec, Job, JobInv, NoJournal
<1>20. CASE RemoveOrphanLock  BY <1>20 DEF RemoveOrphanLock, Job, JobInv, NoJournal
<1>21. CASE UNCHANGED vars  BY <1>21 DEF vars, Job, JobInv, NoJournal
<1> QED
  BY <1>1, <1>2, <1>3, <1>4, <1>5, <1>6, <1>7, <1>8, <1>9, <1>10, <1>11, <1>12, <1>13, <1>14, <1>15, <1>16, <1>17, <1>18, <1>19, <1>20, <1>21
  DEF Next, Execute, Recover

LEMMA JobStep == IInv /\ [Next]_vars => JobInv'
<1> SUFFICES ASSUME IInv, [Next]_vars PROVE JobInv'  OBVIOUS
<1> USE DEF IInv, TypeOK, JobInv
<1>1. ASSUME NEW p \in Procs, NEW c \in Commands, Acquire(p, c) PROVE JobInv'
  BY <1>1 DEF Acquire, IdleJob, LockInv, Job, JournalInv, RecInv
<1>2. ASSUME NEW p \in Procs, Lookup(p) PROVE JobInv'
  <2>1. \A q \in Procs : /\ job'[q].cmd = job[q].cmd /\ job'[q].tx = job[q].tx
                        /\ job'[q].idx = job[q].idx /\ job'[q].writes = job[q].writes
    BY <1>2, LookupFields
  <2>2. journal' = journal /\ pc' \in {[pc EXCEPT ![p] = "read"], [pc EXCEPT ![p] = "release"]}
    BY <1>2 DEF Lookup
  <2> QED  BY <1>2, <2>1, <2>2 DEF Lookup
<1>3. ASSUME NEW p \in Procs, ReadDocuments(p) PROVE JobInv'
  <2>1. CASE RevisionMatches(job[p].cmd)
    <3>1. PICK t \in FreshTx : job' = [job EXCEPT ![p] = [@ EXCEPT !.tx = t, !.seen = docs]]
      BY <1>3, <2>1 DEF ReadDocuments
    <3>2. t \in TxIds /\ journal[t].status = "none"  BY DEF FreshTx
    <3>3. /\ job'[p].cmd = job[p].cmd /\ job'[p].tx = t /\ job'[p].idx = job[p].idx
          /\ \A q \in Procs \ {p} : job'[q] = job[q]
      BY <3>1 DEF Job
    <3>4. journal' = journal /\ pc' = [pc EXCEPT ![p] = "plan"]
      BY <1>3, <2>1 DEF ReadDocuments
    <3> QED  BY ZenonT(30), <1>3, <3>2, <3>3, <3>4 DEF ReadDocuments
  <2>2. CASE ~RevisionMatches(job[p].cmd)  BY <1>3, <2>2 DEF ReadDocuments
  <2> QED  BY <2>1, <2>2
<1>4. ASSUME NEW p \in Procs, Plan(p) PROVE JobInv'
  <2>1. CASE pc'[p] = "prepare"
    <3>1. /\ job' = [job EXCEPT ![p] = [job[p] EXCEPT !.writes = PlannedWrites(p)]]
          /\ pc' = [pc EXCEPT ![p] = "prepare"] /\ journal' = journal
      BY <1>4, <2>1 DEF Plan
    <3>2. Len(PlannedWrites(p)) >= 1  BY <1>4, PlannedWritesType DEF Plan
    <3>3. /\ job'[p].cmd = job[p].cmd /\ job'[p].tx = job[p].tx /\ job'[p].idx = job[p].idx
          /\ job'[p].writes = PlannedWrites(p)
          /\ \A q \in Procs \ {p} : job'[q] = job[q]
      BY <3>1 DEF Job
    <3> QED  BY <1>4, <3>1, <3>2, <3>3 DEF Plan
  <2>2. CASE pc'[p] # "prepare"  BY <1>4, <2>2 DEF Plan
  <2> QED  BY <2>1, <2>2
<1>5. ASSUME NEW p \in Procs, Prepare(p) PROVE JobInv'
  BY <1>5 DEF Prepare, LockInv, Job, JournalInv, RecInv
<1>6. ASSUME NEW p \in Procs, Replace(p) PROVE JobInv'
  BY <1>6 DEF Replace, LockInv, Job, JournalInv, RecInv
<1>7. ASSUME NEW p \in Procs, WriteEvent(p) PROVE JobInv'
  BY <1>7 DEF WriteEvent, LockInv, Job, JournalInv, RecInv
<1>8. ASSUME NEW p \in Procs, Commit(p) PROVE JobInv'
  BY <1>8 DEF Commit, LockInv, Job, JournalInv, RecInv
<1>9. ASSUME NEW p \in Procs, Store(p) PROVE JobInv'
  BY <1>9 DEF Store, LockInv, Job, JournalInv, RecInv
<1>10. ASSUME NEW p \in Procs, Release(p) PROVE JobInv'
  BY <1>10 DEF Release, IdleJob, LockInv, Job, JournalInv, RecInv
<1>11. ASSUME NEW p \in Procs, IOError(p) PROVE JobInv'
  BY <1>11 DEF IOError, LockInv, Job, JournalInv, RecInv
<1>12. ASSUME NEW p \in Procs, LockWriteError(p) PROVE JobInv'
  BY <1>12 DEF LockWriteError, LockInv, Job, JournalInv, RecInv
<1>13. ASSUME NEW p \in Procs, Crash(p) PROVE JobInv'
  BY <1>13 DEF Crash, IdleJob, LockInv, Job, JournalInv, RecInv
<1>14. ASSUME NEW r \in Recoverers, RecoverStart(r) PROVE JobInv'
  BY <1>14 DEF RecoverStart, LockInv, Job, JournalInv, RecInv
<1>15. ASSUME NEW r \in Recoverers, RecoverScan(r) PROVE JobInv'
  BY <1>15 DEF RecoverScan, IdleRec, LockInv, Job, JournalInv, RecInv
<1>16. ASSUME NEW r \in Recoverers, RecoverWrite(r) PROVE JobInv'
  BY <1>16 DEF RecoverWrite, IdleRec, LockInv, Job, JournalInv, RecInv
<1>17. ASSUME NEW r \in Recoverers, RecoverEvent(r) PROVE JobInv'
  BY <1>17 DEF RecoverEvent, IdleRec, LockInv, Job, JournalInv, RecInv
<1>18. ASSUME NEW r \in Recoverers, RecoverMark(r) PROVE JobInv'
  BY <1>18 DEF RecoverMark, LockInv, Job, JournalInv, RecInv
<1>19. ASSUME NEW r \in Recoverers, RecoverCrash(r) PROVE JobInv'
  BY <1>19 DEF RecoverCrash, IdleRec, LockInv, Job, JournalInv, RecInv
<1>20. CASE RemoveOrphanLock  BY <1>20 DEF RemoveOrphanLock, LockInv, Job, JournalInv, RecInv
<1>21. CASE UNCHANGED vars  BY <1>21 DEF vars, LockInv, Job, JournalInv, RecInv
<1> QED
  BY <1>1, <1>2, <1>3, <1>4, <1>5, <1>6, <1>7, <1>8, <1>9, <1>10, <1>11, <1>12, <1>13, <1>14, <1>15, <1>16, <1>17, <1>18, <1>19, <1>20, <1>21
  DEF Next, Execute, Recover

LEMMA RecStep == IInv /\ [Next]_vars => RecInv'
<1> SUFFICES ASSUME IInv, [Next]_vars PROVE RecInv'  OBVIOUS
<1> USE DEF IInv, TypeOK, RecInv
<1>1. ASSUME NEW p \in Procs, NEW c \in Commands, Acquire(p, c) PROVE RecInv'
  BY <1>1 DEF Acquire, IdleJob, JobInv, JournalInv, Job, RecState
<1>2. ASSUME NEW p \in Procs, Lookup(p) PROVE RecInv'
  BY <1>2 DEF Lookup, JobInv, JournalInv, Job, RecState
<1>3. ASSUME NEW p \in Procs, ReadDocuments(p) PROVE RecInv'
  BY <1>3 DEF ReadDocuments, FreshTx, JobInv, JournalInv, Job, RecState
<1>4. ASSUME NEW p \in Procs, Plan(p) PROVE RecInv'
  BY <1>4 DEF Plan, JobInv, JournalInv, Job, RecState
<1>5. ASSUME NEW p \in Procs, Prepare(p) PROVE RecInv'
  BY <1>5 DEF Prepare, JobInv, JournalInv, Job, RecState
<1>6. ASSUME NEW p \in Procs, Replace(p) PROVE RecInv'
  BY <1>6 DEF Replace, JobInv, JournalInv, Job, RecState
<1>7. ASSUME NEW p \in Procs, WriteEvent(p) PROVE RecInv'
  BY <1>7 DEF WriteEvent, JobInv, JournalInv, Job, RecState
<1>8. ASSUME NEW p \in Procs, Commit(p) PROVE RecInv'
  BY <1>8 DEF Commit, JobInv, JournalInv, Job, RecState
<1>9. ASSUME NEW p \in Procs, Store(p) PROVE RecInv'
  BY <1>9 DEF Store, JobInv, JournalInv, Job, RecState
<1>10. ASSUME NEW p \in Procs, Release(p) PROVE RecInv'
  BY <1>10 DEF Release, IdleJob, JobInv, JournalInv, Job, RecState
<1>11. ASSUME NEW p \in Procs, IOError(p) PROVE RecInv'
  BY <1>11 DEF IOError, JobInv, JournalInv, Job, RecState
<1>12. ASSUME NEW p \in Procs, LockWriteError(p) PROVE RecInv'
  BY <1>12 DEF LockWriteError, JobInv, JournalInv, Job, RecState
<1>13. ASSUME NEW p \in Procs, Crash(p) PROVE RecInv'
  BY <1>13 DEF Crash, IdleJob, JobInv, JournalInv, Job, RecState
<1>14. ASSUME NEW r \in Recoverers, RecoverStart(r) PROVE RecInv'
  BY <1>14 DEF RecoverStart, JobInv, JournalInv, Job, RecState
<1>15. ASSUME NEW r \in Recoverers, RecoverScan(r) PROVE RecInv'
  <2>1. journal' = journal  BY <1>15 DEF RecoverScan
  <2>2. CASE rec' = [rec EXCEPT ![r] = IdleRec]  BY <2>1, <2>2 DEF IdleRec
  <2>3. ASSUME NEW t \in rec[r].todo, rec[r].pc = "scan",
               rec' = [rec EXCEPT ![r] =
                 [pc |-> IF journal[t].status = "prepared" THEN "write" ELSE "scan",
                  tx |-> t, idx |-> 1, todo |-> @.todo \ {t}]]
        PROVE  RecInv'
    <3>1. /\ rec'[r].pc = IF journal[t].status = "prepared" THEN "write" ELSE "scan"
          /\ rec'[r].tx = t /\ rec'[r].idx = 1 /\ rec'[r].todo = rec[r].todo \ {t}
          /\ \A q \in Recoverers \ {r} : rec'[q] = rec[q]
      BY <2>3
    <3>2. t \in TxIds /\ journal[t].status # "none"  BY DEF RecState
    <3>3. 1 \in 1 .. Len(journal[t].writes)
      BY <3>2 DEF JournalInv, Journal, NoJournal
    <3> QED  BY <2>1, <3>1, <3>2, <3>3
  <2> QED  BY <1>15, <2>2, <2>3 DEF RecoverScan
<1>16. ASSUME NEW r \in Recoverers, RecoverWrite(r) PROVE RecInv'
  <2>1. journal' = journal  BY <1>16 DEF RecoverWrite
  <2>2. CASE rec' = [rec EXCEPT ![r] = IdleRec]  BY <2>1, <2>2 DEF IdleRec
  <2>3. CASE rec' # [rec EXCEPT ![r] = IdleRec]
    <3> DEFINE W == journal[rec[r].tx].writes
    <3>1. /\ rec'[r].idx = rec[r].idx + 1 /\ rec'[r].tx = rec[r].tx
          /\ rec'[r].todo = rec[r].todo
          /\ rec'[r].pc = IF rec[r].idx < Len(W) THEN "write" ELSE "event"
          /\ \A q \in Recoverers \ {r} : rec'[q] = rec[q]
      <4> DEFINE next == IF rec[r].idx < Len(W) THEN "write" ELSE "event"
      <4>1. rec' = [rec EXCEPT ![r] = [rec[r] EXCEPT !.idx = rec[r].idx + 1, !.pc = next]]
        BY <1>16, <2>3 DEF RecoverWrite
      <4> QED  BY <4>1 DEF RecState
    <3>2. rec[r].idx \in Nat /\ Len(W) \in Nat
      BY <1>16 DEF RecoverWrite, RecState, Journal, NoJournal
    <3>3. rec[r].pc = "write" /\ rec[r].idx \in 1 .. Len(W)  BY <1>16 DEF RecoverWrite
    <3>4. rec[r].idx < Len(W) => rec[r].idx + 1 \in 1 .. Len(W)  BY <3>2, <3>3
    <3> QED  BY <2>1, <3>1, <3>3, <3>4
  <2> QED  BY <2>2, <2>3
<1>17. ASSUME NEW r \in Recoverers, RecoverEvent(r) PROVE RecInv'
  <2>1. journal' = journal  BY <1>17 DEF RecoverEvent
  <2>2. CASE rec' = [rec EXCEPT ![r] = IdleRec]  BY <2>1, <2>2 DEF IdleRec
  <2>3. CASE rec' # [rec EXCEPT ![r] = IdleRec]
    <3>1. /\ rec'[r].tx = rec[r].tx /\ rec'[r].todo = rec[r].todo /\ rec'[r].pc = "mark"
          /\ \A q \in Recoverers \ {r} : rec'[q] = rec[q]
      BY <1>17, <2>3 DEF RecoverEvent, RecState
    <3> QED  BY <1>17, <2>1, <3>1 DEF RecoverEvent
  <2> QED  BY <2>2, <2>3
<1>18. ASSUME NEW r \in Recoverers, RecoverMark(r) PROVE RecInv'
  BY <1>18 DEF RecoverMark, JobInv, JournalInv, Job, RecState
<1>19. ASSUME NEW r \in Recoverers, RecoverCrash(r) PROVE RecInv'
  BY <1>19 DEF RecoverCrash, IdleRec, JobInv, JournalInv, Job, RecState
<1>20. CASE RemoveOrphanLock  BY <1>20 DEF RemoveOrphanLock, JobInv, JournalInv, Job, RecState
<1>21. CASE UNCHANGED vars  BY <1>21 DEF vars, JobInv, JournalInv, Job, RecState
<1> QED
  BY <1>1, <1>2, <1>3, <1>4, <1>5, <1>6, <1>7, <1>8, <1>9, <1>10, <1>11, <1>12, <1>13, <1>14, <1>15, <1>16, <1>17, <1>18, <1>19, <1>20, <1>21
  DEF Next, Execute, Recover

LEMMA ReceiptsStay ==
  ASSUME ReceiptInv, UNCHANGED <<idem, accepted, pc, job, journal>>
  PROVE  ReceiptInv'
BY DEF ReceiptInv, Stored

LEMMA ReceiptStep == IInv /\ [Next]_vars => ReceiptInv'
<1> SUFFICES ASSUME IInv, [Next]_vars PROVE ReceiptInv'  OBVIOUS
<1> USE DEF IInv, TypeOK, ReceiptInv
<1>1. ASSUME NEW p \in Procs, NEW c \in Commands, Acquire(p, c) PROVE ReceiptInv'
  BY <1>1, NullsAssumption DEF Acquire, IdleJob, JobInv, LockInv, Job, Stored, Keys, RecInv
<1>2. ASSUME NEW p \in Procs, Lookup(p) PROVE ReceiptInv'
  <2> DEFINE stored == idem[KeyOf[job[p].cmd]]
             t == IF stored.cmd = job[p].cmd THEN stored.tx ELSE NoTx
  <2>0. UNCHANGED <<idem, journal, accepted>> /\ \A q \in Procs \ {p} : pc'[q] = pc[q]
    BY <1>2 DEF Lookup
  <2>1. \A q \in Procs : job'[q].cmd = job[q].cmd
    BY <1>2, LookupFields
  <2>2. \A q \in Procs \ {p} : job'[q].receipt = job[q].receipt
    BY <1>2 DEF Lookup
  <2>3. CASE stored.cmd = NoCmd
    <3>1. pc'[p] = "read" /\ job' = job  BY <1>2, <2>3 DEF Lookup
    <3> QED  BY <1>2, <2>0, <2>3, <3>1 DEF Lookup, Stored
  <2>4. CASE stored.cmd # NoCmd
    <3>1. pc'[p] = "release" /\ job'[p].receipt = t  BY <1>2, <2>4 DEF Lookup, Job
    <3>2. t # NoTx => Stored(job[p].cmd, t)  BY DEF Stored
    <3>3. \A q \in Procs : job'[q].receipt # NoTx => Stored(job[q].cmd, job[q].receipt)'
      BY <2>0, <2>1, <2>2, <3>1, <3>2 DEF Stored
    <3>4. \A q \in Procs : pc'[q] # "release" => job'[q].receipt = NoTx
      BY <2>0, <2>2, <3>1
    <3>5. \A q \in Procs :
            pc'[q] \in {"read", "plan", "prepare", "replace", "event", "commit", "store"} =>
              idem'[KeyOf[job'[q].cmd]].cmd = NoCmd
      BY <2>0, <2>1, <3>1
    <3>6. \A c \in Commands : \A u \in accepted'[c] : Stored(c, u)'  BY <2>0 DEF Stored
    <3> QED  BY <2>0, <3>3, <3>4, <3>5, <3>6
  <2> QED  BY <2>3, <2>4
<1>3. ASSUME NEW p \in Procs, ReadDocuments(p) PROVE ReceiptInv'
  <2>1. \A q \in Procs : job'[q].cmd = job[q].cmd /\ job'[q].receipt = job[q].receipt
    <3>1. \/ job' = job
          \/ \E t \in TxIds : job' = [job EXCEPT ![p] = [job[p] EXCEPT !.tx = t, !.seen = docs]]
      BY <1>3 DEF ReadDocuments, FreshTx
    <3>2. ASSUME NEW q \in Procs, NEW t \in TxIds,
                 job' = [job EXCEPT ![p] = [job[p] EXCEPT !.tx = t, !.seen = docs]]
          PROVE  job'[q].cmd = job[q].cmd /\ job'[q].receipt = job[q].receipt
      <4>1. job[p] \in Job /\ job'[q] = IF q = p THEN [job[p] EXCEPT !.tx = t, !.seen = docs]
                                         ELSE job[q]
        BY <3>2
      <4> QED  BY <4>1 DEF Job
    <3> QED  BY <3>1, <3>2
  <2>2. /\ UNCHANGED <<idem, journal, accepted>>
        /\ pc' \in {[pc EXCEPT ![p] = "plan"], [pc EXCEPT ![p] = "release"]}
    BY <1>3 DEF ReadDocuments
  <2>3. \A q \in Procs : pc'[q] # "release" => pc[q] # "release" /\ (pc'[q] = pc[q] \/ pc[q] = "read")
    BY <1>3, <2>2 DEF ReadDocuments
  <2>4. \A q \in Procs : job[q].receipt # NoTx => pc'[q] = "release"  BY <1>3, <2>2 DEF ReadDocuments
  <2> QED  BY <2>1, <2>2, <2>3, <2>4 DEF Stored
<1>4. ASSUME NEW p \in Procs, Plan(p) PROVE ReceiptInv'
  <2>1. \A q \in Procs : job'[q].cmd = job[q].cmd /\ job'[q].receipt = job[q].receipt
    <3>1. \/ job' = job
          \/ job' = [job EXCEPT ![p] = [job[p] EXCEPT !.writes = PlannedWrites(p)]]
      BY <1>4 DEF Plan
    <3>2. ASSUME NEW q \in Procs, job' = [job EXCEPT ![p] = [job[p] EXCEPT !.writes = PlannedWrites(p)]]
          PROVE  job'[q].cmd = job[q].cmd /\ job'[q].receipt = job[q].receipt
      <4>1. job[p] \in Job /\ job'[q] = IF q = p THEN [job[p] EXCEPT !.writes = PlannedWrites(p)]
                                         ELSE job[q]
        BY <3>2
      <4> QED  BY <4>1 DEF Job
    <3> QED  BY <3>1, <3>2
  <2>2. /\ UNCHANGED <<idem, journal, accepted>>
        /\ pc' \in {[pc EXCEPT ![p] = "prepare"], [pc EXCEPT ![p] = "release"]}
    BY <1>4 DEF Plan
  <2> QED  BY <1>4, <2>1, <2>2 DEF Plan, Stored
<1>5. ASSUME NEW p \in Procs, Prepare(p) PROVE ReceiptInv'
  BY <1>5 DEF Prepare, JobInv, LockInv, Job, Stored, Keys, RecInv
<1>6. ASSUME NEW p \in Procs, Replace(p) PROVE ReceiptInv'
  BY <1>6 DEF Replace, JobInv, LockInv, Job, Stored, Keys, RecInv
<1>7. ASSUME NEW p \in Procs, WriteEvent(p) PROVE ReceiptInv'
  BY <1>7 DEF WriteEvent, JobInv, LockInv, Job, Stored, Keys, RecInv
<1>8. ASSUME NEW p \in Procs, Commit(p) PROVE ReceiptInv'
  BY <1>8 DEF Commit, JobInv, LockInv, Job, Stored, Keys, RecInv
<1>9. ASSUME NEW p \in Procs, Store(p) PROVE ReceiptInv'
  <2> DEFINE cmd == job[p].cmd
             key == KeyOf[cmd]
  <2>1. cmd \in Commands /\ key \in Keys  BY <1>9 DEF Store, JobInv, Keys
  <2>2. idem[key].cmd = NoCmd  BY <1>9 DEF Store
  <2>3. /\ idem'[key].cmd = cmd /\ idem'[key].tx = job[p].tx
        /\ \A k \in Keys \ {key} : idem'[k] = idem[k]
    BY <1>9, <2>1 DEF Store
  <2>4. \A c \in Commands : KeyOf[c] \in Keys  BY DEF Keys
  <2>5. \A q \in Procs \ {p} : pc'[q] = pc[q] /\ pc[q] = "idle" /\ job'[q] = job[q]
    BY <1>9 DEF Store, LockInv
  <2>6. pc'[p] = "release" /\ job'[p].cmd = cmd /\ job'[p].receipt = job[p].tx
    BY <1>9 DEF Store, Job
  <2>7. UNCHANGED <<journal, accepted>>  BY <1>9 DEF Store
  <2>8. \A c \in Commands : KeyOf[c] = key => idem[KeyOf[c]].cmd # c
    BY <2>2, NullsAssumption
  <2>9. \A q \in Procs \ {p} : job[q].receipt = NoTx  BY <2>5
  <2>10. \A c \in Commands, t \in TxIds : Stored(c, t) => Stored(c, t)'
    BY <2>3, <2>4, <2>8 DEF Stored
  <2>11. idem'[KeyOf[job'[p].cmd]].cmd = job'[p].cmd /\ idem'[KeyOf[job'[p].cmd]].tx = job'[p].receipt
    BY <2>3, <2>6
  <2>12. \A c \in Commands : idem'[KeyOf[c]].cmd = c =>
           /\ idem'[KeyOf[c]].tx \in TxIds
           /\ journal[idem'[KeyOf[c]].tx].status = "committed"
           /\ journal[idem'[KeyOf[c]].tx].cmd = c
    BY <1>9, <2>3, <2>4 DEF Store, JobInv
  <2>13. \A q \in Procs :
           /\ pc'[q] # "release" => job'[q].receipt = NoTx
           /\ job'[q].receipt # NoTx => Stored(job[q].cmd, job[q].receipt)' 
    BY <2>5, <2>6, <2>9, <2>11 DEF Stored
  <2>14. \A q \in Procs : pc'[q] \notin {"read", "plan", "prepare", "replace", "event", "commit", "store"}
    BY <2>5, <2>6
  <2>15. \A c \in Commands : \A t \in accepted'[c] : Stored(c, t)'  BY <2>7, <2>10
  <2> QED  BY <2>7, <2>12, <2>13, <2>14, <2>15
<1>10. ASSUME NEW p \in Procs, Release(p) PROVE ReceiptInv'
  BY <1>10 DEF Release, IdleJob, JobInv, LockInv, Job, Stored, Keys, RecInv
<1>11. ASSUME NEW p \in Procs, IOError(p) PROVE ReceiptInv'
  BY <1>11 DEF IOError, JobInv, LockInv, Job, Stored, Keys, RecInv
<1>12. ASSUME NEW p \in Procs, LockWriteError(p) PROVE ReceiptInv'
  BY <1>12 DEF LockWriteError, JobInv, LockInv, Job, Stored, Keys, RecInv
<1>13. ASSUME NEW p \in Procs, Crash(p) PROVE ReceiptInv'
  BY <1>13 DEF Crash, IdleJob, JobInv, LockInv, Job, Stored, Keys, RecInv
<1>14. ASSUME NEW r \in Recoverers, RecoverStart(r) PROVE ReceiptInv'
  BY <1>14, ReceiptsStay DEF RecoverStart
<1>15. ASSUME NEW r \in Recoverers, RecoverScan(r) PROVE ReceiptInv'
  BY <1>15, ReceiptsStay DEF RecoverScan
<1>16. ASSUME NEW r \in Recoverers, RecoverWrite(r) PROVE ReceiptInv'
  BY <1>16, ReceiptsStay DEF RecoverWrite
<1>17. ASSUME NEW r \in Recoverers, RecoverEvent(r) PROVE ReceiptInv'
  BY <1>17, ReceiptsStay DEF RecoverEvent
<1>18. ASSUME NEW r \in Recoverers, RecoverMark(r) PROVE ReceiptInv'
  BY <1>18 DEF RecoverMark, JobInv, LockInv, Job, Stored, Keys, RecInv
<1>19. ASSUME NEW r \in Recoverers, RecoverCrash(r) PROVE ReceiptInv'
  BY <1>19, ReceiptsStay DEF RecoverCrash
<1>20. CASE RemoveOrphanLock  BY <1>20, ReceiptsStay DEF RemoveOrphanLock
<1>21. CASE UNCHANGED vars  BY <1>21, ReceiptsStay DEF vars
<1> QED
  BY <1>1, <1>2, <1>3, <1>4, <1>5, <1>6, <1>7, <1>8, <1>9, <1>10, <1>11, <1>12, <1>13, <1>14, <1>15, <1>16, <1>17, <1>18, <1>19, <1>20, <1>21
  DEF Next, Execute, Recover

LEMMA Invariance == Spec => []IInv
<1>1. IInv /\ [Next]_vars => IInv'
  BY TypeStep, LockStep, JournalStep, JobStep, RecStep, ReceiptStep DEF IInv
<1> QED  BY InitIInv, <1>1, PTL DEF Spec

\* The shapes of documents, journals, receipts and process states that TypeOK
\* lists are kept by every handler, fault and recovery step.
THEOREM TypeCorrect == Spec => []TypeOK
<1>1. IInv => TypeOK  BY DEF IInv
<1> QED  BY Invariance, <1>1, PTL

\* Whatever crashes, failed lock writes and unlocked recoveries happen, at most
\* one command is between acquire and release, and the lock file is its own.
THEOREM LockIsExclusive == Spec => []LockExclusive
<1>1. IInv => LockExclusive  BY DEF IInv, LockInv, LockExclusive, Executing
<1> QED  BY Invariance, <1>1, PTL

\* CG-004 and CG-005 for receipts: the accepted receipts of one idempotency
\* key all name one transaction of one command.
THEOREM ReceiptsAreStable == Spec => []SameReceipt
<1>1. IInv => SameReceipt
  <2> SUFFICES ASSUME IInv, NEW c1 \in Commands, NEW c2 \in Commands, KeyOf[c1] = KeyOf[c2],
                      NEW t1 \in accepted[c1], NEW t2 \in accepted[c2]
               PROVE  c1 = c2 /\ t1 = t2
    BY DEF SameReceipt
  <2>1. Stored(c1, t1) /\ Stored(c2, t2)  BY DEF IInv, ReceiptInv
  <2> QED  BY <2>1 DEF Stored
<1> QED  BY Invariance, <1>1, PTL

\* No receipt says accepted for a transaction whose journal is not committed.
THEOREM AcceptedIsCommitted == Spec => []AcceptedCommitted
<1>1. IInv => AcceptedCommitted
  <2> SUFFICES ASSUME IInv, NEW c \in Commands, NEW t \in accepted[c]
               PROVE  t \in Committed /\ journal[t].cmd = c
    BY DEF AcceptedCommitted
  <2>1. Stored(c, t)  BY DEF IInv, ReceiptInv
  <2> QED  BY <2>1 DEF IInv, ReceiptInv, Stored, Committed
<1> QED  BY Invariance, <1>1, PTL
-----------------------------------------------------------------------------
(* What commands and recoveries leave on disk while commands wait for journals *)
(* and recover waits for commands                                            *)

\* The effect of a journal is in all its documents; its event is written.
Applied(t) ==
  \A i \in DOMAIN journal[t].writes : docs[journal[t].writes[i].doc] = journal[t].writes[i].after
Announced(t) == journal[t].cmd \in Eventful => events[journal[t].cmd] = t

\* What a journal plans is its own transaction after what the document held, and
\* the same wherever it names the document.
WellPlanned(t) ==
  \A i, j \in DOMAIN journal[t].writes :
    /\ journal[t].writes[i].after = Append(journal[t].writes[i].before, t)
    /\ journal[t].writes[i].doc = journal[t].writes[j].doc =>
         journal[t].writes[i] = journal[t].writes[j]

\* A document of a pending journal is as it was planned on, or as planned.
HalfApplied(t) ==
  /\ \A i \in DOMAIN journal[t].writes :
       docs[journal[t].writes[i].doc] \in {journal[t].writes[i].before, journal[t].writes[i].after}
  /\ journal[t].cmd \in Eventful => events[journal[t].cmd] \in {NoTx, t}

\* The effect of a journal outlives those that follow.
Kept(t) ==
  /\ \A i \in DOMAIN journal[t].writes : t \in Range(docs[journal[t].writes[i].doc])
  /\ Announced(t)

DiskInv ==
  /\ \A t, u \in Pending : t = u
  /\ \A t \in TxIds : journal[t].status # "none" => WellPlanned(t)
  /\ \A t \in Pending : HalfApplied(t)
  /\ \A t \in Committed : Kept(t)

\* A command starts on whole documents and knows what it has written of its own.
WorkInv(p) ==
  /\ pc[p] \in {"lookup", "read", "plan", "prepare"} => Pending = {}
  /\ pc[p] \in {"plan", "prepare"} => job[p].seen = docs /\ RevisionMatches(job[p].cmd)
  /\ pc[p] = "prepare" => /\ job[p].writes = PlannedWrites(p)
                          /\ job[p].cmd \in Eventful => events[job[p].cmd] = NoTx
  /\ pc[p] \in {"replace", "event", "commit"} => job[p].tx \in Pending
  /\ pc[p] = "replace" =>
       \A i \in 1 .. job[p].idx - 1 : docs[job[p].writes[i].doc] = job[p].writes[i].after
  /\ pc[p] \in {"event", "commit"} => Applied(job[p].tx)
  /\ pc[p] = "commit" => Announced(job[p].tx)

\* A recover runs alone among commands, and several of them finish the same journal.
CallInv(r) ==
  LET t == rec[r].tx IN
  /\ rec[r].pc # "idle" => \A p \in Procs : pc[p] = "idle"
  /\ rec[r].pc \in {"write", "event", "mark"} =>
       Pending \subseteq {t} /\ (t \in Pending \/ (Applied(t) /\ Announced(t)))
  /\ rec[r].pc = "write" =>
       \A i \in 1 .. rec[r].idx - 1 :
         docs[journal[t].writes[i].doc] = journal[t].writes[i].after
  /\ rec[r].pc \in {"event", "mark"} => Applied(t)
  /\ rec[r].pc = "mark" => Announced(t)

SInv == /\ DiskInv
        /\ \A p \in Procs : WorkInv(p)
        /\ \A r \in Recoverers : CallInv(r)

\* Nobody sends a command before the journals that are left are recovered, and nobody
\* recovers while a command is executing.
Patient == CommandsWait = TRUE /\ RecoverWaits = TRUE

-----------------------------------------------------------------------------
(* Lemmas about the disk *)

LEMMA JournalFields ==
  ASSUME TypeOK, NEW t \in TxIds, journal[t].status # "none"
  PROVE  /\ journal[t].cmd \in Commands /\ journal[t].writes \in Seq(Write)
         /\ \A i \in DOMAIN journal[t].writes :
              /\ journal[t].writes[i] \in Write
              /\ journal[t].writes[i].doc \in Docs
              /\ journal[t].writes[i].before \in Seq(TxIds)
         /\ t \in Pending \cup Committed
<1>1. journal[t] \in Journal  BY DEF TypeOK, NoJournal
<1>2. journal[t].writes \in Seq(Write) /\ journal[t].cmd \in Commands  BY <1>1 DEF Journal
<1>3. \A i \in DOMAIN journal[t].writes : journal[t].writes[i] \in Write  BY <1>2
<1>4. \A w \in Write : w.doc \in Docs /\ w.before \in Seq(TxIds)  BY DEF Write
<1>5. t \in Pending \cup Committed  BY <1>1 DEF Journal, Pending, Committed
<1> QED  BY <1>2, <1>3, <1>4, <1>5

LEMMA AppendRange ==
  ASSUME NEW S, NEW s \in Seq(S), NEW e \in S
  PROVE  Range(s) \subseteq Range(Append(s, e)) /\ e \in Range(Append(s, e))
<1>1. Append(s, e) \in Seq(S) /\ Len(Append(s, e)) = Len(s) + 1  OBVIOUS
<1>2. Append(s, e)[Len(s) + 1] = e /\ \A i \in 1 .. Len(s) : Append(s, e)[i] = s[i]  OBVIOUS
<1>3. DOMAIN s = 1 .. Len(s) /\ DOMAIN Append(s, e) = 1 .. Len(s) + 1 /\ Len(s) \in Nat
  BY <1>1
<1>4. 1 .. Len(s) \subseteq 1 .. Len(s) + 1 /\ Len(s) + 1 \in 1 .. Len(s) + 1  BY <1>3
<1>5. e \in Range(Append(s, e))  BY <1>2, <1>3, <1>4 DEF Range
<1>6. ASSUME NEW x \in Range(s) PROVE x \in Range(Append(s, e))
  <2>1. PICK i \in 1 .. Len(s) : x = s[i]  BY <1>3 DEF Range
  <2> QED  BY <2>1, <1>2, <1>3, <1>4 DEF Range
<1> QED  BY <1>5, <1>6

\* The abstract store shows the documents as the one pending journal plans them.
LEMMA BarWithoutPending == ASSUME TypeOK, Pending = {} PROVE storeBar = docs
BY DEF storeBar, PendingAfter, TypeOK

LEMMA BarWithPending ==
  ASSUME TypeOK, DiskInv, NEW t \in Pending, NEW d \in Docs
  PROVE  /\ \A i \in DOMAIN journal[t].writes :
              journal[t].writes[i].doc = d => storeBar[d] = journal[t].writes[i].after
         /\ (\A i \in DOMAIN journal[t].writes : journal[t].writes[i].doc # d)
              => storeBar[d] = docs[d]
<1> DEFINE W == journal[t].writes
<1>1. t \in TxIds /\ journal[t].status # "none" /\ Pending = {t}  BY DEF Pending, DiskInv
<1>2. PendingAfter(d) = {w.after : w \in {x \in Range(W) : x.doc = d}}
  BY <1>1 DEF PendingAfter
<1>3. PendingAfter(d) = {W[i].after : i \in {j \in DOMAIN W : W[j].doc = d}}
  BY <1>2 DEF Range
<1>4. \A i, j \in DOMAIN W : W[i].doc = d /\ W[j].doc = d => W[i].after = W[j].after
  BY <1>1 DEF DiskInv, WellPlanned
<1>5. storeBar[d] = IF PendingAfter(d) = {} THEN docs[d] ELSE CHOOSE h \in PendingAfter(d) : TRUE
  BY DEF storeBar
<1>6. ASSUME NEW i \in DOMAIN W, W[i].doc = d PROVE storeBar[d] = W[i].after
  <2>1. PendingAfter(d) = {W[i].after}  BY <1>3, <1>4, <1>6
  <2> QED  BY <1>5, <2>1
<1>7. ASSUME \A i \in DOMAIN W : W[i].doc # d PROVE storeBar[d] = docs[d]
  BY <1>3, <1>5, <1>7
<1> QED  BY <1>6, <1>7

LEMMA BarStays ==
  ASSUME UNCHANGED <<docs, journal>>
  PROVE  UNCHANGED <<storeBar, appliedBar>> /\ Pending' = Pending /\ Committed' = Committed
BY DEF storeBar, appliedBar, PendingAfter, Pending, Committed

LEMMA BarOver ==
  ASSUME UNCHANGED journal
  PROVE  storeBar' = [d \in Docs |-> IF PendingAfter(d) = {} THEN docs'[d]
                                    ELSE CHOOSE h \in PendingAfter(d) : TRUE]
BY DEF storeBar, PendingAfter, Pending

LEMMA DiskStays == ASSUME DiskInv, UNCHANGED <<docs, events, journal>> PROVE DiskInv'
BY BarStays DEF DiskInv, WellPlanned, HalfApplied, Kept, Announced

\* Replacing one document as the only journal that may be pending plans it.
LEMMA Replacing ==
  ASSUME TypeOK, DiskInv, NEW t \in TxIds, journal[t].status # "none",
         Pending \subseteq {t}, t \in Pending \/ Applied(t),
         NEW i \in DOMAIN journal[t].writes,
         docs' = [docs EXCEPT ![journal[t].writes[i].doc] = journal[t].writes[i].after],
         UNCHANGED <<events, journal>>
  PROVE  /\ DiskInv'
         /\ docs'[journal[t].writes[i].doc] = journal[t].writes[i].after
         /\ \A j \in DOMAIN journal[t].writes :
              docs[journal[t].writes[j].doc] = journal[t].writes[j].after
                => docs'[journal[t].writes[j].doc] = journal[t].writes[j].after
         /\ UNCHANGED <<storeBar, appliedBar>>
<1> DEFINE W == journal[t].writes
<1>1. PICK w \in Write : w = W[i] /\ w.doc \in Docs /\ w.before \in Seq(TxIds)
  BY JournalFields
<1>2. docs \in [Docs -> Seq(TxIds)] /\ docs' \in [Docs -> Seq(TxIds)]
  BY <1>1 DEF TypeOK, Write
<1>3. docs'[w.doc] = w.after /\ \A d \in Docs \ {w.doc} : docs'[d] = docs[d]
  BY <1>1, <1>2
<1>4. w.after = Append(w.before, t) /\ \A j \in DOMAIN W : W[j].doc = w.doc => W[j] = w
  BY <1>1 DEF DiskInv, WellPlanned
<1>5. \A j \in DOMAIN W : W[j].doc \in Docs  BY JournalFields
<1>6. docs[w.doc] \in {w.before, w.after}
  BY <1>1 DEF DiskInv, HalfApplied, Applied
<1>7. \A j \in DOMAIN W : docs'[W[j].doc] \in {docs[W[j].doc], W[j].after}
  BY <1>3, <1>4, <1>5
<1>8. \A j \in DOMAIN W : docs[W[j].doc] = W[j].after => docs'[W[j].doc] = W[j].after
  BY <1>7
<1>9. \A d \in Docs : Range(docs[d]) \subseteq Range(docs'[d])
  <2>1. Range(w.before) \subseteq Range(w.after)
    <3>1. PICK s \in Seq(TxIds) : s = w.before  BY <1>1
    <3>2. w.after = Append(s, t)  BY <3>1, <1>4
    <3> QED  BY <3>1, <3>2, AppendRange
  <2>2. Range(docs[w.doc]) \subseteq Range(docs'[w.doc])  BY <2>1, <1>3, <1>6
  <2> QED  BY <2>2, <1>3
<1>10. Pending' = Pending /\ Committed' = Committed  BY DEF Pending, Committed
<1>11. ASSUME NEW u \in Committed PROVE Kept(u)'
  <2>1. u \in TxIds /\ journal[u].status # "none" /\ Kept(u)  BY DEF Committed, DiskInv
  <2>2. \A k \in DOMAIN journal[u].writes : journal[u].writes[k].doc \in Docs
    BY <2>1, JournalFields
  <2> QED  BY <2>1, <2>2, <1>9 DEF Kept, Announced
<1>12. ASSUME NEW u \in Pending PROVE HalfApplied(u)'
  <2>1. u = t /\ HalfApplied(t)  BY DEF DiskInv
  <2> QED  BY <2>1, <1>7 DEF HalfApplied
<1>13. DiskInv'
  BY <1>10, <1>11, <1>12 DEF DiskInv, WellPlanned
<1>14. storeBar' = storeBar
  <2>1. CASE t \in Pending
    <3>1. \A d \in Docs : PendingAfter(d)' = PendingAfter(d)  BY <1>10 DEF PendingAfter
    <3>2. Pending = {t}  BY <2>1
    <3>3. PendingAfter(w.doc) # {}
      <4>1. w \in Range(W)  BY <1>1 DEF Range
      <4>2. w.after \in PendingAfter(w.doc)  BY <2>1, <4>1 DEF PendingAfter
      <4> QED  BY <4>2
    <3>4. \A d \in Docs : PendingAfter(d) = {} => docs'[d] = docs[d]  BY <3>3, <1>3
    <3>5. storeBar' = [d \in Docs |-> IF PendingAfter(d) = {} THEN docs'[d]
                                     ELSE CHOOSE h \in PendingAfter(d) : TRUE]
      BY BarOver
    <3> QED  BY <3>4, <3>5 DEF storeBar
  <2>2. CASE t \notin Pending
    <3>1. docs[w.doc] = w.after  BY <2>2, <1>1 DEF Applied
    <3>2. docs' = docs  BY <3>1, <1>1, <1>2
    <3> QED  BY <3>2, BarStays
  <2> QED  BY <2>1, <2>2
<1> QED  BY <1>1, <1>3, <1>8, <1>13, <1>14 DEF appliedBar

\* Writing the event of the only journal that may be pending.
LEMMA Announcing ==
  ASSUME TypeOK, DiskInv, NEW t \in TxIds, journal[t].status # "none",
         Pending \subseteq {t}, t \in Pending \/ Announced(t),
         events' = IF journal[t].cmd \in Eventful THEN [events EXCEPT ![journal[t].cmd] = t]
                   ELSE events,
         UNCHANGED <<docs, journal>>
  PROVE  DiskInv' /\ Announced(t)'
<1>1. journal[t].cmd \in Commands  BY JournalFields
<1>2. PICK c \in Commands : c = journal[t].cmd  BY <1>1
<1>3. \A b \in Commands \ {c} : events'[b] = events[b]  BY <1>2 DEF TypeOK
<1>4. c \in Eventful => events'[c] = t /\ events[c] \in {NoTx, t}
  BY <1>2 DEF TypeOK, DiskInv, HalfApplied, Announced
<1>5. Pending' = Pending /\ Committed' = Committed  BY BarStays
<1>6. ASSUME NEW u \in Committed PROVE Kept(u)'
  <2>1. u \in TxIds /\ journal[u].status # "none" /\ Kept(u)  BY DEF Committed, DiskInv
  <2>2. journal[u].cmd \in Commands  BY <2>1, JournalFields
  <2>3. journal[u].cmd = c /\ c \in Eventful => u = t
    BY <2>1, <1>4, NullsAssumption DEF Kept, Announced
  <2> QED  BY <2>1, <2>2, <2>3, <1>3, <1>4 DEF Kept, Announced
<1>7. ASSUME NEW u \in Pending PROVE HalfApplied(u)'
  BY <1>2, <1>4 DEF DiskInv, HalfApplied
<1>8. DiskInv'  BY <1>5, <1>6, <1>7 DEF DiskInv, WellPlanned
<1> QED  BY <1>2, <1>4, <1>8 DEF Announced

\* Marking the only journal that may be pending, once its effect is there.
LEMMA Marking ==
  ASSUME TypeOK, DiskInv, NEW t \in TxIds, journal[t].status # "none",
         Pending \subseteq {t}, Applied(t), Announced(t),
         NEW x, journal' = [journal EXCEPT ![t] = x], x.status = "committed",
         x.cmd = journal[t].cmd, x.writes = journal[t].writes,
         UNCHANGED <<docs, events>>
  PROVE  /\ DiskInv' /\ Pending' = {} /\ Applied(t)' /\ Announced(t)'
         /\ UNCHANGED <<storeBar, appliedBar>>
<1>1. journal'[t] = x /\ \A u \in TxIds \ {t} : journal'[u] = journal[u]  BY DEF TypeOK
<1>2. \A u \in TxIds : journal'[u].cmd = journal[u].cmd /\ journal'[u].writes = journal[u].writes
  BY <1>1
<1>3. Pending' = {}  BY <1>1 DEF Pending
<1>4. Committed' = Committed \cup {t}  BY <1>1 DEF Committed
<1>5. Applied(t)' /\ Announced(t)'  BY <1>2 DEF Applied, Announced
<1>6. Kept(t)
  <2>1. \A i \in DOMAIN journal[t].writes :
          /\ journal[t].writes[i].before \in Seq(TxIds)
          /\ docs[journal[t].writes[i].doc] = Append(journal[t].writes[i].before, t)
    BY JournalFields DEF Applied, DiskInv, WellPlanned
  <2> QED  BY <2>1, AppendRange DEF Kept
<1>7. ASSUME NEW u \in Committed' PROVE Kept(u)'
  <2>1. u \in TxIds /\ Kept(u)  BY <1>4, <1>6 DEF Committed, DiskInv
  <2> QED  BY <2>1, <1>2 DEF Kept, Announced
<1>8. ASSUME NEW u \in TxIds, journal'[u].status # "none" PROVE WellPlanned(u)'
  <2>1. WellPlanned(u)  BY <1>1, <1>8 DEF DiskInv
  <2> QED  BY <2>1, <1>2 DEF WellPlanned
<1>9. DiskInv'  BY <1>3, <1>7, <1>8 DEF DiskInv
<1>10. appliedBar' = appliedBar  BY <1>2 DEF appliedBar
<1>11. storeBar' = docs
  BY <1>3 DEF storeBar, PendingAfter, TypeOK
<1>12. storeBar = docs
  <2>1. CASE Pending = {}  BY <2>1, BarWithoutPending
  <2>2. ASSUME t \in Pending, NEW d \in Docs PROVE storeBar[d] = docs[d]
    BY <2>2, BarWithPending DEF Applied
  <2>3. storeBar = [d \in Docs |-> storeBar[d]] /\ docs = [d \in Docs |-> docs[d]]
    BY DEF storeBar, TypeOK
  <2> QED  BY <2>1, <2>2, <2>3
<1> QED  BY <1>3, <1>5, <1>9, <1>10, <1>11, <1>12

-----------------------------------------------------------------------------
(* What a step of one actor leaves alone *)

LEMMA Alone ==
  ASSUME IInv, SInv, NEW p \in Procs, pc[p] # "idle"
  PROVE  (\A q \in Procs \ {p} : pc[q] = "idle") /\ (\A r \in Recoverers : rec[r].pc = "idle")
BY DEF IInv, LockInv, SInv, CallInv

LEMMA OwnStep ==
  ASSUME NEW p \in Procs, \A q \in Procs \ {p} : pc'[q] = "idle",
         \A r \in Recoverers : rec'[r].pc = "idle", DiskInv', WorkInv(p)'
  PROVE  SInv'
BY DEF SInv, WorkInv, CallInv

\* A command that is over, or about to be.
LEMMA EndedStep ==
  ASSUME IInv, SInv, NEW p \in Procs, pc[p] # "idle", UNCHANGED <<docs, events, journal, rec>>,
         \A q \in Procs \ {p} : pc'[q] = pc[q], pc'[p] \in {"idle", "release"}
  PROVE  SInv'
<1>1. DiskInv'  BY DiskStays DEF SInv
<1>2. WorkInv(p)'  BY DEF WorkInv
<1> QED  BY <1>1, <1>2, Alone, OwnStep

LEMMA StillStep ==
  ASSUME SInv, UNCHANGED <<docs, events, journal, pc, job, rec>>
  PROVE  SInv'
<1>1. DiskInv'  BY DiskStays DEF SInv
<1>2. ASSUME NEW p \in Procs PROVE WorkInv(p)'
  BY BarStays DEF SInv, WorkInv, RevisionMatches, PlannedWrites, Applied, Announced
<1>3. ASSUME NEW r \in Recoverers PROVE CallInv(r)'
  BY BarStays DEF SInv, CallInv, Applied, Announced
<1> QED  BY <1>1, <1>2, <1>3 DEF SInv

\* What is done for a journal stays done, and it stays pending until all is done.
Steady(t) ==
  /\ journal'[t].writes = journal[t].writes
  /\ \A j \in DOMAIN journal[t].writes :
       docs[journal[t].writes[j].doc] = journal[t].writes[j].after
         => docs'[journal[t].writes[j].doc] = journal[t].writes[j].after
  /\ Announced(t) => Announced(t)'
  /\ t \in Pending => t \in Pending' \/ (Applied(t)' /\ Announced(t)')

LEMMA SteadyApplied == ASSUME NEW t, Steady(t), Applied(t) PROVE Applied(t)'
BY DEF Steady, Applied

LEMMA CallStays ==
  ASSUME NEW s \in Recoverers, IInv, CallInv(s), rec'[s] = rec[s], UNCHANGED pc,
         Pending' \subseteq Pending,
         rec[s].pc \in {"write", "event", "mark"} => Steady(rec[s].tx)
  PROVE  CallInv(s)'
<1>1. CASE rec[s].pc \in {"write", "event", "mark"}
  <2> DEFINE t == rec[s].tx
             W == journal[t].writes
  <2>1. Steady(t) /\ (Applied(t) => Applied(t)') /\ (Announced(t) => Announced(t)')
    BY <1>1, SteadyApplied DEF Steady
  <2>2. Pending' \subseteq {t} /\ (t \in Pending' \/ (Applied(t)' /\ Announced(t)'))
    BY <1>1, <2>1 DEF CallInv, Steady
  <2>3. rec[s].pc = "write" => rec[s].idx \in 1 .. Len(W) /\ DOMAIN W = 1 .. Len(W)
    <3>1. rec[s].pc = "write" => t \in TxIds /\ journal[t].status # "none"
      BY DEF IInv, RecInv
    <3>2. rec[s].pc = "write" => W \in Seq(Write)  BY <3>1, JournalFields DEF IInv
    <3>3. rec[s].pc = "write" => rec[s].idx \in 1 .. Len(W)  BY DEF IInv, RecInv
    <3>4. rec[s].pc = "write" => DOMAIN W = 1 .. Len(W)  BY <3>2
    <3> QED  BY <3>3, <3>4
  <2>4. ASSUME rec[s].pc = "write", NEW i \in 1 .. rec[s].idx - 1
        PROVE  docs'[W[i].doc] = W[i].after
    <3>1. i \in DOMAIN W  BY <2>3, <2>4
    <3>2. docs[W[i].doc] = W[i].after  BY <2>4 DEF CallInv
    <3> QED  BY <2>1, <3>1, <3>2 DEF Steady
  <2> QED  BY <1>1, <2>1, <2>2, <2>4 DEF CallInv, Steady
<1>2. CASE rec[s].pc \notin {"write", "event", "mark"}
  BY <1>2 DEF CallInv
<1> QED  BY <1>1, <1>2

\* One step of a recover.
LEMMA CallStep ==
  ASSUME IInv, SInv, NEW r \in Recoverers, rec[r].pc # "idle", UNCHANGED pc, DiskInv',
         \A s \in Recoverers \ {r} : rec'[s] = rec[s], CallInv(r)', Pending' \subseteq Pending,
         \A s \in Recoverers : rec[s].pc \in {"write", "event", "mark"} => Steady(rec[s].tx)
  PROVE  SInv'
<1>1. \A p \in Procs : pc'[p] = "idle"  BY DEF SInv, CallInv
<1>2. \A p \in Procs : WorkInv(p)'  BY <1>1 DEF WorkInv
<1>3. \A s \in Recoverers \ {r} : CallInv(s)'  BY CallStays DEF SInv
<1> QED  BY <1>2, <1>3 DEF SInv

LEMMA SteadyWhenStill == ASSUME NEW t, UNCHANGED <<docs, events, journal>> PROVE Steady(t)
BY BarStays DEF Steady, Announced

-----------------------------------------------------------------------------
(* The steps of a command *)

LEMMA AcquireKeeps ==
  ASSUME IInv, SInv, Patient, NEW p \in Procs, NEW c \in Commands, Acquire(p, c)
  PROVE  SInv'
<1>1. \A q \in Procs : pc[q] = "idle"  BY NullsAssumption DEF Acquire, IInv, LockInv
<1>2. Pending = {} /\ \A r \in Recoverers : rec[r].pc = "idle"
  BY DEF Acquire, Patient, Recovering
<1>3. pc'[p] = "lookup" /\ \A q \in Procs \ {p} : pc'[q] = pc[q]
  BY DEF Acquire, IInv, TypeOK
<1>4. UNCHANGED <<docs, events, journal, rec>>  BY DEF Acquire
<1>5. DiskInv' /\ Pending' = Pending  BY <1>4, DiskStays, BarStays DEF SInv
<1>6. WorkInv(p)'  BY <1>2, <1>3, <1>5 DEF WorkInv
<1> QED  BY <1>1, <1>2, <1>3, <1>4, <1>5, <1>6, OwnStep

LEMMA LookupKeeps == ASSUME IInv, SInv, NEW p \in Procs, Lookup(p) PROVE SInv'
<1>1. pc[p] = "lookup" /\ UNCHANGED <<docs, events, journal, rec>>  BY DEF Lookup
<1>2. pc' \in {[pc EXCEPT ![p] = "read"], [pc EXCEPT ![p] = "release"]}  BY DEF Lookup
<1>3. pc'[p] \in {"read", "release"} /\ \A q \in Procs \ {p} : pc'[q] = pc[q]
  BY <1>2 DEF IInv, TypeOK
<1>4. DiskInv' /\ Pending' = Pending  BY <1>1, DiskStays, BarStays DEF SInv
<1>5. WorkInv(p)'  BY <1>1, <1>3, <1>4 DEF WorkInv, SInv
<1> QED  BY <1>1, <1>3, <1>4, <1>5, Alone, OwnStep

LEMMA ReadKeeps == ASSUME IInv, SInv, NEW p \in Procs, ReadDocuments(p) PROVE SInv'
<1>1. pc[p] = "read" /\ UNCHANGED <<docs, events, journal, rec>>  BY DEF ReadDocuments
<1>2. CASE pc' = [pc EXCEPT ![p] = "release"]
  BY <1>1, <1>2, EndedStep DEF IInv, TypeOK
<1>3. CASE RevisionMatches(job[p].cmd) /\ pc' = [pc EXCEPT ![p] = "plan"]
  <2>1. PICK t \in TxIds : job' = [job EXCEPT ![p] = [@ EXCEPT !.tx = t, !.seen = docs]]
    BY <1>3 DEF ReadDocuments, FreshTx
  <2>2. job[p] \in Job /\ job'[p] = [job[p] EXCEPT !.tx = t, !.seen = docs]
    BY <2>1 DEF IInv, TypeOK
  <2>3. job'[p].seen = docs /\ job'[p].cmd = job[p].cmd  BY <2>2 DEF Job
  <2>4. pc'[p] = "plan" /\ \A q \in Procs \ {p} : pc'[q] = pc[q]  BY <1>3 DEF IInv, TypeOK
  <2>5. DiskInv' /\ Pending' = Pending /\ Pending = {}
    BY <1>1, DiskStays, BarStays DEF SInv, WorkInv
  <2>6. RevisionMatches(job[p].cmd)'  BY <1>1, <1>3, <2>3 DEF RevisionMatches
  <2>7. WorkInv(p)'  BY <1>1, <2>3, <2>4, <2>5, <2>6 DEF WorkInv
  <2> QED  BY <1>1, <2>4, <2>5, <2>7, Alone, OwnStep
<1> QED  BY <1>2, <1>3 DEF ReadDocuments

LEMMA PlanKeeps == ASSUME IInv, SInv, NEW p \in Procs, Plan(p) PROVE SInv'
<1>1. pc[p] = "plan" /\ UNCHANGED <<docs, events, journal, rec>>  BY DEF Plan
<1>2. CASE pc' = [pc EXCEPT ![p] = "release"]
  BY <1>1, <1>2, EndedStep DEF IInv, TypeOK
<1>3. CASE /\ ~(job[p].cmd \in Eventful /\ events[job[p].cmd] # NoTx)
           /\ pc' = [pc EXCEPT ![p] = "prepare"]
           /\ job' = [job EXCEPT ![p].writes = PlannedWrites(p)]
  <2>1. job[p] \in Job /\ job'[p] = [job[p] EXCEPT !.writes = PlannedWrites(p)]
    BY <1>3 DEF IInv, TypeOK
  <2>2. /\ job'[p].writes = PlannedWrites(p) /\ job'[p].seen = job[p].seen
        /\ job'[p].cmd = job[p].cmd /\ job'[p].tx = job[p].tx
    BY <2>1 DEF Job
  <2>3. pc'[p] = "prepare" /\ \A q \in Procs \ {p} : pc'[q] = pc[q]  BY <1>3 DEF IInv, TypeOK
  <2>4. DiskInv' /\ Pending' = Pending  BY <1>1, DiskStays, BarStays DEF SInv
  <2>5. Pending = {} /\ job[p].seen = docs /\ RevisionMatches(job[p].cmd)
    BY <1>1 DEF SInv, WorkInv
  <2>6. RevisionMatches(job[p].cmd)'  BY <1>1, <2>2, <2>5 DEF RevisionMatches
  <2>7. PlannedWrites(p)' = PlannedWrites(p)  BY <1>1, <2>2 DEF PlannedWrites
  <2>8. WorkInv(p)'  BY <1>1, <1>3, <2>2, <2>3, <2>4, <2>5, <2>6, <2>7 DEF WorkInv
  <2> QED  BY <1>1, <2>3, <2>4, <2>8, Alone, OwnStep
<1> QED  BY <1>2, <1>3 DEF Plan

\* The journal of a command as it is planned.
LEMMA PlannedJournal ==
  ASSUME IInv, SInv, NEW p \in Procs, pc[p] = "prepare"
  PROVE  LET W == job[p].writes
             t == job[p].tx
             c == job[p].cmd IN
         /\ t \in TxIds /\ c \in Commands /\ journal[t] = NoJournal /\ Pending = {}
         /\ DOMAIN W = DOMAIN Writes[c] /\ Writes[c] \in Seq(Docs) \ {<<>>}
         /\ \A i \in DOMAIN W : /\ W[i].doc = Writes[c][i] /\ W[i].before = docs[W[i].doc]
                                /\ W[i].after = Append(docs[W[i].doc], t)
                                /\ W[i].doc \in Docs
         /\ \A i, j \in DOMAIN W : W[i].doc = W[j].doc => W[i] = W[j]
         /\ c \in Eventful => events[c] = NoTx
         /\ RevisionMatches(c)
<1> DEFINE W == job[p].writes
           t == job[p].tx
           c == job[p].cmd
<1>1. t \in TxIds /\ c \in Commands /\ journal[t].status = "none"  BY DEF IInv, JobInv
<1>2. journal[t] = NoJournal  BY <1>1 DEF IInv, TypeOK, Journal
<1>3. /\ Pending = {} /\ job[p].seen = docs /\ W = PlannedWrites(p) /\ RevisionMatches(c)
      /\ c \in Eventful => events[c] = NoTx
  BY DEF SInv, WorkInv
<1>4. Writes[c] \in Seq(Docs) \ {<<>>}  BY <1>1, CommandsAssumption
<1>5. W = [i \in DOMAIN Writes[c] |-> [doc |-> Writes[c][i], before |-> docs[Writes[c][i]],
                                       after |-> Append(docs[Writes[c][i]], t)]]
  BY <1>3 DEF PlannedWrites
<1>6. \A i \in DOMAIN Writes[c] : Writes[c][i] \in Docs  BY <1>4
<1>7. DOMAIN W = DOMAIN Writes[c]  BY <1>5
<1>8. \A i \in DOMAIN W : W[i] = [doc |-> Writes[c][i], before |-> docs[Writes[c][i]],
                                  after |-> Append(docs[Writes[c][i]], t)]
  BY <1>5
<1>9. \A i \in DOMAIN W : /\ W[i].doc = Writes[c][i] /\ W[i].before = docs[W[i].doc]
                          /\ W[i].after = Append(docs[W[i].doc], t) /\ W[i].doc \in Docs
  <2> SUFFICES ASSUME NEW i \in DOMAIN W
               PROVE  /\ W[i].doc = Writes[c][i] /\ W[i].before = docs[W[i].doc]
                      /\ W[i].after = Append(docs[W[i].doc], t) /\ W[i].doc \in Docs
    OBVIOUS
  <2>1. PICK d \in Docs : d = Writes[c][i]  BY <1>6, <1>7
  <2>2. W[i] = [doc |-> d, before |-> docs[d], after |-> Append(docs[d], t)]  BY <1>8, <2>1
  <2>3. W[i].doc = d /\ W[i].before = docs[d] /\ W[i].after = Append(docs[d], t)
    BY <2>2
  <2>4. W[i].doc = Writes[c][i] /\ W[i].before = docs[W[i].doc] /\ W[i].doc \in Docs
    BY <2>1, <2>3
  <2>5. W[i].after = Append(docs[W[i].doc], t)  BY <2>3
  <2> QED  BY <2>4, <2>5
<1>10. ASSUME NEW i \in DOMAIN W, NEW j \in DOMAIN W, W[i].doc = W[j].doc PROVE W[i] = W[j]
  <2>1. Writes[c][i] = Writes[c][j]  BY <1>9, <1>10
  <2> QED  BY <1>8, <2>1
<1> QED  BY <1>1, <1>2, <1>3, <1>4, <1>7, <1>9, <1>10

LEMMA PrepareKeeps == ASSUME IInv, SInv, NEW p \in Procs, Prepare(p) PROVE SInv'
<1>1. pc[p] = "prepare" /\ UNCHANGED <<docs, events, job, rec>>  BY DEF Prepare
<1>0. PICK t \in TxIds : t = job[p].tx  BY <1>1, PlannedJournal
<1>2. pc'[p] = "replace" /\ \A q \in Procs \ {p} : pc'[q] = pc[q]
  BY DEF Prepare, IInv, TypeOK
<1>3. /\ journal'[t].status = "prepared" /\ journal'[t].cmd = job[p].cmd
      /\ journal'[t].writes = job[p].writes /\ \A u \in TxIds \ {t} : journal'[u] = journal[u]
  BY <1>0 DEF Prepare, IInv, TypeOK
<1>4. Pending' = {t} /\ Committed' = Committed \ {t}
  <2>1. Pending = {}  BY <1>1, PlannedJournal
  <2> QED  BY <1>3, <2>1 DEF Pending, Committed
<1>5. WellPlanned(t)' /\ HalfApplied(t)'
  <2>1. \A i \in DOMAIN job[p].writes :
          docs'[job[p].writes[i].doc] = job[p].writes[i].before
    BY <1>1, PlannedJournal
  <2>2. HalfApplied(t)'  BY <1>1, <1>3, <2>1, PlannedJournal DEF HalfApplied
  <2>3. \A i, j \in DOMAIN job[p].writes :
          /\ job[p].writes[i].after = Append(job[p].writes[i].before, t)
          /\ job[p].writes[i].doc = job[p].writes[j].doc => job[p].writes[i] = job[p].writes[j]
    <3>1. \A i \in DOMAIN job[p].writes :
            /\ job[p].writes[i].before = docs[job[p].writes[i].doc]
            /\ job[p].writes[i].after = Append(docs[job[p].writes[i].doc], t)
      BY <1>0, <1>1, PlannedJournal
    <3>2. \A i, j \in DOMAIN job[p].writes :
            job[p].writes[i].doc = job[p].writes[j].doc => job[p].writes[i] = job[p].writes[j]
      BY <1>1, PlannedJournal
    <3> QED  BY <3>1, <3>2
  <2>4. WellPlanned(t)'  BY <1>3, <2>3 DEF WellPlanned
  <2> QED  BY <2>2, <2>4
<1>7. DiskInv'
  <2>1. ASSUME NEW u \in TxIds, journal'[u].status # "none" PROVE WellPlanned(u)'
    <3>1. CASE u = t  BY <1>5, <3>1 DEF WellPlanned
    <3>2. CASE u # t
      <4>1. journal'[u] = journal[u]  BY <1>3, <3>2
      <4> QED  BY <2>1, <4>1 DEF SInv, DiskInv, WellPlanned
    <3> QED  BY <3>1, <3>2
  <2>2. ASSUME NEW u \in Committed' PROVE Kept(u)'
    <3>1. u \in TxIds /\ u # t /\ u \in Committed  BY <1>4 DEF Committed
    <3>2. journal'[u] = journal[u]  BY <1>3, <3>1
    <3> QED  BY <1>1, <3>1, <3>2 DEF SInv, DiskInv, Kept, Announced
  <2>3. \A u \in Pending' : HalfApplied(u)'  BY <1>4, <1>5
  <2>4. \A u, v \in Pending' : u = v  BY <1>4
  <2> QED  BY <2>1, <2>2, <2>3, <2>4 DEF DiskInv
<1>8. WorkInv(p)'
  <2>1. job[p].idx = 1  BY <1>1 DEF IInv, JobInv
  <2> QED  BY <1>0, <1>1, <1>2, <1>4, <2>1 DEF WorkInv
<1> QED  BY <1>1, <1>2, <1>7, <1>8, Alone, OwnStep

\* A command past Prepare is at the only journal that is pending, its own.
LEMMA OwnJournal ==
  ASSUME IInv, SInv, NEW p \in Procs, pc[p] \in {"replace", "event", "commit"}
  PROVE  /\ job[p].tx \in TxIds /\ journal[job[p].tx].status # "none" /\ Pending = {job[p].tx}
         /\ journal[job[p].tx].cmd = job[p].cmd /\ journal[job[p].tx].writes = job[p].writes
BY DEF IInv, JobInv, SInv, WorkInv, DiskInv

LEMMA ReplaceKeeps ==
  ASSUME IInv, SInv, NEW p \in Procs, Replace(p)
  PROVE  SInv' /\ UNCHANGED <<storeBar, appliedBar>>
<1> DEFINE t == job[p].tx
           W == journal[t].writes
           k == job[p].idx
<1>1. pc[p] = "replace" /\ UNCHANGED <<events, journal, rec>>  BY DEF Replace
<1>2. t \in TxIds /\ journal[t].status # "none" /\ Pending = {t} /\ W = job[p].writes
  BY <1>1, OwnJournal
<1>3. W \in Seq(Write) /\ k \in 1 .. Len(W)  BY <1>1, <1>2, JournalFields DEF IInv, JobInv
<1>4. DOMAIN W = 1 .. Len(W) /\ Len(W) \in Nat /\ k \in DOMAIN W  BY <1>3
<1>5. docs' = [docs EXCEPT ![W[k].doc] = W[k].after]  BY <1>2 DEF Replace
<1>6. /\ DiskInv' /\ docs'[W[k].doc] = W[k].after /\ UNCHANGED <<storeBar, appliedBar>>
      /\ \A j \in DOMAIN W : docs[W[j].doc] = W[j].after => docs'[W[j].doc] = W[j].after
  BY <1>1, <1>2, <1>4, <1>5, Replacing DEF IInv, SInv
<1>7. \A j \in 1 .. k - 1 : docs[W[j].doc] = W[j].after  BY <1>1, <1>2 DEF SInv, WorkInv
<1>8. ASSUME NEW j \in 1 .. k PROVE docs'[W[j].doc] = W[j].after
  <2>1. j \in DOMAIN W /\ (j = k \/ j \in 1 .. k - 1)  BY <1>3, <1>4
  <2> QED  BY <1>6, <1>7, <2>1
<1>9. job'[p].idx = k + 1 /\ job'[p].tx = t /\ job'[p].writes = W
  <2>1. job[p] \in Job /\ job'[p] = [job[p] EXCEPT !.idx = k + 1]  BY DEF Replace, IInv, TypeOK
  <2> QED  BY <1>2, <2>1 DEF Job
<1>10. /\ pc'[p] = IF k < Len(W) THEN "replace" ELSE "event"
       /\ \A q \in Procs \ {p} : pc'[q] = pc[q]
  BY <1>2 DEF Replace, IInv, TypeOK
<1>11. Pending' = {t} /\ W = journal'[t].writes  BY <1>1, <1>2 DEF Pending
<1>12. CASE k < Len(W)
  <2>1. pc'[p] = "replace" /\ k + 1 - 1 = k  BY <1>3, <1>10, <1>12
  <2>3. \A i \in 1 .. job'[p].idx - 1 :
          docs'[job'[p].writes[i].doc] = job'[p].writes[i].after
    <3>1. job'[p].idx - 1 = k  BY <1>3, <1>9, <2>1
    <3>2. \A i \in 1 .. k : docs'[W[i].doc] = W[i].after  BY <1>8
    <3> QED  BY <1>9, <3>1, <3>2
  <2>2. WorkInv(p)'  BY <1>9, <1>11, <2>1, <2>3 DEF WorkInv
  <2> QED  BY <1>1, <1>6, <1>10, <2>2, Alone, OwnStep
<1>13. CASE ~(k < Len(W))
  <2>1. pc'[p] = "event" /\ k = Len(W)  BY <1>3, <1>4, <1>10, <1>13
  <2>2. Applied(job[p].tx)'  BY <1>4, <1>8, <1>9, <1>11, <2>1 DEF Applied
  <2>3. WorkInv(p)'  BY <1>9, <1>11, <2>1, <2>2 DEF WorkInv
  <2> QED  BY <1>1, <1>6, <1>10, <2>3, Alone, OwnStep
<1> QED  BY <1>12, <1>13, <1>6

LEMMA WriteEventKeeps == ASSUME IInv, SInv, NEW p \in Procs, WriteEvent(p) PROVE SInv'
<1> DEFINE t == job[p].tx
<1>1. pc[p] = "event" /\ UNCHANGED <<docs, journal, job, rec>>  BY DEF WriteEvent
<1>2. /\ t \in TxIds /\ journal[t].status # "none" /\ Pending = {t}
      /\ journal[t].cmd = job[p].cmd
  BY <1>1, OwnJournal
<1>3. events' = IF journal[t].cmd \in Eventful THEN [events EXCEPT ![journal[t].cmd] = t]
                ELSE events
  BY <1>2 DEF WriteEvent
<1>4. DiskInv' /\ Announced(t)'  BY <1>1, <1>2, <1>3, Announcing DEF IInv, SInv
<1>5. Applied(t)' /\ Pending' = {t}  BY <1>1, <1>2, BarStays DEF SInv, WorkInv, Applied
<1>6. pc'[p] = "commit" /\ \A q \in Procs \ {p} : pc'[q] = pc[q]
  BY DEF WriteEvent, IInv, TypeOK
<1>7. WorkInv(p)'  BY <1>1, <1>4, <1>5, <1>6 DEF WorkInv
<1> QED  BY <1>1, <1>4, <1>6, <1>7, Alone, OwnStep

LEMMA CommitKeeps ==
  ASSUME IInv, SInv, NEW p \in Procs, Commit(p)
  PROVE  SInv' /\ UNCHANGED <<storeBar, appliedBar>>
<1> DEFINE t == job[p].tx
           x == [status |-> "committed", cmd |-> job[p].cmd, writes |-> job[p].writes]
<1>1. pc[p] = "commit" /\ UNCHANGED <<docs, events, job, rec>>  BY DEF Commit
<1>2. /\ t \in TxIds /\ journal[t].status # "none" /\ Pending = {t}
      /\ journal[t].cmd = job[p].cmd /\ journal[t].writes = job[p].writes
  BY <1>1, OwnJournal
<1>3. journal' = [journal EXCEPT ![t] = x]  BY DEF Commit
<1>4. x.status = "committed" /\ x.cmd = journal[t].cmd /\ x.writes = journal[t].writes
  BY <1>2
<1> HIDE DEF x
<1>5. Applied(t) /\ Announced(t)  BY <1>1 DEF SInv, WorkInv
<1>6. DiskInv' /\ UNCHANGED <<storeBar, appliedBar>>
  BY <1>1, <1>2, <1>3, <1>4, <1>5, Marking DEF IInv, SInv
<1>7. pc'[p] = "store" /\ \A q \in Procs \ {p} : pc'[q] = pc[q]
  BY DEF Commit, IInv, TypeOK
<1>8. WorkInv(p)'  BY <1>7 DEF WorkInv
<1> QED  BY <1>1, <1>6, <1>7, <1>8, Alone, OwnStep

LEMMA EndsKeep ==
  ASSUME IInv, SInv, NEW p \in Procs, Store(p) \/ Release(p) \/ IOError(p) \/ Crash(p)
  PROVE  SInv'
<1>1. pc[p] # "idle" /\ UNCHANGED <<docs, events, journal, rec>>
  BY DEF Store, Release, IOError, Crash
<1>2. pc' \in {[pc EXCEPT ![p] = "release"], [pc EXCEPT ![p] = "idle"]}
  BY DEF Store, Release, IOError, Crash
<1>3. pc'[p] \in {"idle", "release"} /\ \A q \in Procs \ {p} : pc'[q] = pc[q]
  BY <1>2 DEF IInv, TypeOK
<1> QED  BY <1>1, <1>3, EndedStep

-----------------------------------------------------------------------------
(* The steps of recover *)

LEMMA RecoveredJournal ==
  ASSUME IInv, SInv, NEW r \in Recoverers, rec[r].pc \in {"write", "event", "mark"}
  PROVE  /\ rec[r].tx \in TxIds /\ journal[rec[r].tx].status # "none"
         /\ Pending \subseteq {rec[r].tx}
         /\ rec[r].tx \in Pending \/ (Applied(rec[r].tx) /\ Announced(rec[r].tx))
BY DEF IInv, RecInv, SInv, CallInv

LEMMA RecoverStartKeeps ==
  ASSUME IInv, SInv, Patient, NEW r \in Recoverers, RecoverStart(r)
  PROVE  SInv'
<1>1. UNCHANGED <<docs, events, journal, pc, job>>  BY DEF RecoverStart
<1>2. \A p \in Procs : pc[p] = "idle"  BY DEF RecoverStart, Patient, Executing
<1>3. rec'[r].pc = "scan" /\ \A s \in Recoverers \ {r} : rec'[s] = rec[s]
  BY DEF RecoverStart, IInv, TypeOK
<1>4. DiskInv' /\ Pending' = Pending  BY <1>1, DiskStays, BarStays DEF SInv
<1>5. \A p \in Procs : WorkInv(p)'  BY <1>1, <1>2 DEF WorkInv
<1>6. CallInv(r)'  BY <1>1, <1>2, <1>3 DEF CallInv
<1>7. \A s \in Recoverers \ {r} : CallInv(s)'
  BY <1>1, <1>3, <1>4, CallStays, SteadyWhenStill DEF SInv
<1> QED  BY <1>4, <1>5, <1>6, <1>7 DEF SInv

\* A recover that gives up or is through.
LEMMA RecoverEnds ==
  ASSUME IInv, SInv, NEW r \in Recoverers, rec[r].pc # "idle", rec' = [rec EXCEPT ![r] = IdleRec],
         UNCHANGED <<docs, events, journal, pc>>
  PROVE  SInv'
<1>1. rec'[r].pc = "idle" /\ \A s \in Recoverers \ {r} : rec'[s] = rec[s]
  BY DEF IInv, TypeOK, IdleRec
<1>2. DiskInv' /\ Pending' = Pending  BY DiskStays, BarStays DEF SInv
<1>3. CallInv(r)'  BY <1>1 DEF CallInv
<1> QED  BY <1>1, <1>2, <1>3, SteadyWhenStill, CallStep

LEMMA RecoverScanKeeps ==
  ASSUME IInv, SInv, NEW r \in Recoverers, RecoverScan(r)
  PROVE  SInv'
<1>1. rec[r].pc = "scan" /\ UNCHANGED <<docs, events, journal, pc>>  BY DEF RecoverScan
<1>2. CASE rec' = [rec EXCEPT ![r] = IdleRec]  BY <1>1, <1>2, RecoverEnds
<1>3. ASSUME NEW t \in rec[r].todo,
             rec' = [rec EXCEPT ![r] =
               [pc |-> IF journal[t].status = "prepared" THEN "write" ELSE "scan",
                tx |-> t, idx |-> 1, todo |-> @.todo \ {t}]]
      PROVE  SInv'
  <2>1. t \in TxIds
    <3>1. rec[r] \in RecState  BY DEF IInv, TypeOK
    <3> QED  BY <3>1 DEF RecState
  <2>2. /\ rec'[r].pc = IF journal[t].status = "prepared" THEN "write" ELSE "scan"
        /\ rec'[r].tx = t /\ rec'[r].idx = 1
        /\ \A s \in Recoverers \ {r} : rec'[s] = rec[s]
    BY <1>3 DEF IInv, TypeOK
  <2>3. DiskInv' /\ Pending' = Pending  BY <1>1, DiskStays, BarStays DEF SInv
  <2>4. \A p \in Procs : pc'[p] = "idle"  BY <1>1 DEF SInv, CallInv
  <2>5. CallInv(r)'
    <3>1. CASE journal[t].status = "prepared"
      <4>1. t \in Pending /\ Pending = {t}  BY <2>1, <3>1 DEF Pending, SInv, DiskInv
      <4> QED  BY <2>2, <2>3, <2>4, <3>1, <4>1 DEF CallInv
    <3>2. CASE journal[t].status # "prepared"  BY <2>2, <2>4, <3>2 DEF CallInv
    <3> QED  BY <3>1, <3>2
  <2> QED  BY <1>1, <2>2, <2>3, <2>5, SteadyWhenStill, CallStep
<1> QED  BY <1>2, <1>3 DEF RecoverScan

LEMMA RecoverWriteKeeps ==
  ASSUME IInv, SInv, NEW r \in Recoverers, RecoverWrite(r)
  PROVE  SInv' /\ UNCHANGED <<storeBar, appliedBar>>
<1>1. rec[r].pc = "write" /\ UNCHANGED <<events, journal, pc, job>>  BY DEF RecoverWrite
<1>2. PICK t \in TxIds : /\ t = rec[r].tx /\ journal[t].status # "none" /\ Pending \subseteq {t}
                         /\ t \in Pending \/ (Applied(t) /\ Announced(t))
  BY <1>1, RecoveredJournal
<1>3. PICK W \in Seq(Write), k \in Nat :
        /\ W = journal[t].writes /\ k = rec[r].idx /\ k \in 1 .. Len(W)
        /\ \A i \in DOMAIN W : W[i] \in Write /\ W[i].doc \in Docs
  <2>1. journal[t].writes \in Seq(Write)  BY <1>2, JournalFields DEF IInv
  <2>2. rec[r].idx \in 1 .. Len(journal[t].writes)  BY <1>1, <1>2 DEF IInv, RecInv
  <2> QED  BY <1>2, <2>1, <2>2, JournalFields DEF IInv
<1>4. DOMAIN W = 1 .. Len(W) /\ Len(W) \in Nat /\ k \in DOMAIN W  BY <1>3
<1>5. CASE rec' = [rec EXCEPT ![r] = IdleRec] /\ UNCHANGED docs
  BY <1>1, <1>5, RecoverEnds, BarStays
<1>6. CASE /\ docs' = [docs EXCEPT ![W[k].doc] = W[k].after]
           /\ rec' = [rec EXCEPT ![r] = [@ EXCEPT
                !.idx = k + 1, !.pc = IF k < Len(W) THEN "write" ELSE "event"]]
  <2>1. /\ DiskInv' /\ docs'[W[k].doc] = W[k].after /\ UNCHANGED <<storeBar, appliedBar>>
        /\ \A j \in DOMAIN W : docs[W[j].doc] = W[j].after => docs'[W[j].doc] = W[j].after
    <3>1. docs' = [docs EXCEPT ![journal[t].writes[k].doc] = journal[t].writes[k].after]
      BY <1>3, <1>6
    <3>2. k \in DOMAIN journal[t].writes /\ TypeOK /\ DiskInv  BY <1>3, <1>4 DEF IInv, SInv
    <3>3. /\ DiskInv' /\ docs'[journal[t].writes[k].doc] = journal[t].writes[k].after
          /\ UNCHANGED <<storeBar, appliedBar>>
          /\ \A j \in DOMAIN journal[t].writes :
               docs[journal[t].writes[j].doc] = journal[t].writes[j].after
                 => docs'[journal[t].writes[j].doc] = journal[t].writes[j].after
      BY <1>1, <1>2, <3>1, <3>2, Replacing
    <3> QED  BY <1>3, <3>3
  <2>2. /\ rec'[r].idx = k + 1 /\ rec'[r].tx = t
        /\ rec'[r].pc = IF k < Len(W) THEN "write" ELSE "event"
        /\ \A s \in Recoverers \ {r} : rec'[s] = rec[s]
    <3>1. PICK next : next = IF k < Len(W) THEN "write" ELSE "event"  OBVIOUS
    <3>2. rec[r] \in RecState /\ rec'[r] = [rec[r] EXCEPT !.idx = k + 1, !.pc = next]
      BY <1>6, <3>1 DEF IInv, TypeOK
    <3>3. rec'[r].idx = k + 1 /\ rec'[r].tx = rec[r].tx /\ rec'[r].pc = next
      BY <3>2 DEF RecState
    <3> QED  BY <1>2, <1>6, <3>1, <3>3 DEF IInv, TypeOK
  <2>3. Pending' = Pending  BY <1>1 DEF Pending
  <2>4. t \notin Pending => docs' = docs
    <3>1. ASSUME t \notin Pending PROVE docs[W[k].doc] = W[k].after
      BY <1>2, <1>3, <1>4, <3>1 DEF Applied
    <3> QED  BY <1>3, <1>4, <1>6, <3>1 DEF IInv, TypeOK
  <2>5. ASSUME t \in Pending PROVE Steady(t)
    BY <1>1, <1>3, <2>1, <2>3, <2>5 DEF Steady, Announced
  <2>6. ASSUME NEW s \in Recoverers, rec[s].pc \in {"write", "event", "mark"}
        PROVE  Steady(rec[s].tx)
    <3>1. CASE t \in Pending
      <4>1. rec[s].tx = t  BY <2>6, <3>1, RecoveredJournal
      <4> QED  BY <2>5, <3>1, <4>1
    <3>2. CASE t \notin Pending  BY <1>1, <2>4, <3>2, SteadyWhenStill
    <3> QED  BY <3>1, <3>2
  <2>7. ASSUME NEW j \in 1 .. k PROVE docs'[W[j].doc] = W[j].after
    <3>1. j \in DOMAIN W /\ (j = k \/ j \in 1 .. k - 1)  BY <1>3, <1>4
    <3>2. j \in 1 .. k - 1 => docs[W[j].doc] = W[j].after
      BY <1>1, <1>2, <1>3 DEF SInv, CallInv
    <3> QED  BY <2>1, <3>1, <3>2
  <2>8. k < Len(W) \/ Applied(t)'
    <3>1. CASE k = Len(W)  BY <1>1, <1>3, <1>4, <2>7, <3>1 DEF Applied
    <3> QED  BY <1>3, <1>4, <3>1
  <2>9. t \in Pending' \/ (Applied(t)' /\ Announced(t)')
    BY <1>1, <1>2, <2>3, <2>4 DEF Applied, Announced
  <2>10. CallInv(r)'
    <3>1. \A p \in Procs : pc'[p] = "idle"  BY <1>1 DEF SInv, CallInv
    <3>2. k + 1 - 1 = k  BY <1>3
    <3>3. \A j \in 1 .. rec'[r].idx - 1 :
            docs'[journal'[t].writes[j].doc] = journal'[t].writes[j].after
      <4>1. rec'[r].idx - 1 = k /\ journal'[t].writes = W  BY <1>1, <1>3, <2>2, <3>2
      <4> QED  BY <2>7, <4>1
    <3> QED  BY <1>2, <2>2, <2>3, <2>8, <2>9, <3>1, <3>3 DEF CallInv
  <2>11. SInv'  BY <1>1, <2>1, <2>2, <2>3, <2>6, <2>10, CallStep
  <2> QED  BY <2>1, <2>11
<1> QED  BY <1>2, <1>3, <1>5, <1>6 DEF RecoverWrite

LEMMA RecoverEventKeeps ==
  ASSUME IInv, SInv, NEW r \in Recoverers, RecoverEvent(r)
  PROVE  SInv'
<1>1. rec[r].pc = "event" /\ UNCHANGED <<docs, journal, pc, job>>  BY DEF RecoverEvent
<1>2. PICK t \in TxIds : /\ t = rec[r].tx /\ journal[t].status # "none" /\ Pending \subseteq {t}
                         /\ t \in Pending \/ (Applied(t) /\ Announced(t))
  BY <1>1, RecoveredJournal
<1>3. CASE rec' = [rec EXCEPT ![r] = IdleRec] /\ UNCHANGED events
  BY <1>1, <1>3, RecoverEnds
<1>4. CASE /\ events' = IF journal[t].cmd \in Eventful THEN [events EXCEPT ![journal[t].cmd] = t]
                        ELSE events
           /\ rec' = [rec EXCEPT ![r].pc = "mark"]
  <2>1. DiskInv' /\ Announced(t)'  BY <1>1, <1>2, <1>4, Announcing DEF IInv, SInv
  <2>2. Applied(t)' /\ Pending' = Pending
    BY <1>1, <1>2, BarStays DEF SInv, CallInv, Applied
  <2>3. rec'[r].pc = "mark" /\ rec'[r].tx = t /\ \A s \in Recoverers \ {r} : rec'[s] = rec[s]
    <3>1. rec[r] \in RecState /\ rec'[r] = [rec[r] EXCEPT !.pc = "mark"]
      BY <1>4 DEF IInv, TypeOK
    <3> QED  BY <1>2, <1>4, <3>1 DEF RecState, IInv, TypeOK
  <2>4. t \notin Pending => events' = events
    <3>1. journal[t].cmd \in Commands  BY <1>2, JournalFields DEF IInv
    <3>2. t \notin Pending /\ journal[t].cmd \in Eventful => events[journal[t].cmd] = t
      BY <1>2 DEF Announced
    <3> QED  BY <1>4, <3>1, <3>2 DEF IInv, TypeOK
  <2>5. ASSUME NEW s \in Recoverers, rec[s].pc \in {"write", "event", "mark"}
        PROVE  Steady(rec[s].tx)
    <3>1. CASE t \in Pending
      <4>1. rec[s].tx = t  BY <2>5, <3>1, RecoveredJournal
      <4>2. Steady(t)  BY <1>1, <2>1, <2>2 DEF Steady
      <4> QED  BY <4>1, <4>2
    <3>2. CASE t \notin Pending  BY <1>1, <2>4, <3>2, SteadyWhenStill
    <3> QED  BY <3>1, <3>2
  <2>6. CallInv(r)'
    <3>1. \A p \in Procs : pc'[p] = "idle"  BY <1>1 DEF SInv, CallInv
    <3> QED  BY <1>2, <2>1, <2>2, <2>3, <3>1 DEF CallInv
  <2> QED  BY <1>1, <2>1, <2>2, <2>3, <2>5, <2>6, CallStep
<1> QED  BY <1>2, <1>3, <1>4 DEF RecoverEvent

LEMMA RecoverMarkKeeps ==
  ASSUME IInv, SInv, NEW r \in Recoverers, RecoverMark(r)
  PROVE  SInv' /\ UNCHANGED <<storeBar, appliedBar>>
<1>1. rec[r].pc = "mark" /\ UNCHANGED <<docs, events, pc, job>>  BY DEF RecoverMark
<1>2. PICK t \in TxIds : t = rec[r].tx /\ journal[t].status # "none" /\ Pending \subseteq {t}
  BY <1>1, RecoveredJournal
<1>3. Applied(t) /\ Announced(t)  BY <1>1, <1>2 DEF SInv, CallInv
<1>4. PICK x : x = [journal[t] EXCEPT !.status = "committed"]  OBVIOUS
<1>5. x.status = "committed" /\ x.cmd = journal[t].cmd /\ x.writes = journal[t].writes
  <2>1. journal[t] \in Journal  BY <1>2 DEF IInv, TypeOK, NoJournal
  <2> QED  BY <1>4, <2>1 DEF Journal
<1>6. journal' = [journal EXCEPT ![t] = x]  BY <1>2, <1>4 DEF RecoverMark
<1>7. /\ DiskInv' /\ Pending' = {} /\ Applied(t)' /\ Announced(t)'
      /\ UNCHANGED <<storeBar, appliedBar>>
  BY <1>1, <1>2, <1>3, <1>5, <1>6, Marking DEF IInv, SInv
<1>8. rec'[r].pc = "scan" /\ \A s \in Recoverers \ {r} : rec'[s] = rec[s]
  BY DEF RecoverMark, IInv, TypeOK, RecState
<1>9. ASSUME NEW s \in Recoverers, rec[s].pc \in {"write", "event", "mark"}
      PROVE  Steady(rec[s].tx)
  <2>1. PICK u \in TxIds : u = rec[s].tx  BY <1>9, RecoveredJournal
  <2>2. journal'[u].writes = journal[u].writes /\ journal'[u].cmd = journal[u].cmd
    BY <1>5, <1>6 DEF IInv, TypeOK
  <2>3. u \in Pending => u = t  BY <1>2
  <2>4. Steady(u)  BY <1>1, <1>7, <2>2, <2>3 DEF Steady, Announced, Applied
  <2> QED  BY <2>1, <2>4
<1>10. CallInv(r)'
  <2>1. \A p \in Procs : pc'[p] = "idle"  BY <1>1 DEF SInv, CallInv
  <2> QED  BY <1>8, <2>1 DEF CallInv
<1>11. SInv'  BY <1>1, <1>7, <1>8, <1>9, <1>10, CallStep
<1> QED  BY <1>7, <1>11

-----------------------------------------------------------------------------
(* The invariant of patient callers, what it shows of the disk, and the refinement *)

LEMMA InitSInv == Init => SInv
<1> SUFFICES ASSUME Init PROVE SInv  OBVIOUS
<1>1. Pending = {} /\ Committed = {}  BY DEF Init, NoJournal, Pending, Committed
<1>2. DiskInv  BY <1>1 DEF DiskInv, Init, NoJournal
<1>3. \A p \in Procs : WorkInv(p)  BY <1>1 DEF WorkInv, Init
<1>4. \A r \in Recoverers : CallInv(r)  BY <1>1 DEF CallInv, Init, IdleRec
<1> QED  BY <1>2, <1>3, <1>4 DEF SInv

LEMMA OutsideKeeps ==
  ASSUME SInv, (\E p \in Procs : LockWriteError(p)) \/ RemoveOrphanLock \/ UNCHANGED vars
  PROVE  SInv'
BY StillStep DEF LockWriteError, RemoveOrphanLock, vars

LEMMA RecoverCrashKeeps ==
  ASSUME IInv, SInv, NEW r \in Recoverers, RecoverCrash(r)
  PROVE  SInv'
BY RecoverEnds DEF RecoverCrash

LEMMA SInvStep == IInv /\ SInv /\ Patient /\ [Next]_vars => SInv'
<1> SUFFICES ASSUME IInv, SInv, Patient, [Next]_vars PROVE SInv'  OBVIOUS
<1>1. ASSUME NEW p \in Procs, Execute(p) PROVE SInv'
  BY <1>1, LookupKeeps, ReadKeeps, PlanKeeps, PrepareKeeps, ReplaceKeeps, WriteEventKeeps,
     CommitKeeps, EndsKeep DEF Execute
<1>2. ASSUME NEW r \in Recoverers, Recover(r) PROVE SInv'
  BY <1>2, RecoverScanKeeps, RecoverWriteKeeps, RecoverEventKeeps, RecoverMarkKeeps DEF Recover
<1> QED
  BY <1>1, <1>2, AcquireKeeps, EndsKeep, RecoverStartKeeps, RecoverCrashKeeps, OutsideKeeps
  DEF Next

LEMMA PatientInvariance == Patient => (Spec => [](IInv /\ SInv))
<1> SUFFICES ASSUME Patient PROVE Spec => [](IInv /\ SInv)  OBVIOUS
<1>1. Init => SInv  BY InitSInv
<1>2. IInv /\ SInv /\ [Next]_vars => SInv'  BY SInvStep
<1> QED  BY <1>1, <1>2, Invariance, PTL DEF Spec

\* TX-001: while commands wait for journals and recover for commands, the effect of a
\* committed transaction stays in every document it planned, and its event on disk,
\* through every crash, every recovery and every later command.
THEOREM CommittedIsDurable == Patient => (Spec => []CommittedDurable)
<1> SUFFICES ASSUME Patient PROVE Spec => []CommittedDurable  OBVIOUS
<1>1. SInv => CommittedDurable
  <2> SUFFICES ASSUME SInv, NEW t \in Committed
               PROVE  /\ \A d \in Planned(t) : t \in Holds(d)
                      /\ journal[t].cmd \in Eventful => events[journal[t].cmd] = t
    BY DEF CommittedDurable
  <2>1. Kept(t)  BY DEF SInv, DiskInv
  <2>2. \A d \in Planned(t) : \E i \in DOMAIN journal[t].writes : d = journal[t].writes[i].doc
    BY DEF Planned, Range
  <2> QED  BY <2>1, <2>2 DEF Kept, Announced, Holds
<1> QED  BY <1>1, PatientInvariance, PTL

\* The preparation of a journal is where its command takes effect, at once.
LEMMA PrepareApplies ==
  ASSUME IInv, SInv, NEW p \in Procs, Prepare(p)
  PROVE  Atomic!Apply(job[p].tx, job[p].cmd)
<1>1. pc[p] = "prepare" /\ UNCHANGED docs  BY DEF Prepare
<1>2. PICK t \in TxIds, c \in Commands : t = job[p].tx /\ c = job[p].cmd
  BY <1>1, PlannedJournal
<1>0. PICK W : W = job[p].writes  OBVIOUS
<1>3. /\ journal[t] = NoJournal /\ Pending = {} /\ RevisionMatches(c)
      /\ DOMAIN W = DOMAIN Writes[c] /\ Writes[c] \in Seq(Docs) \ {<<>>}
      /\ \A i \in DOMAIN W : W[i].doc = Writes[c][i] /\ W[i].after = Append(docs[W[i].doc], t)
  BY <1>0, <1>1, <1>2, PlannedJournal
<1>4. storeBar = docs /\ docs \in [Docs -> Seq(TxIds)]
  BY <1>3, BarWithoutPending DEF IInv, TypeOK
<1>5. journal'[t].status = "prepared" /\ journal'[t].cmd = c /\ journal'[t].writes = W
  BY <1>0, <1>2 DEF Prepare, IInv, TypeOK
<1>6. \A u \in TxIds \ {t} : journal'[u] = journal[u]  BY <1>2 DEF Prepare, IInv, TypeOK
<1>7. appliedBar[t] = NoCmd  BY <1>3 DEF appliedBar, NoJournal
<1>8. appliedBar' = [appliedBar EXCEPT ![t] = c]  BY <1>5, <1>6 DEF appliedBar
<1>9. Expect[c] \in {AnyRevision, Len(storeBar[Head(Writes[c])])}
  BY <1>3, <1>4 DEF RevisionMatches
<1>10. t \in Pending' /\ TypeOK' /\ DiskInv'
  <2>1. TypeOK'  BY TypeStep DEF Next, Execute
  <2>2. DiskInv'  BY PrepareKeeps DEF SInv
  <2> QED  BY <1>5, <2>1, <2>2 DEF Pending
<1>11. Pending' = {t}
  <2>1. \A u \in TxIds \ {t} : journal'[u].status # "prepared"  BY <1>3, <1>6 DEF Pending
  <2> QED  BY <1>5, <2>1 DEF Pending
<1>12. ASSUME NEW d \in Docs
       PROVE  storeBar'[d] = IF d \in Range(Writes[c]) THEN Append(storeBar[d], t) ELSE storeBar[d]
  <2>1. PendingAfter(d)' = {w.after : w \in {x \in Range(W) : x.doc = d}}
    BY <1>5, <1>11 DEF PendingAfter
  <2>2. PendingAfter(d)' = {W[i].after : i \in {j \in DOMAIN W : W[j].doc = d}}
    BY <2>1 DEF Range
  <2>3. storeBar'[d] = IF PendingAfter(d)' = {} THEN docs'[d]
                       ELSE CHOOSE h \in PendingAfter(d)' : TRUE
    BY DEF storeBar
  <2>4. CASE d \in Range(Writes[c])
    <3>1. PICK i \in DOMAIN W : W[i].doc = d  BY <1>3, <2>4 DEF Range
    <3>2. \A j \in DOMAIN W : W[j].doc = d => W[j].after = Append(docs[d], t)  BY <1>3
    <3>3. PendingAfter(d)' = {Append(docs[d], t)}  BY <2>2, <3>1, <3>2
    <3> QED  BY <1>4, <2>3, <2>4, <3>3
  <2>5. CASE d \notin Range(Writes[c])
    <3>1. \A i \in DOMAIN W : W[i].doc # d  BY <1>3, <2>5 DEF Range
    <3> QED  BY <1>1, <1>4, <2>2, <2>3, <2>5, <3>1
  <2> QED  BY <2>4, <2>5
<1>13. storeBar' = [d \in Docs |-> IF d \in Range(Writes[c]) THEN Append(storeBar[d], t)
                                   ELSE storeBar[d]]
  BY <1>12 DEF storeBar
<1>14. Atomic!Apply(t, c)  BY <1>7, <1>8, <1>9, <1>13 DEF Atomic!Apply, Atomic!Range, Range
<1> QED  BY <1>2, <1>14

\* No other step shows in the abstract store.
LEMMA OthersStutter ==
  ASSUME IInv, SInv, [Next]_vars, ~\E p \in Procs : Prepare(p)
  PROVE  UNCHANGED <<storeBar, appliedBar>>
<1>1. ASSUME UNCHANGED <<docs, journal>> PROVE UNCHANGED <<storeBar, appliedBar>>
  BY <1>1, BarStays
<1>2. ASSUME NEW p \in Procs, Execute(p) PROVE UNCHANGED <<storeBar, appliedBar>>
  BY <1>1, <1>2, ReplaceKeeps, CommitKeeps
  DEF Execute, Lookup, ReadDocuments, Plan, WriteEvent, Store, Release
<1>3. ASSUME NEW r \in Recoverers, Recover(r) PROVE UNCHANGED <<storeBar, appliedBar>>
  BY <1>1, <1>3, RecoverWriteKeeps, RecoverMarkKeeps DEF Recover, RecoverScan, RecoverEvent
<1> QED
  BY <1>1, <1>2, <1>3
  DEF Next, vars, Acquire, IOError, LockWriteError, Crash, RecoverStart, RecoverCrash,
      RemoveOrphanLock

\* TX-002: under the same hypothesis a command takes effect on all its documents at
\* once, on the revision it expected, or not at all, as far as anyone can tell for whom
\* a pending journal counts as done.
THEOREM JournalIsAtomic == Patient => (Spec => ImplementsAtomicStore)
<1> SUFFICES ASSUME Patient PROVE Spec => ImplementsAtomicStore  OBVIOUS
<1>1. Init => Atomic!Init
  <2> SUFFICES ASSUME Init PROVE Atomic!Init  OBVIOUS
  <2>1. Pending = {}  BY DEF Init, NoJournal, Pending
  <2>2. storeBar = docs  BY <2>1, BarWithoutPending, InitIInv DEF IInv
  <2>3. appliedBar = [t \in TxIds |-> NoCmd]  BY DEF Init, NoJournal, appliedBar
  <2> QED  BY <2>2, <2>3 DEF Init, Atomic!Init
<1>2. IInv /\ SInv /\ [Next]_vars => [Atomic!Next]_<<storeBar, appliedBar>>
  <2> SUFFICES ASSUME IInv, SInv, [Next]_vars PROVE [Atomic!Next]_<<storeBar, appliedBar>>
    OBVIOUS
  <2>1. ASSUME NEW p \in Procs, Prepare(p) PROVE Atomic!Next
    <3>1. job[p].tx \in TxIds /\ job[p].cmd \in Commands
      BY <2>1, PlannedJournal DEF Prepare
    <3> QED  BY <2>1, <3>1, PrepareApplies DEF Atomic!Next
  <2> QED  BY <2>1, OthersStutter
<1> QED  BY <1>1, <1>2, PatientInvariance, PTL DEF Spec, ImplementsAtomicStore, Atomic!Spec
=============================================================================
