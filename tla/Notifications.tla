--------------------------- MODULE Notifications ---------------------------
(***************************************************************************)
(* notifications/service.py: the mails that tell people of a decision, an  *)
(* escalation, a work unit to test or the end of a Run.                    *)
(*                                                                         *)
(* Every worker of an orchestrator calls dispatch_notifications after each *)
(* tick, the daemon and the command line do too.  A call takes a lock      *)
(* file, queues a record for every version of a document that asks for     *)
(* somebody, then sends what is queued: one mail for each immediate        *)
(* notification and, in the calls that end a Run, one for all digests.     *)
(*                                                                         *)
(* A notification is <<document, version>>, which its dedupe key names.    *)
(* Abstracted: subjects and bodies; recipients, of which every group has   *)
(* some; the backoff, which is a flag that time resets.                    *)
(***************************************************************************)
EXTENDS Naturals, FiniteSets

CONSTANTS
  Documents,     \* decisions, events, work units, Runs that may ask for somebody
  Dispatchers,   \* callers of dispatch_notifications
  Settings,      \* what a profile may say of the delivery of each
  MaxVersion,    \* bound: revisions of a document
  MaxMails,      \* MAX_ATTEMPTS
  MaxMishaps,    \* bound: processes that die, writes that fail
  Nobody, Gone   \* no lock file; one whose creator has died

ASSUME NotificationsAssumption ==
  /\ Settings \subseteq [Documents -> {"off", "immediate", "digest"}]
  /\ MaxVersion \in Nat /\ MaxMails \in Nat \ {0} /\ MaxMishaps \in Nat
  /\ Nobody \notin Dispatchers /\ Gone \notin Dispatchers \cup {Nobody}

Notes == Documents \X (1 .. MaxVersion)

VARIABLES
  document,     \* document[s]: whether it asks for somebody, and its version
  delivery,     \* delivery[s]: what the profile says of its event type
  password,     \* the SMTP password is there (and the transport enabled)
  note,         \* note[n]: the record of n in .ai-team/notifications
  mailLock,     \* whose notifications.lock is
  dispatcher,   \* dispatcher[d]: where a call of dispatch_notifications is
  told,         \* told[n]: mails about n that reached their reader, less those whose
                \* record a crash, a failed write or a lost answer has prevented
  mishaps

projectVars == <<document, delivery, password>>
notifyVars  == <<projectVars, note, mailLock, dispatcher, told, mishaps>>

NoNote == [status |-> "none", delivery |-> "immediate", attempts |-> 0, early |-> FALSE]
Quiet  == [pc |-> "idle", digest |-> FALSE, password |-> FALSE, batch |-> {}, group |-> {}]

(* Type invariant. *)
NotificationsTypeOK ==
  /\ document \in [Documents -> [asks : BOOLEAN, version : 0 .. MaxVersion]]
  /\ delivery \in [Documents -> {"off", "immediate", "digest"}]
  /\ \A n \in Notes : /\ note[n].status \in {"none", "pending", "failed", "sent"}
                      /\ note[n].attempts \in 0 .. MaxMails
  /\ mailLock \in Dispatchers \cup {Nobody, Gone}
  /\ \A d \in Dispatchers : dispatcher[d].batch \cup dispatcher[d].group \subseteq Notes

-----------------------------------------------------------------------------
(* The project: commands write the documents, a person the profile. *)

(* A decision is requested, a Run ends, a work unit comes to its human     *)
(* test; or a document that asks already gets another revision.            *)
Ask(s) ==
  /\ document[s].version < MaxVersion
  /\ document' = [document EXCEPT ![s] = [asks |-> TRUE, version |-> @.version + 1]]
  /\ UNCHANGED <<delivery, password, note, mailLock, dispatcher, told, mishaps>>

Settle(s) ==
  /\ document[s].asks
  /\ document' = [document EXCEPT ![s].asks = FALSE]
  /\ UNCHANGED <<delivery, password, note, mailLock, dispatcher, told, mishaps>>

ConfigureSecret ==
  /\ ~password /\ password' = TRUE
  /\ UNCHANGED <<document, delivery, note, mailLock, dispatcher, told, mishaps>>

-----------------------------------------------------------------------------
(* A call of dispatch_notifications *)

At(d, pc) == dispatcher[d].pc = pc
Move(d, pc) == dispatcher' = [dispatcher EXCEPT ![d].pc = pc]

(* The settings are read before the lock is asked for. *)
Dispatch(d) ==
  /\ At(d, "idle")
  /\ dispatcher' = [dispatcher EXCEPT ![d] = [Quiet EXCEPT !.pc = "lock", !.password = password]]
  /\ UNCHANGED <<projectVars, note, mailLock, told, mishaps>>

(* Mutant: the file is opened whether it exists or not. *)
TakeAnyLock(d) ==
  /\ At(d, "lock")
  /\ mailLock' = d /\ Move(d, "scan")
  /\ UNCHANGED <<projectVars, note, told, mishaps>>

TakeLock(d) ==
  /\ At(d, "lock") /\ mailLock = Nobody
  /\ mailLock' = d /\ Move(d, "scan")
  /\ UNCHANGED <<projectVars, note, told, mishaps>>

(* Two seconds with the lock held by another: "dispatcher already active". *)
TimeOut(d) ==
  /\ At(d, "lock") /\ mailLock # Nobody
  /\ dispatcher' = [dispatcher EXCEPT ![d] = Quiet]
  /\ UNCHANGED <<projectVars, note, mailLock, told, mishaps>>

ScanCandidates(d) ==
  /\ At(d, "scan")
  /\ dispatcher' = [dispatcher EXCEPT ![d].pc = "enqueue",
       ![d].batch = {<<s, document[s].version>> :
          s \in {x \in Documents : document[x].asks /\ delivery[x] # "off"}}]
  /\ UNCHANGED <<projectVars, note, mailLock, told, mishaps>>

First(ns) == CHOOSE n \in ns : TRUE

(* A record that exists, whatever its status, is the same notification. *)
Enqueue1(d) ==
  /\ At(d, "enqueue") /\ dispatcher[d].batch # {}
  /\ LET n == First(dispatcher[d].batch) IN
       /\ note' = IF note[n].status # "none" THEN note
                  ELSE [note EXCEPT ![n] = [NoNote EXCEPT !.status = "pending",
                                              !.delivery = delivery[n[1]]]]
       /\ dispatcher' = [dispatcher EXCEPT ![d].batch = @ \ {n}]
  /\ UNCHANGED <<projectVars, mailLock, told, mishaps>>

PendingRecords == {n \in Notes : /\ note[n].status \in {"pending", "failed"}
                                 /\ note[n].attempts < MaxMails /\ ~note[n].early}

(* Mutant: a call without a password returns before the finally clause. *)
CollectOrReturn(d) ==
  /\ At(d, "enqueue") /\ dispatcher[d].batch = {}
  /\ IF dispatcher[d].password
       THEN \E digest \in BOOLEAN :
              dispatcher' = [dispatcher EXCEPT ![d].pc = "send", ![d].digest = digest,
                               ![d].batch = PendingRecords]
       ELSE dispatcher' = [dispatcher EXCEPT ![d] = Quiet]
  /\ UNCHANGED <<projectVars, note, mailLock, told, mishaps>>

(* Without a password the records wait.  The call says whether digests are *)
(* sent: it is chosen where it first matters.                              *)
Collect(d) ==
  /\ At(d, "enqueue") /\ dispatcher[d].batch = {}
  /\ IF dispatcher[d].password
       THEN \E digest \in BOOLEAN :
              dispatcher' = [dispatcher EXCEPT ![d].pc = "send", ![d].digest = digest,
                               ![d].batch = PendingRecords]
       ELSE Move(d, "release")
  /\ UNCHANGED <<projectVars, note, mailLock, told, mishaps>>

Immediate(d) == {n \in dispatcher[d].batch : note[n].delivery = "immediate"}
Digests(d)   == {n \in dispatcher[d].batch : note[n].delivery = "digest"}

(* The next mail: an immediate notification alone, then all the digests.   *)
NextMail(d) == IF Immediate(d) # {} THEN {First(Immediate(d))}
               ELSE IF dispatcher[d].digest THEN Digests(d) ELSE {}

(* The transport may fail, before or after the mail has left: one that has  *)
(* left all the same is not counted in told.                                *)
SendGroup(d) ==
  /\ At(d, "send") /\ NextMail(d) # {}
  /\ LET ns == NextMail(d) IN \E raised \in BOOLEAN :
       /\ dispatcher' = [dispatcher EXCEPT ![d].pc = IF raised THEN "mark failed" ELSE "mark sent",
            ![d].batch = @ \ ns, ![d].group = ns]
       /\ told' = [n \in Notes |-> told[n] + IF ~raised /\ n \in ns THEN 1 ELSE 0]
  /\ UNCHANGED <<projectVars, note, mailLock, mishaps>>

Marked(d, n) == dispatcher' = [dispatcher EXCEPT ![d].group = @ \ {n},
                 ![d].pc = IF dispatcher[d].group = {n} THEN "send" ELSE @]

MarkSent(d) ==
  /\ At(d, "mark sent")
  /\ LET n == First(dispatcher[d].group) IN
       /\ note' = [note EXCEPT ![n].status = "sent"]
       /\ Marked(d, n)
  /\ UNCHANGED <<projectVars, mailLock, told, mishaps>>

MarkFailed(d) ==
  /\ At(d, "mark failed")
  /\ LET n == First(dispatcher[d].group) IN
       /\ note' = [note EXCEPT ![n] = [@ EXCEPT !.status = "failed", !.early = TRUE,
                                         !.attempts = note[n].attempts + 1]]
       /\ Marked(d, n)
  /\ UNCHANGED <<projectVars, mailLock, told, mishaps>>

SendingDone(d) ==
  /\ At(d, "send") /\ NextMail(d) = {}
  /\ dispatcher' = [dispatcher EXCEPT ![d] = [Quiet EXCEPT !.pc = "release"]]
  /\ UNCHANGED <<projectVars, note, mailLock, told, mishaps>>

(* A lock file with another token is left alone. *)
ReleaseLock(d) ==
  /\ At(d, "release")
  /\ mailLock' = IF mailLock = d THEN Nobody ELSE mailLock
  /\ dispatcher' = [dispatcher EXCEPT ![d] = Quiet]
  /\ UNCHANGED <<projectVars, note, told, mishaps>>

(* The backoff of a failed mail is over. *)
BackoffEnds(n) ==
  /\ note[n].early
  /\ note' = [note EXCEPT ![n].early = FALSE]
  /\ UNCHANGED <<projectVars, mailLock, dispatcher, told, mishaps>>

-----------------------------------------------------------------------------
(* Mishaps *)

(* The notifications whose mail arrived and whose records say nothing yet. *)
Unrecorded(d) == IF At(d, "mark sent") THEN dispatcher[d].group ELSE {}

Forget(d) == told' = [n \in Notes |-> told[n] - IF n \in Unrecorded(d) THEN 1 ELSE 0]

(* A record that cannot be written ends the call; the lock is released.    *)
WriteFails(d) ==
  /\ dispatcher[d].pc \in {"enqueue", "mark sent", "mark failed"}
  /\ mishaps < MaxMishaps /\ mishaps' = mishaps + 1
  /\ Forget(d) /\ dispatcher' = [dispatcher EXCEPT ![d] = [Quiet EXCEPT !.pc = "release"]]
  /\ UNCHANGED <<projectVars, note, mailLock>>

(* The process dies; its lock file stays and nothing ever removes it.      *)
DispatcherDies(d) ==
  /\ dispatcher[d].pc \notin {"idle", "lock"} /\ mishaps < MaxMishaps /\ mishaps' = mishaps + 1
  /\ Forget(d)
  /\ mailLock' = IF mailLock = d THEN Gone ELSE mailLock
  /\ dispatcher' = [dispatcher EXCEPT ![d] = Quiet]
  /\ UNCHANGED <<projectVars, note>>

-----------------------------------------------------------------------------
NotifyInit ==
  /\ document = [s \in Documents |-> [asks |-> FALSE, version |-> 0]]
  /\ delivery \in Settings /\ password = FALSE
  /\ note = [n \in Notes |-> NoNote]
  /\ mailLock = Nobody /\ dispatcher = [d \in Dispatchers |-> Quiet]
  /\ told = [n \in Notes |-> 0] /\ mishaps = 0

DispatchStep(d) ==
  \/ TakeLock(d) \/ TimeOut(d) \/ ScanCandidates(d) \/ Enqueue1(d) \/ Collect(d)
  \/ SendGroup(d) \/ MarkSent(d) \/ MarkFailed(d) \/ SendingDone(d) \/ ReleaseLock(d)

NotifyNext ==
  \/ \E s \in Documents : Ask(s) \/ Settle(s)
  \/ ConfigureSecret
  \/ \E d \in Dispatchers : Dispatch(d) \/ DispatchStep(d) \/ WriteFails(d) \/ DispatcherDies(d)
  \/ \E n \in Notes : BackoffEnds(n)

(* The worker loop of an orchestrator dispatches after every tick, so also *)
(* while something waits; a call runs to its end, and time passes.         *)
Waiting == \E n \in Notes : note[n].status \in {"pending", "failed"}

NotifyFairness ==
  /\ \A d \in Dispatchers : /\ WF_notifyVars(Waiting /\ Dispatch(d))
                            /\ WF_notifyVars(DispatchStep(d))
  /\ \A n \in Notes : WF_notifyVars(BackoffEnds(n))

NotifySpec == NotifyInit /\ [][NotifyNext]_notifyVars /\ NotifyFairness

-----------------------------------------------------------------------------
(* Properties *)

(* However many workers dispatch at once, a version of a document is told  *)
(* once, and once more only for each time a mail arrived and a crash, a    *)
(* failed write or a lost answer of the server kept that from the record.  *)
ToldOnce == \A n \in Notes : told[n] <= 1

(* An immediate notification that is queued does not wait for ever: again  *)
(* and again all of them are sent or have used up their attempts, unless a *)
(* dead dispatcher's lock file stops every call.                           *)
Told(n) == \/ note[n].status \notin {"pending", "failed"} \/ note[n].delivery # "immediate"
           \/ note[n].attempts = MaxMails
QueuedIsTold == []<>(~password \/ mailLock = Gone \/ \A n \in Notes : Told(n))
=============================================================================
