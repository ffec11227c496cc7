--------------------------- MODULE FeedbackOutbox ---------------------------
(***************************************************************************)
(* feedback/submit.py: the exports of the project's feedback and their way *)
(* to the ingestion tunnel.                                                *)
(*                                                                         *)
(* The command SubmitFeedback first retries what is in the outbox, then    *)
(* builds an export, posts it, and files it: in metrics/ when the tunnel   *)
(* took it, in metrics/outbox/ when it did not.  It holds the project lock *)
(* all the while; the command line's flush, which only retries, holds      *)
(* none.  A post is tried a few times; a try may reach the tunnel and its  *)
(* answer be lost.                                                         *)
(*                                                                         *)
(* Abstracted: the content of an export, signatures, the wait between two  *)
(* tries.  The settings are read once for a call, where the code reads     *)
(* them again for the flush inside it.                                     *)
(***************************************************************************)
EXTENDS Naturals, FiniteSets

CONSTANTS
  Submitters,   \* processes that send the command SubmitFeedback
  Flushers,     \* processes that flush the outbox
  MaxExports,   \* bound: exports ever built
  MaxTries,     \* posts of one export in one call
  MaxTrouble,   \* bound: crashes, files that cannot be removed, new schemas
  MaxChanges    \* bound: changes of the consent

ASSUME FeedbackAssumption ==
  /\ Submitters \cap Flushers = {} /\ MaxTries \in Nat \ {0}
  /\ MaxExports \in Nat /\ MaxTrouble \in Nat /\ MaxChanges \in Nat

Exports == 1 .. MaxExports
Senders == Submitters \cup Flushers

VARIABLES
  consent,      \* telemetry.collection is not disabled (and its terms accepted)
  credentials,  \* the secret of the tunnel is there
  outbox,       \* outbox[e]: the status in its file in metrics/outbox, or none
  transmitted,  \* exports with a file in metrics/outbox/transmitted
  metrics,      \* exports filed in metrics/
  stale,        \* exports the present schema refuses, since an update
  number,       \* number[e]: its snapshot_sequence (0: not built)
  received,     \* exports the tunnel has
  accepted,     \* exports of an accepted SubmitFeedback that stand in the outbox
  sender,       \* sender[p]: where a call is
  trouble, changes

settings == <<consent, credentials>>
files    == <<outbox, transmitted, metrics>>
fbVars   == <<settings, files, stale, number, received, accepted, sender, trouble, changes>>

AtRest == [pc |-> "rest", consent |-> FALSE, credentials |-> FALSE, todo |-> {},
           export |-> 0, tries |-> 0, status |-> "pending", fresh |-> FALSE]

(* Mutant: an export that failed once is not tried again. *)
PendingOnly == {"pending"}

Retryable == {"pending", "failed"}

(* Type invariant. *)
FeedbackTypeOK ==
  /\ outbox \in [Exports -> {"none", "failed", "skipped"}]
  /\ transmitted \cup metrics \cup stale \cup received \cup accepted \subseteq Exports
  /\ \A p \in Senders : sender[p].todo \subseteq Exports
                        /\ sender[p].status \in {"pending", "failed", "transmitted", "skipped"}

Built == {e \in Exports : number[e] > 0}

At2(p, pc) == sender[p].pc = pc

Ends2(p) == sender' = [sender EXCEPT ![p] = AtRest]

-----------------------------------------------------------------------------
(* Outside *)

ChangeConsent ==
  /\ changes < MaxChanges /\ changes' = changes + 1
  /\ consent' = ~consent
  /\ UNCHANGED <<credentials, files, stale, number, received, accepted, sender, trouble>>

Enroll ==
  /\ ~credentials /\ credentials' = TRUE
  /\ UNCHANGED <<consent, files, stale, number, received, accepted, sender, trouble, changes>>

(* An update brings a schema that some export of the outbox does not meet. *)
NewSchema(e) ==
  /\ outbox[e] = "failed" /\ e \notin stale /\ trouble < MaxTrouble
  /\ trouble' = trouble + 1 /\ stale' = stale \cup {e}
  /\ UNCHANGED <<settings, files, number, received, accepted, sender, changes>>

-----------------------------------------------------------------------------
(* The flush *)

Glob == {e \in Exports : outbox[e] # "none"}

(* Only one command has the project lock. *)
Begin2(p) ==
  /\ At2(p, "rest")
  /\ p \in Submitters => /\ \A q \in Submitters : At2(q, "rest")
                         /\ Cardinality(Built) < MaxExports
  /\ sender' = [sender EXCEPT ![p] = [AtRest EXCEPT !.pc = "next", !.todo = Glob,
                  !.consent = consent, !.credentials = credentials]]
  /\ UNCHANGED <<settings, files, stale, number, received, accepted, trouble, changes>>

Least(es) == CHOOSE e \in es : \A f \in es : e <= f

(* In the order of the names.  A file that has gone in the meantime and one *)
(* that is not to be retried are passed over; without consent the rest is   *)
(* marked skipped, for good.                                                *)
NextFile(p) ==
  LET e == Least(sender[p].todo) IN
  /\ At2(p, "next") /\ sender[p].todo # {}
  /\ IF outbox[e] \in Retryable /\ sender[p].consent
       THEN sender' = [sender EXCEPT ![p] = [@ EXCEPT !.pc = "post", !.export = e, !.tries = 0,
                         !.todo = sender[p].todo \ {e}]]
       ELSE sender' = [sender EXCEPT ![p].todo = @ \ {e}]
  /\ outbox' = IF outbox[e] \in Retryable /\ ~sender[p].consent
                 THEN [outbox EXCEPT ![e] = "skipped"] ELSE outbox
  /\ UNCHANGED <<settings, transmitted, metrics, stale, number, received, accepted,
                 trouble, changes>>

(* A try: it may not reach the tunnel, or its answer may be lost.          *)
Post(p) ==
  /\ At2(p, "post")
  /\ \E reached, answered \in BOOLEAN :
       /\ answered => reached
       /\ reached => sender[p].credentials
       /\ received' = IF reached THEN received \cup {sender[p].export} ELSE received
       /\ sender' = [sender EXCEPT ![p] =
            IF answered THEN [@ EXCEPT !.pc = "posted", !.status = "transmitted"]
            ELSE IF sender[p].credentials /\ sender[p].tries + 1 < MaxTries
                   THEN [@ EXCEPT !.tries = sender[p].tries + 1]
            ELSE [@ EXCEPT !.pc = "posted", !.status = "failed"]]
  /\ UNCHANGED <<settings, files, stale, number, accepted, trouble, changes>>

(* The document with its new status must meet the schema: one that does    *)
(* not ends the whole call, the command is rejected.                       *)
Refused(p) ==
  /\ At2(p, "posted") /\ sender[p].export \in stale
  /\ Ends2(p)
  /\ UNCHANGED <<settings, files, stale, number, received, accepted, trouble, changes>>

(* A transmitted export is archived first and then removed; the status of  *)
(* another is written, into a new file if the old one has gone.            *)
RecordPost(p) ==
  LET e == sender[p].export IN
  /\ At2(p, "posted") /\ ~sender[p].fresh /\ e \notin stale
  /\ IF sender[p].status = "transmitted"
       THEN /\ transmitted' = transmitted \cup {e} /\ UNCHANGED outbox
            /\ sender' = [sender EXCEPT ![p].pc = "unlink"]
       ELSE /\ outbox' = [outbox EXCEPT ![e] = "failed"] /\ UNCHANGED transmitted
            /\ sender' = [sender EXCEPT ![p].pc = "next", ![p].status = "pending"]
  /\ UNCHANGED <<settings, metrics, stale, number, received, accepted, trouble, changes>>

(* A file that cannot be removed stays, with the status it had. *)
Unlink(p) ==
  /\ At2(p, "unlink")
  /\ \/ outbox' = [outbox EXCEPT ![sender[p].export] = "none"] /\ UNCHANGED trouble
     \/ trouble < MaxTrouble /\ trouble' = trouble + 1 /\ UNCHANGED outbox
  /\ sender' = [sender EXCEPT ![p].pc = "next", ![p].status = "pending"]
  /\ UNCHANGED <<settings, transmitted, metrics, stale, number, received, accepted, changes>>

FlushDone(p) ==
  /\ At2(p, "next") /\ sender[p].todo = {} /\ p \in Flushers
  /\ Ends2(p)
  /\ UNCHANGED <<settings, files, stale, number, received, accepted, trouble, changes>>

-----------------------------------------------------------------------------
(* The export *)

(* _next_snapshot_sequence counts the files in metrics/ and in the outbox, *)
(* those that were archived in outbox/transmitted are no longer there.     *)
NextSequence == Cardinality(metrics) + Cardinality(Glob) + 1

BuildExport(p) ==
  LET e == Cardinality(Built) + 1 IN
  /\ At2(p, "next") /\ sender[p].todo = {} /\ p \in Submitters
  /\ number' = [number EXCEPT ![e] = NextSequence]
  /\ sender' = [sender EXCEPT ![p] = [@ EXCEPT !.export = e, !.fresh = TRUE, !.tries = 0,
                  !.pc = IF sender[p].consent THEN "post" ELSE "posted",
                  !.status = IF sender[p].consent THEN "pending" ELSE "skipped"]]
  /\ UNCHANGED <<settings, files, stale, received, accepted, trouble, changes>>

(* Mutant: every export is filed in metrics/. *)
FileInMetrics(p) ==
  LET e == sender[p].export IN
  /\ At2(p, "posted") /\ sender[p].fresh
  /\ metrics' = metrics \cup {e} /\ accepted' = accepted \cup {e}
  /\ Ends2(p)
  /\ UNCHANGED <<settings, outbox, transmitted, stale, number, received, trouble, changes>>

(* The document is written by the transaction of the command. *)
FileExport(p) ==
  LET e == sender[p].export IN
  /\ At2(p, "posted") /\ sender[p].fresh
  /\ IF sender[p].status = "failed"
       THEN /\ outbox' = [outbox EXCEPT ![e] = "failed"] /\ UNCHANGED metrics
            /\ accepted' = accepted \cup {e}
       ELSE metrics' = metrics \cup {e} /\ UNCHANGED <<outbox, accepted>>
  /\ Ends2(p)
  /\ UNCHANGED <<settings, transmitted, stale, number, received, trouble, changes>>

(* The process dies, or the transaction of the command fails: an export    *)
(* that was not filed is known to nobody here.                             *)
SenderDies(p) ==
  /\ ~At2(p, "rest") /\ trouble < MaxTrouble /\ trouble' = trouble + 1
  /\ Ends2(p)
  /\ UNCHANGED <<settings, files, stale, number, received, accepted, changes>>

-----------------------------------------------------------------------------
FeedbackInit ==
  /\ consent = TRUE /\ credentials \in BOOLEAN
  /\ outbox = [e \in Exports |-> "none"] /\ number = [e \in Exports |-> 0]
  /\ transmitted = {} /\ metrics = {} /\ stale = {} /\ received = {} /\ accepted = {}
  /\ sender = [p \in Senders |-> AtRest] /\ trouble = 0 /\ changes = 0

SendStep(p) == NextFile(p) \/ Post(p) \/ Refused(p) \/ RecordPost(p) \/ Unlink(p)
               \/ FlushDone(p) \/ BuildExport(p) \/ FileExport(p)

FeedbackNext ==
  \/ ChangeConsent \/ Enroll \/ (\E e \in Exports : NewSchema(e))
  \/ \E p \in Senders : Begin2(p) \/ SendStep(p) \/ SenderDies(p)

(* The tunnel answers a post *)
Answered(p) == Post(p) /\ sender'[p].status = "transmitted"

(* While there is something to flush somebody does, to the end, and the    *)
(* tunnel that is asked again and again answers now and then.              *)
FeedbackFairness ==
  \A p \in Flushers : /\ WF_fbVars(Glob # {} /\ Begin2(p)) /\ WF_fbVars(SendStep(p))
                      /\ \A e \in Exports : SF_fbVars(sender[p].export = e /\ Answered(p))

FeedbackSpec == FeedbackInit /\ [][FeedbackNext]_fbVars /\ FeedbackFairness

-----------------------------------------------------------------------------
(* Properties *)

(* An export whose submission was accepted and that the tunnel has not     *)
(* taken stays in the outbox, with a flush and a command at work on the    *)
(* same files, answers that are lost and calls that are cut off.           *)
KeptUntilReceived == \A e \in accepted : e \in received \/ outbox[e] # "none"

(* While there is consent and a secret, the tunnel comes to have every     *)
(* export of the outbox that was not skipped, unless one of them no longer *)
(* meets the schema, which ends every flush that comes to it.              *)
OutboxDrains ==
  []<>(\/ ~consent \/ ~credentials \/ \E f \in stale : outbox[f] # "none"
       \/ \A e \in Exports : outbox[e] = "failed" => e \in received)
=============================================================================
