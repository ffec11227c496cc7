----------------------------- MODULE MCDelivery -----------------------------
(***************************************************************************)
(* Constants for TLC, and the three file queues of the framework side by   *)
(* side: what the supervisor has to start, the mails of the notifications  *)
(* and the exports of the feedback.  They share no file, so a behaviour    *)
(* uses one of them.                                                       *)
(***************************************************************************)
EXTENDS SupervisorQueue, Notifications, FeedbackOutbox

MCDocuments == {"decision", "unit"}
MCSettings == {[d \in MCDocuments |-> IF d = "unit" THEN "digest" ELSE "immediate"]}

VARIABLE used     \* the queue this behaviour uses

allVars == <<used, vars, notifyVars, fbVars>>

DeliveryInit ==
  /\ used \in {"supervisor", "mails", "exports"}
  /\ Init /\ NotifyInit /\ FeedbackInit
  /\ used # "exports" => credentials

DeliveryNext ==
  /\ UNCHANGED used
  /\ \/ used = "supervisor" /\ Next /\ UNCHANGED <<notifyVars, fbVars>>
     \/ used = "mails" /\ NotifyNext /\ UNCHANGED <<vars, fbVars>>
     \/ used = "exports" /\ FeedbackNext /\ UNCHANGED <<vars, notifyVars>>

\* A queue that is not used stays empty, and what is fair about it is never enabled.
DeliverySpec ==
  DeliveryInit /\ [][DeliveryNext]_allVars /\ Fairness /\ NotifyFairness /\ FeedbackFairness
=============================================================================
