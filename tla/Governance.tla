----------------------------- MODULE Governance -----------------------------
(***************************************************************************)
(* The governed records of a project: Work Units and the states they go    *)
(* through, findings, evidence, decisions asked of a human, gates, the     *)
(* checkpoints a human answers with a feedback, and its reconciliation     *)
(* (core/commands/handlers, core/domain/{work_unit,gates,decisions}). Each *)
(* command runs alone, under the lock of GatewayJournal. What goes on      *)
(* outside the Core is what roles write in the documents themselves.       *)
(***************************************************************************)
EXTENDS DesignAuthority

CONSTANTS
    Decisions, Findings, Feedbacks, Checkpoints, Evidences, Acceptances,
    CheckpointOf,       \* the Work Unit and the revision each checkpoint is about
    Revisions,          \* commits a human observes
    MaxRevision         \* bound: the revision of a Work Unit

Gates == {"G0", "G1", "G2", "G3", "G4"}

ASSUME GovernanceAssumption ==
    /\ MaxRevision \in Nat /\ Units \cup Decisions \cup Feedbacks \subseteq Targets
    /\ Gates \cup Acceptances \subseteq Targets

UnitTransitions ==
    [absent |-> {}, draft |-> {"ready", "cancelled"}, ready |-> {"in_progress", "cancelled"},
     in_progress |-> {"verification", "waiting_decision", "blocked", "ready", "cancelled"},
     waiting_decision |-> {"in_progress", "blocked", "cancelled"},
     blocked |-> {"in_progress", "ready", "cancelled"},
     verification |-> {"review", "in_progress", "remediation_required", "done", "cancelled"},
     review |-> {"audit", "verification", "remediation_required", "done", "cancelled"},
     audit |-> {"human_test", "verification", "remediation_required", "done", "cancelled"},
     human_test |-> {"done", "remediation_required", "verification", "cancelled"},
     remediation_required |-> {"in_progress", "blocked", "verification", "cancelled"},
     done |-> {}, cancelled |-> {}]

GateStatuses ==
    [G0 |-> {"passed", "failed", "rejected", "changes_requested"},
     G1 |-> {"approved", "rejected", "changes_requested"},
     G2 |-> {"approved", "rejected", "changes_requested", "not_required"},
     G3 |-> {"approved", "rejected", "changes_requested", "not_required", "passed", "failed"},
     G4 |-> {"approved", "rejected", "changes_requested", "passed", "failed", "partial",
             "partially_accepted", "not_required", "accepted", "remediation_required"}]

Completion == {"approved", "passed", "accepted"}

AcceptanceOf(status) ==
    CASE status \in Completion \cup {"not_required"} -> "accepted"
      [] status \in {"rejected", "failed"} -> "rejected"
      [] status = "remediation_required" -> "remediation_required"
      [] OTHER -> "partially_accepted"

\* What a unit must show, of what is required of it, and what keeps it open.
Proofs == {"review", "audit", "human_acceptance"}
OpenItems == {"about_g4", "other"}

VARIABLES
    units,          \* the Work Unit documents
    listed,         \* project_state.work_units, which no command of the Core writes
    gates,          \* the last decision of each gate
    phase,          \* the phase of the project
    decisions, findings, evidence, acceptances,
    checkpoints,    \* the events that ask a human to look
    feedback        \* the human feedback documents

govVars == <<units, listed, gates, phase, decisions, findings, evidence, acceptances,
             checkpoints, feedback>>
records == <<govVars, designVars, authVars>>

UnitRecord == [status : DOMAIN UnitTransitions, revision : Nat, required : SUBSET Proofs,
               evidence : BOOLEAN, shown : SUBSET {"review", "audit"},
               acceptance : {"none", "accepted", "rejected", "remediation_required",
                             "partially_accepted"},
               open : SUBSET OpenItems, findings : SUBSET Findings, feedback : SUBSET Feedbacks]
FeedbackRecord == [status : {"pending_reconciliation", "reconciled", "needs_decision", "superseded"},
                   unit : Units, revision : Revisions, checkpoint : Checkpoints \cup {None},
                   refers : SUBSET (Units \cup Decisions)]

ASSUME AbsentAssumption == None \notin FeedbackRecord

GovernanceTypeOK ==
    /\ units \in [Units -> UnitRecord] /\ listed \subseteq Units
    /\ gates \in [Gates -> (UNION {GateStatuses[g] : g \in Gates}) \cup {"none"}]
    /\ phase \in {"not_compiled", "execution", "readiness_blocked", "completed"}
    /\ decisions \in [Decisions -> {"absent", "pending_human", "decided", "cancelled"}]
    /\ findings \subseteq Findings /\ evidence \subseteq Evidences /\ acceptances \subseteq Acceptances
    /\ checkpoints \in [Checkpoints -> [status : {"open", "closed"}, feedback : Feedbacks \cup {None}]]
    /\ feedback \in [Feedbacks -> FeedbackRecord \cup {None}]

NoUnit == [status |-> "absent", revision |-> 0, required |-> {}, evidence |-> FALSE,
           shown |-> {}, acceptance |-> "none", open |-> {}, findings |-> {}, feedback |-> {}]

GovernanceInit ==
    /\ AuthInit /\ DesignInit
    /\ units = [u \in Units |-> NoUnit]
    /\ listed \in SUBSET Units
    /\ gates = [g \in Gates |-> "none"]
    /\ phase = "not_compiled"
    /\ decisions = [d \in Decisions |-> "absent"]
    /\ findings = {} /\ evidence = {} /\ acceptances = {}
    /\ checkpoints = [k \in Checkpoints |-> [status |-> "open", feedback |-> None]]
    /\ feedback = [f \in Feedbacks |-> None]

Exists(u) == units[u].status # "absent"

-----------------------------------------------------------------------------
(* Work Units                                                              *)

CreateWorkUnit(u, status, required) ==
    /\ ~Exists(u)
    /\ units' = [units EXCEPT ![u] =
                    [NoUnit EXCEPT !.status = status, !.revision = 1, !.required = required]]
    /\ UNCHANGED <<listed, gates, phase, decisions, findings, evidence, acceptances>>
    /\ UNCHANGED <<checkpoints, feedback, designVars, authVars>>

\* The prerequisites of Done, which G4 asks too: evidence, each proof that is required, nothing
\* critical open, and a verified design.
Shown(u, proof) ==
    IF proof = "human_acceptance" THEN units[u].acceptance = "accepted" ELSE proof \in units[u].shown

Ready(u) ==
    /\ units[u].evidence
    /\ \A proof \in units[u].required : Shown(u, proof)
    /\ units[u].open = {}
    /\ VisuallyConform(u)

TransitionWorkUnit(u, to) ==
    /\ units[u].revision < MaxRevision
    /\ to \in UnitTransitions[units[u].status]
    /\ to = "done" => Ready(u)
    /\ units' = [units EXCEPT ![u].status = to, ![u].revision = @ + 1]
    /\ UNCHANGED <<listed, gates, phase, decisions, findings, evidence, acceptances>>
    /\ UNCHANGED <<checkpoints, feedback, designVars, authVars>>

\* The binding is written in the unit's document, whose revision stays.
BindDesignToWorkUnit(u, c, s, mode) == Exists(u) /\ Bind(u, c, s, mode) /\ UNCHANGED govVars

\* A finding is attached to the unit it names, when it names one; the revision stays.
RegisterFinding(f, u) ==
    /\ f \notin findings
    /\ u # None => Exists(u)
    /\ findings' = findings \cup {f}
    /\ units' = IF u = None THEN units ELSE [units EXCEPT ![u].findings = @ \cup {f}]
    /\ UNCHANGED <<listed, gates, phase, decisions, evidence, acceptances>>
    /\ UNCHANGED <<checkpoints, feedback, designVars, authVars>>

RegisterEvidence(e) ==
    /\ e \notin evidence
    /\ evidence' = evidence \cup {e}
    /\ UNCHANGED <<units, listed, gates, phase, decisions, findings, acceptances>>
    /\ UNCHANGED <<checkpoints, feedback, designVars, authVars>>

\* A role records its evidence, its review or its audit, or opens or closes a critical item, in
\* the document of the unit it works on.
Toggle(S, x) == IF x \in S THEN S \ {x} ELSE S \cup {x}

RoleWrites(u, x) ==
    /\ Exists(u)
    /\ units' = [units EXCEPT
          ![u].evidence = IF x = "evidence" THEN ~@ ELSE @,
          ![u].shown = IF x \in {"review", "audit"} THEN Toggle(@, x) ELSE @,
          ![u].open = IF x \in OpenItems THEN Toggle(@, x) ELSE @]
    /\ UNCHANGED <<listed, gates, phase, decisions, findings, evidence, acceptances>>
    /\ UNCHANGED <<checkpoints, feedback, designVars, authVars>>

-----------------------------------------------------------------------------
(* Decisions, gates and acceptance                                         *)

CreateDecisionRequest(d) ==
    /\ decisions[d] = "absent"
    /\ decisions' = [decisions EXCEPT ![d] = "pending_human"]
    /\ UNCHANGED <<units, listed, gates, phase, findings, evidence, acceptances>>
    /\ UNCHANGED <<checkpoints, feedback, designVars, authVars>>

ResolveDecisionRequest(d, to, auth) ==
    /\ decisions[d] = "pending_human"
    /\ MayAct(auth, "ResolveDecisionRequest", d)
    /\ decisions' = [decisions EXCEPT ![d] = to]
    /\ Consume(auth, "ResolveDecisionRequest", d)
    /\ UNCHANGED <<units, listed, gates, phase, findings, evidence, acceptances>>
    /\ UNCHANGED <<checkpoints, feedback, designVars>>

\* The units a gate looks at: those the command names, or those the project state lists that are
\* not done or cancelled.
ToVerify(named) ==
    IF named # {} THEN named ELSE {u \in listed : units[u].status \notin {"done", "cancelled"}}

PhaseAfter(gate, status) ==
    CASE gate = "G1" /\ status = "approved" -> "execution"
      [] gate = "G0" /\ status # "passed" -> "readiness_blocked"
      [] gate = "G4" /\ status \in Completion -> "completed"
      [] OTHER -> phase

RecordGateDecision(gate, status, named, auth) ==
    /\ status \in GateStatuses[gate]
    /\ MayAct(auth, "RecordGateDecision", gate)
    /\ gate = "G1" /\ status = "approved" =>
          \A u \in ToVerify(named) : Exists(u) /\ DesignReady(u)
    /\ gate = "G4" /\ status \in Completion => \A u \in ToVerify(named) : Exists(u) /\ Ready(u)
    /\ gates' = [gates EXCEPT ![gate] = status]
    /\ phase' = PhaseAfter(gate, status)
    /\ units' = [u \in Units |->
          IF gate = "G4" /\ u \in named /\ Exists(u)
          THEN [units[u] EXCEPT !.acceptance = AcceptanceOf(status), !.open = @ \ {"about_g4"}]
          ELSE units[u]]
    /\ Consume(auth, "RecordGateDecision", gate)
    /\ UNCHANGED <<listed, decisions, findings, evidence, acceptances, checkpoints, feedback>>
    /\ UNCHANGED designVars

RecordAcceptance(x, auth) ==
    /\ x \notin acceptances
    /\ MayAct(auth, "RecordAcceptance", x)
    /\ acceptances' = acceptances \cup {x}
    /\ Consume(auth, "RecordAcceptance", x)
    /\ UNCHANGED <<units, listed, gates, phase, decisions, findings, evidence>>
    /\ UNCHANGED <<checkpoints, feedback, designVars>>

-----------------------------------------------------------------------------
(* Human feedback                                                          *)

\* Variant: the checkpoint may have been answered already.
AnswersAny(k, u, revision) == CheckpointOf[k] = [unit |-> u, revision |-> revision]

\* A feedback on a Work Unit, on a revision the human saw, and maybe an answer to a checkpoint:
\* an open one, of this unit and this revision.
Answers(k, u, revision) ==
    /\ checkpoints[k].status = "open"
    /\ CheckpointOf[k] = [unit |-> u, revision |-> revision]

RecordHumanFeedback(f, u, revision, k, auth) ==
    /\ units[u].revision < MaxRevision
    /\ feedback[f] = None
    /\ Exists(u)
    /\ k # None => Answers(k, u, revision)
    /\ MayAct(auth, "RecordHumanFeedback", f)
    /\ feedback' = [feedback EXCEPT ![f] =
          [status |-> "pending_reconciliation", unit |-> u, revision |-> revision,
           checkpoint |-> k, refers |-> {}]]
    /\ units' = [units EXCEPT ![u].feedback = @ \cup {f}, ![u].revision = @ + 1]
    /\ checkpoints' = IF k = None THEN checkpoints
                      ELSE [checkpoints EXCEPT ![k] = [status |-> "closed", feedback |-> f]]
    /\ Consume(auth, "RecordHumanFeedback", f)
    /\ UNCHANGED <<listed, gates, phase, decisions, findings, evidence, acceptances, designVars>>

\* What a reconciliation leads to: Work Units to verify again or to remedy, decisions asked.
Referable == {u \in Units : Exists(u)} \cup {d \in Decisions : decisions[d] # "absent"}

ReconcileHumanFeedback(f, to, changesProduct, refs) ==
    /\ feedback[f] # None
    /\ feedback[f].status = "pending_reconciliation"
    /\ refs \subseteq Referable
    /\ changesProduct => refs # {}
    /\ to = "needs_decision" => refs \cap Decisions # {}
    /\ feedback' = [feedback EXCEPT ![f].status = to, ![f].refers = refs]
    /\ UNCHANGED <<units, listed, gates, phase, decisions, findings, evidence, acceptances>>
    /\ UNCHANGED <<checkpoints, designVars, authVars>>

-----------------------------------------------------------------------------

UnitStep(us, proofs) ==
    \/ \E u \in us, s \in {"draft", "ready"}, req \in SUBSET proofs : CreateWorkUnit(u, s, req)
    \/ \E u \in us, to \in DOMAIN UnitTransitions : TransitionWorkUnit(u, to)
    \/ \E u \in us, x \in {"evidence", "review", "audit"} \cup OpenItems : RoleWrites(u, x)

GateStep == \E g \in Gates, named \in SUBSET Units, auth \in Auths :
               \E s \in GateStatuses[g] : RecordGateDecision(g, s, named, auth)

HumanStep ==
    \/ \E f \in Findings, u \in Units \cup {None} : RegisterFinding(f, u)
    \/ \E e \in Evidences : RegisterEvidence(e)
    \/ \E x \in Acceptances, auth \in Auths : RecordAcceptance(x, auth)
    \/ \E d \in Decisions : CreateDecisionRequest(d)
    \/ \E d \in Decisions, to \in {"decided", "cancelled"}, auth \in Auths :
          ResolveDecisionRequest(d, to, auth)
    \/ \E f \in Feedbacks, u \in Units, v \in Revisions, k \in Checkpoints \cup {None},
          auth \in Auths : RecordHumanFeedback(f, u, v, k, auth)
    \/ \E f \in Feedbacks, to \in {"reconciled", "needs_decision", "superseded"},
          b \in BOOLEAN, refs \in SUBSET (Units \cup Decisions) :
          ReconcileHumanFeedback(f, to, b, refs)

DesignStep ==
    \/ DesignNext /\ UNCHANGED govVars
    \/ \E u \in Units, c \in Contracts \cup {None}, s \in RefSets \cup {None},
          m \in Modes \cup {None} : BindDesignToWorkUnit(u, c, s, m)

\* The commands of this module that need a token, and what each may be about.
Tokened == StrictCommands \cup {"ResolveDecisionRequest", "RecordGateDecision",
                                "RecordAcceptance", "RecordHumanFeedback"}

TargetsFor(c) ==
    CASE c \in StrictCommands -> Artifacts [] c = "ResolveDecisionRequest" -> Decisions
      [] c = "RecordGateDecision" -> Gates [] c = "RecordAcceptance" -> Acceptances
      [] OTHER -> Feedbacks

IssueStep(cs) == \E a \in Auths, c \in cs : \E t \in TargetsFor(c) :
                Issue(a, c, t) /\ UNCHANGED <<govVars, designVars>>

GovernanceNext == UnitStep(Units, Proofs) \/ GateStep \/ HumanStep \/ DesignStep \/ IssueStep(Tokened)

GovernanceSpec == GovernanceInit /\ [][GovernanceNext]_records

-----------------------------------------------------------------------------

\* A checkpoint is closed by one feedback, which saw what the checkpoint showed, and a feedback
\* that names a checkpoint is the one that closed it: two humans cannot both answer it.
CheckpointAnsweredOnce ==
    /\ \A k \in Checkpoints : checkpoints[k].status = "closed" =>
          LET f == checkpoints[k].feedback IN
          /\ feedback[f].checkpoint = k
          /\ CheckpointOf[k] = [unit |-> feedback[f].unit, revision |-> feedback[f].revision]
    /\ \A f, g \in Feedbacks : (/\ f # g /\ feedback[f] # None /\ feedback[g] # None
                                /\ feedback[f].checkpoint # None)
                               => feedback[f].checkpoint # feedback[g].checkpoint

\* A Work Unit that is to conform to a design becomes done on a verification that passed and no
\* later one undid, of the delivered commit, against no mockup that was replaced after it.
DoneIsConform ==
    [][\A u \in Units :
         (/\ units[u].status # "done" /\ units'[u].status = "done"
          /\ bindings[u] # None /\ bindings[u].mode \in Binding) =>
         \E r \in Reports :
            /\ reports[r] # None /\ reports[r].unit = u /\ reports[r].status = "passed"
            /\ delivered[u] \in {None, reports[r].commit}
            /\ \A q \in Reports \ {r} : (/\ reports[q] # None /\ reports[q].unit = u
                                         /\ reports[q].at > reports[r].at)
                                        => reports[q].status = "obsolete"]_records

\* The project is complete only when every Work Unit it has, that is not cancelled, shows what is
\* required of it.
CompletedIsVerified ==
    [][phase # "completed" /\ phase' = "completed" =>
         \A u \in Units : Exists(u) /\ units[u].status # "cancelled" => Ready(u)]_records
=============================================================================
