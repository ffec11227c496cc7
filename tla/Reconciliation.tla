--------------------------- MODULE Reconciliation ---------------------------
(***************************************************************************)
(* The reconciliation of an ensemble before it may be compiled: a report    *)
(* that people and a skill fill in, its finalization with a fingerprint of  *)
(* the instance and of every member, and the check that fences the         *)
(* compilation (reconciliation.py, reconcile_project.py). Neither takes the *)
(* project lock. Contents are abstracted to versions: a fingerprint is the  *)
(* version of everything it covers.                                        *)
(***************************************************************************)
EXTENDS Ensemble

CONSTANTS
    Sources,            \* the sources of human authority a report may refer to
    Fillings,           \* what people and the skill may leave in a report
    MaxWrites           \* bound: how often a report is written

VARIABLES
    reconciliations, \* the reconciliation report of each ensemble
    sources,        \* the active sources of human authority whose file exists
    files,          \* the version of the other files the project owns in the instance
    fence           \* the ensembles the last check of which allowed to compile

recVars == <<reconciliations, sources, files, fence>>

Resolved == {"completed", "waived"}
Items == [state : {"open"} \cup Resolved, sensitive : BOOLEAN, approved : BOOLEAN]

\* The references to sources, the decisions, the survey of what exists, an item, the verification.
Fillable == [status : {"draft", "approved", "applying"}, refs : SUBSET Sources, decided : BOOLEAN,
              surveyed : BOOLEAN, item : Items, verified : BOOLEAN]
Draft == [status |-> "draft", refs |-> {}, decided |-> TRUE, surveyed |-> FALSE,
          item |-> [state |-> "open", sensitive |-> FALSE, approved |-> FALSE], verified |-> FALSE]

ASSUME ReconciliationAssumption == Fillings \subseteq Fillable /\ MaxWrites \in Nat

ReconciliationInit ==
    /\ reconciliations = [e \in Ensembles |-> Absent]
    /\ sources \in SUBSET Sources
    /\ files = 1 /\ fence = {}

-----------------------------------------------------------------------------
(* Fingerprints                                                            *)

\* The report of the instance itself is left out of its fingerprint, at .ai-team/reconciliation/.
\* Those of the ensembles, under .ai-team/ensembles/, are files like others.
WrittenReports == [e \in Ensembles |-> IF reconciliations[e] = Absent THEN 0 ELSE reconciliations[e].version]

\* What the project owns in the instance, its reports aside.
Owned == [files |-> files, sources |-> sources, documents |-> documents]

InstanceFingerprint == [owned |-> Owned, reports |-> WrittenReports]
MemberFingerprints(e) == [m \in Declared(e) |-> heads[RepoOf(e, m)]]

-----------------------------------------------------------------------------
(* The report                                                              *)

MayReconcile(p) ==
    /\ clients[p] # Absent /\ clients[p].member = Absent
    /\ Declared(clients[p].ensemble) # {}

Write(e, report) ==
    /\ reconciliations' = [reconciliations EXCEPT ![e] = report]
    /\ UNCHANGED <<sources, files, fence, ensVars>>

NextVersion(e) == IF reconciliations[e] = Absent THEN 1 ELSE reconciliations[e].version + 1

\* A draft, which replaces a report only when that is forced.
InitReport(p, force) ==
    /\ MayReconcile(p)
    /\ LET e == clients[p].ensemble IN
         /\ reconciliations[e] # Absent => force
         /\ NextVersion(e) <= MaxWrites
         /\ Write(e, [filling |-> Draft, status |-> "draft", version |-> NextVersion(e),
                      baseline |-> Absent, owned |-> Absent])

\* People and the skill fill it in: sources, decisions, a classification of every surface.
FillReport(e, filling) ==
    /\ reconciliations[e] # Absent /\ reconciliations[e].version < MaxWrites
    /\ Write(e, [reconciliations[e] EXCEPT !.filling = filling, !.status = filling.status, !.version = @ + 1])

\* The issues of the report, of which there must be none.
Sound(e) ==
    LET r == reconciliations[e].filling IN
    /\ r.refs # {} /\ r.refs \subseteq sources
    /\ r.decided /\ r.surveyed /\ r.verified
    /\ r.item.state \in Resolved
    /\ r.item.sensitive \/ r.item.state = "waived" => r.item.approved

FinalizeReport(p) ==
    /\ MayReconcile(p)
    /\ LET e == clients[p].ensemble IN
         /\ reconciliations[e] # Absent /\ reconciliations[e].version < MaxWrites
         /\ reconciliations[e].status \in {"approved", "applying"}
         /\ Sound(e)
         /\ Write(e, [reconciliations[e] EXCEPT
               !.status = "ready", !.version = @ + 1, !.owned = Owned,
               !.baseline = [instance |-> InstanceFingerprint, members |-> MemberFingerprints(e)]])

Matching(e) ==
    /\ reconciliations[e].baseline # Absent
    /\ reconciliations[e].baseline.members = MemberFingerprints(e)
    /\ reconciliations[e].baseline.instance = InstanceFingerprint

CheckReport(p) ==
    /\ MayReconcile(p)
    /\ LET e == clients[p].ensemble
           ready == reconciliations[e] # Absent /\ reconciliations[e].status = "ready" /\ Sound(e) /\ Matching(e)
       IN fence' = IF ready THEN fence \cup {e} ELSE fence \ {e}
    /\ UNCHANGED <<reconciliations, sources, files, ensVars>>

\* The project changes: a file, or a source that is registered, retired or removed.
EditProject ==
    /\ files < 2
    /\ files' = files + 1
    /\ UNCHANGED <<reconciliations, sources, fence, ensVars>>

ChangeSource(s) ==
    /\ sources' = IF s \in sources THEN sources \ {s} ELSE sources \cup {s}
    /\ UNCHANGED <<reconciliations, files, fence, ensVars>>

-----------------------------------------------------------------------------

ReconciliationNext ==
    \/ \E p \in Clients : FinalizeReport(p) \/ CheckReport(p) \/ \E b \in BOOLEAN : InitReport(p, b)
    \/ \E e \in Ensembles, filling \in Fillings : FillReport(e, filling)
    \/ EditProject
    \/ \E s \in Sources : ChangeSource(s)

-----------------------------------------------------------------------------

\* A reconciliation that was finalized is current as long as the project it covers, its members and
\* its sources are what they were: writing the report does not change the fingerprint in it.
FinalizedIsCurrent ==
    \A e \in Ensembles :
        (/\ reconciliations[e] # Absent /\ reconciliations[e].status = "ready"
         /\ reconciliations[e].owned = Owned /\ reconciliations[e].baseline.members = MemberFingerprints(e)) => Matching(e)
=============================================================================
