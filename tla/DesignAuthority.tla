--------------------------- MODULE DesignAuthority ---------------------------
(***************************************************************************)
(* Mockups that become product contracts (core/design_authority and the    *)
(* handlers of commands/handlers/design_authority.py): artifacts with an   *)
(* authority level and the hash of their file, reference sets, immutable   *)
(* design contracts, bindings of a Work Unit to a contract and the reports *)
(* of its visual verification. The routes, states, viewports, texts and    *)
(* pixels of a capture are abstracted to the outcome of the comparison.    *)
(***************************************************************************)
EXTENDS HumanAuthorization, FiniteSets

CONSTANTS
    Units,              \* Work Units
    UiUnits,            \* those whose zone is a user interface
    Artifacts,          \* mockups and other references
    Images,             \* the artifacts that are images, compared pixel by pixel
    TargetOf,           \* the screen, route, state and viewport an artifact is the reference of
    NoTarget,           \* an artifact that is the reference of no particular target
    Contents,           \* what the file of an artifact may hold
    RefSets, Contracts, Reports,
    Commits,            \* commits of the project
    Modes,              \* the design modes asked for, a subset of DesignModes
    None,               \* an identifier or a record that is not there
    HasBackend,         \* whether an adapter attaches a capture backend
    MaxReports          \* bound: reports recorded

DesignModes == {"conform", "adapt", "create", "maintain", "explore"}
Binding == {"conform", "adapt"}
Levels == {"authoritative", "advisory", "inspiration_only", "deprecated"}

ASSUME DesignAssumption ==
    /\ UiUnits \subseteq Units /\ Images \subseteq Artifacts /\ Modes \subseteq DesignModes
    /\ HasBackend \in BOOLEAN /\ MaxReports \in Nat /\ Artifacts \subseteq Targets

VARIABLES
    artifacts,      \* the registry: level, status and hash of each artifact
    mockups,        \* what the file of each artifact holds now
    sets,           \* the members of each reference set
    contracts,      \* each compiled contract, with the references as they were then
    bindings,       \* the design_binding of each Work Unit
    reports,        \* the visual conformance reports
    head,           \* the commit the verification worktree is at
    delivered,      \* the commit delivered for each Work Unit
    clock           \* reports recorded so far, for created_at

designVars == <<artifacts, mockups, sets, contracts, bindings, reports, head, delivered, clock>>

ReportRecord == [unit : Units, contract : Contracts, commit : Commits, at : 1 .. MaxReports,
                 status : {"passed", "failed", "unverifiable", "obsolete"}, refs : SUBSET Artifacts]
ReportsTypeOK == /\ reports \in [Reports -> ReportRecord \cup {None}]
                 /\ clock \in 0 .. MaxReports /\ head \in Commits

DesignInit ==
    /\ artifacts = [a \in Artifacts |-> None]
    /\ mockups \in [Artifacts -> Contents]
    /\ sets = [s \in RefSets |-> None]
    /\ contracts = [c \in Contracts |-> None]
    /\ bindings = [u \in Units |-> None]
    /\ reports = [r \in Reports |-> None]
    /\ head \in Commits
    /\ delivered = [u \in Units |-> None]
    /\ clock = 0

-----------------------------------------------------------------------------
(* The registry                                                            *)

Registered(a) == artifacts[a] # None
Authoritative(a) == Registered(a) /\ artifacts[a].level = "authoritative"

\* The file still holds what was registered.
Intact(a) == artifacts[a].hash = mockups[a]

\* A local file, or a remote reference with its pinned mirror. A token is consumed only when
\* the artifact is to be authoritative.
RegisterDesignArtifact(a, level, auth) ==
    /\ ~Registered(a)
    /\ artifacts' = [artifacts EXCEPT ![a] =
                        [level |-> level, status |-> "active", hash |-> mockups[a]]]
    /\ IF level = "authoritative"
       THEN MayAct(auth, "RegisterDesignArtifact", a) /\ Consume(auth, "RegisterDesignArtifact", a)
       ELSE UNCHANGED authVars
    /\ UNCHANGED <<mockups, sets, contracts, bindings, reports, head, delivered, clock>>

\* The level of the artifact the payload names; the token is for the target of the command.
SetDesignArtifactAuthority(a, target, level, auth) ==
    /\ Registered(a)
    /\ MayAct(auth, "SetDesignArtifactAuthority", target)
    /\ artifacts' = [artifacts EXCEPT ![a].level = level]
    /\ Consume(auth, "SetDesignArtifactAuthority", target)
    /\ UNCHANGED <<mockups, sets, contracts, bindings, reports, head, delivered, clock>>

-----------------------------------------------------------------------------
(* Reference sets and contracts                                            *)

\* Two authoritative references of one target.
Contradictory(members) ==
    \E a, b \in members : /\ a # b /\ Authoritative(a) /\ Authoritative(b)
                          /\ TargetOf[a] = TargetOf[b] /\ TargetOf[a] # NoTarget

\* The issues of the members that stop a set or a conform or adapt contract.
Blocking(members) ==
    \/ Contradictory(members)
    \/ \E a \in members : ~Registered(a)
    \/ \E a \in members : Authoritative(a) /\ (artifacts[a].status = "superseded" \/ ~Intact(a))

CreateDesignReferenceSet(s, members) ==
    /\ sets[s] = None
    /\ ~Blocking(members)
    /\ sets' = [sets EXCEPT ![s] = members]
    /\ UNCHANGED <<artifacts, mockups, contracts, bindings, reports, head, delivered, clock>>
    /\ UNCHANGED authVars

Snapshot(members) == {[id |-> a, level |-> artifacts[a].level] : a \in members}
AuthoritativeRefs(refs) == {r \in refs : r.level = "authoritative"}

CompileDesignContract(c, mode, s, extra) ==
    LET members == IF s = None THEN {} ELSE sets[s]
        refs == Snapshot(members \cup extra)
    IN /\ contracts[c] = None
       /\ s # None => sets[s] # None
       /\ \A a \in extra : Registered(a)
       /\ mode \in Binding => ~Blocking(members)
       /\ mode = "conform" => AuthoritativeRefs(refs) # {}
       /\ mode = "create" => AuthoritativeRefs(refs) = {}
       /\ contracts' = [contracts EXCEPT ![c] = [mode |-> mode, set |-> s, refs |-> refs]]
       /\ UNCHANGED <<artifacts, mockups, sets, bindings, reports, head, delivered, clock>>
       /\ UNCHANGED authVars

-----------------------------------------------------------------------------
(* Bindings                                                                *)

\* The authoritative design a binding would rest on: active members of the set as they are now,
\* and the references of the contract as they were compiled.
AuthoritativeIds(c, s) ==
    (IF s = None THEN {} ELSE {a \in sets[s] : Authoritative(a) /\ artifacts[a].status = "active"})
    \cup (IF c = None THEN {} ELSE {r.id : r \in AuthoritativeRefs(contracts[c].refs)})

\* The mode of the binding, and whether it may be bound so.
ModeOf(u, requested, ids) ==
    CASE u \notin UiUnits -> IF requested = None THEN "maintain" ELSE requested
      [] u \in UiUnits /\ requested # None -> requested
      [] OTHER -> IF ids # {} THEN "conform" ELSE "create"

Bindable(u, requested, s, ids) ==
    u \in UiUnits => /\ s # None => ~Contradictory(sets[s])
                     /\ requested \in {"create", "explore"} => ids = {}

Bind(u, c, s, mode) ==
    /\ c # None => contracts[c] # None
    /\ LET set == IF s = None /\ c # None THEN contracts[c].set ELSE s
           requested == IF mode = None /\ c # None THEN contracts[c].mode ELSE mode
           ids == AuthoritativeIds(c, set)
       IN /\ set # None => sets[set] # None
          /\ Bindable(u, requested, set, ids)
          /\ bindings' = [bindings EXCEPT ![u] =
                             [contract |-> c, set |-> set, mode |-> ModeOf(u, requested, ids)]]
    /\ UNCHANGED <<artifacts, mockups, sets, contracts, reports, head, delivered, clock>>
    /\ UNCHANGED authVars

\* What G1 asks of the design of a unit. A superseded reference still satisfies it.
DesignReady(u) ==
    LET b == bindings[u] IN
    (u \in UiUnits /\ b # None) =>
        /\ b.mode \in Binding => b.contract # None
        /\ b.contract # None =>
              /\ \A r \in AuthoritativeRefs(contracts[b.contract].refs) : Intact(r.id)
              /\ b.set # None => ~Contradictory(sets[b.set])

-----------------------------------------------------------------------------
(* Visual conformance                                                      *)

\* The references the captures are compared with, and whether two of them claim one target.
Compared(refs) ==
    LET held == IF AuthoritativeRefs(refs) # {} THEN AuthoritativeRefs(refs)
                ELSE {r \in refs : r.level = "advisory"}
    IN {r.id : r \in held} \cap Images

Ambiguous(ids) == \E a, b \in ids : a # b /\ TargetOf[a] = TargetOf[b]

\* How a verification may end: no backend or one that is not ready, captures that match, that
\* differ, that differ in a declared free zone, or that lack what a check needs.
Outcomes == IF HasBackend THEN {"not_ready", "match", "differ", "free_zone", "incomplete"}
                          ELSE {"no_backend"}

\* What blocks: a divergence of severity blocking, against an authoritative reference.
Blocks(contract, outcome) ==
    /\ AuthoritativeRefs(contract.refs) # {}
    /\ \/ outcome \in {"not_ready", "differ"}
       \/ outcome = "no_backend" /\ contract.mode \in Binding
       \/ outcome = "free_zone" /\ contract.mode # "adapt"

Captured(outcome) == outcome \notin {"no_backend", "not_ready"}

Verdict(contract, outcome) ==
    CASE \/ Blocks(contract, outcome)
         \/ Captured(outcome) /\ Ambiguous(Compared(contract.refs)) -> "failed"
      [] outcome \in {"no_backend", "not_ready", "incomplete"} -> "unverifiable"
      [] OTHER -> "passed"

\* A report is written under the identifier asked for, over a report that has it. The role that
\* verifies is not the one that implements: the call is refused otherwise, and so is a commit
\* that is not the worktree's.
RecordVisualConformance(r, c, u, outcome) ==
    /\ clock < MaxReports
    /\ contracts[c] # None
    /\ clock' = clock + 1
    /\ LET ids == Compared(contracts[c].refs) IN
       reports' = [reports EXCEPT ![r] =
          [unit |-> u, contract |-> c, commit |-> head, at |-> clock + 1,
           status |-> Verdict(contracts[c], outcome),
           refs |-> IF Captured(outcome) /\ ~Ambiguous(ids) THEN ids ELSE {}]]
    /\ UNCHANGED <<artifacts, mockups, sets, contracts, bindings, head, delivered>>
    /\ UNCHANGED authVars

Current(u) == {r \in Reports : /\ reports[r] # None /\ reports[r].unit = u
                               /\ reports[r].status # "obsolete"}

\* Variant: the reports sorted the other way.
EarliestReport(u) == CHOOSE r \in Current(u) : \A q \in Current(u) : reports[q].at >= reports[r].at

LatestReport(u) == CHOOSE r \in Current(u) : \A q \in Current(u) : reports[q].at <= reports[r].at

\* What Done and G4 ask of a unit that is to conform. A report that passed covers its contract,
\* names the contract's hash, which never changes, and has two different roles.
VisuallyConform(u) ==
    (bindings[u] # None /\ bindings[u].mode \in Binding) =>
        /\ Current(u) # {}
        /\ reports[LatestReport(u)].status = "passed"
        /\ delivered[u] # None => reports[LatestReport(u)].commit = delivered[u]

\* A revised mockup: the reports whose captures were compared with the previous one are
\* obsolete, and the previous one is superseded.
ReconcileDesignRevision(previous, new) ==
    /\ Registered(previous) /\ Registered(new)
    /\ reports' = [r \in Reports |->
          IF reports[r] # None /\ previous \in reports[r].refs
          THEN [reports[r] EXCEPT !.status = "obsolete"] ELSE reports[r]]
    /\ artifacts' = [artifacts EXCEPT ![previous].status = "superseded"]
    /\ UNCHANGED <<mockups, sets, contracts, bindings, head, delivered, clock>>
    /\ UNCHANGED authVars

-----------------------------------------------------------------------------
(* What happens around the Core: files edited, commits made and delivered. *)

EditMockup(a, content) ==
    /\ mockups' = [mockups EXCEPT ![a] = content]
    /\ UNCHANGED <<artifacts, sets, contracts, bindings, reports, head, delivered, clock>>
    /\ UNCHANGED authVars

Commit(k) ==
    /\ head' = k
    /\ UNCHANGED <<artifacts, mockups, sets, contracts, bindings, reports, delivered, clock>>
    /\ UNCHANGED authVars

Deliver(u) ==
    /\ delivered' = [delivered EXCEPT ![u] = head]
    /\ UNCHANGED <<artifacts, mockups, sets, contracts, bindings, reports, head, clock>>
    /\ UNCHANGED authVars

DesignNext ==
    \/ \E a \in Artifacts, level \in Levels, auth \in Auths :
          RegisterDesignArtifact(a, level, auth)
    \/ \E a, target \in Artifacts, level \in Levels, auth \in Auths :
          SetDesignArtifactAuthority(a, target, level, auth)
    \/ \E s \in RefSets, members \in SUBSET Artifacts : CreateDesignReferenceSet(s, members)
    \/ \E c \in Contracts, m \in Modes, s \in RefSets \cup {None}, extra \in SUBSET Artifacts :
          CompileDesignContract(c, m, s, extra)
    \/ \E r \in Reports, c \in Contracts, u \in Units, outcome \in Outcomes :
          RecordVisualConformance(r, c, u, outcome)
    \/ \E previous, new \in Artifacts : ReconcileDesignRevision(previous, new)
    \/ \E a \in Artifacts, content \in Contents : EditMockup(a, content)
    \/ \E k \in Commits : Commit(k)
    \/ \E u \in Units : Deliver(u)
=============================================================================
