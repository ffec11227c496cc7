------------------------------ MODULE MCRecords ------------------------------
(***************************************************************************)
(* Small instances of the governed records: the gates over two Work Units, *)
(* the feedback of a human on one, the design one is to conform to, the    *)
(* mission of a night session, the ensemble of an instance and its         *)
(* reconciliation, the paths agents may write, and the installation of the *)
(* instance. The topic is drawn at the start; the state constraint Within  *)
(* keeps the records of the other topics out.                              *)
(***************************************************************************)
EXTENDS Mission, Reconciliation, MCInstaller, EffectiveScope, TLC

CONSTANTS
    u1, u2, a1, a2, x1, x2, v1, env, menu, other, writer,
    Topics      \* those the instance covers

VARIABLE topic

OneTarget == [a \in Artifacts |-> "screen"]
Asked == [k \in Checkpoints |-> [unit |-> u1, revision |-> v1]]
AllTargets == Gates \cup Units \cup Decisions \cup Feedbacks \cup Acceptances \cup Artifacts
              \cup GrantIds \cup {Project}

Alike == Permutations(Auths) \cup Permutations(Reports)

\* At most one token waits to be used, and it is for this.
Waiting(c, t) ==
  \A a \in Auths : auths[a] # NoAuth /\ ~auths[a].consumed =>
     /\ auths[a].command = c /\ auths[a].target = t
     /\ \A b \in Auths \ {a} : auths[b] # NoAuth => auths[b].consumed

NoDesign == /\ \A a \in Artifacts : ~Registered(a) /\ mockups[a] = 1
            /\ \A u \in Units : delivered[u] = None /\ bindings[u] = None
            /\ \A c \in Contracts : contracts[c] = None
            /\ head = x1
NoMission == (\A a \in MissionArtifacts : missions[a] = None) /\ profile.preset = "supervised_copilots"
NoGate == (\A g \in Gates : gates[g] = "none") /\ listed = {}
NoFeedback == (\A f \in Feedbacks : feedback[f] = None) /\ (\A d \in Decisions : decisions[d] = "absent")
NoOther == findings = {} /\ evidence = {} /\ acceptances = {}
Plain(u) == /\ units[u].required = {} /\ ~units[u].evidence
            /\ units[u].shown = {} /\ units[u].open = {}

\* Gates over two units, of which the second has nothing to show and is never accepted.
Gating ==
  /\ NoDesign /\ NoFeedback /\ NoOther /\ NoMission /\ Waiting("RecordGateDecision", "G4")
  /\ (\E g \in {"G0", "G2", "G3"} : gates[g] # "none") =>
       gates["G1"] = "none" /\ gates["G4"] = "none" /\ ~Exists(u2)
  /\ \A u \in Units : /\ units[u].status \in {"absent", "draft", "cancelled"}
                       /\ units[u].required \subseteq {"human_acceptance"} /\ units[u].shown = {}
                       /\ units[u].open \subseteq {"about_g4"}
  /\ units[u2].required = {} /\ units[u2].open = {} /\ ~units[u2].evidence
  /\ gates["G1"] \in {"none", "approved"}
  /\ gates["G4"] \in {"none", "accepted", "rejected", "not_required"}

\* Two checkpoints on what one human saw, two feedbacks; or a finding, a proof, an acceptance.
Answering ==
  /\ NoDesign /\ NoGate /\ NoMission /\ ~Exists(u2) /\ Waiting("RecordHumanFeedback", CHOOSE f \in Feedbacks : TRUE)
  /\ units[u1].status \in {"absent", "draft"} /\ Plain(u1)
  /\ NoOther \/ NoFeedback
  /\ \A f \in Feedbacks : feedback[f] # None => feedback[f].refers \subseteq {u1} \/ decisions[CHOOSE d \in Decisions : TRUE] = "decided"

\* One unit to conform to one mockup, delivered once or twice, verified twice.
Designing ==
  /\ NoGate /\ NoFeedback /\ NoOther /\ NoMission /\ ~Exists(u2)
  /\ Waiting("RegisterDesignArtifact", a1) \/ Waiting("SetDesignArtifactAuthority", a1)
  /\ units[u1].required = {} /\ units[u1].shown = {} /\ units[u1].open = {}
  /\ units[u1].status \in {"absent", "verification", "done"} \cup
        {"ready", "in_progress"}
  /\ units[u1].evidence => units[u1].status \in {"verification", "done"}
  /\ units[u1].status \in {"in_progress", "verification", "done"} => bindings[u1] # None
  /\ mockups[a2] = 1
  /\ Registered(a2) => artifacts[a2] = [level |-> "advisory", status |-> "active", hash |-> 1]
  /\ \A s \in RefSets : sets[s] \in {None, {a1}}
  /\ Registered(a1) => artifacts[a1].level \in {"authoritative", "advisory"}
  /\ artifacts[a1] # None => artifacts[a1].status = "active" \/ clock > 0
  /\ mockups[a1] = 1 \/ \A c \in Contracts : contracts[c] = None
  /\ delivered[u2] = None
  /\ delivered[u1] # None => units[u1].status \in {"verification", "done"}
  /\ (head = x1 \/ clock > 0) /\ (clock > 0 => bindings[u1] # None)
  /\ \A c \in Contracts : contracts[c] # None =>
        /\ Authoritative(a1) /\ contracts[c].refs = Snapshot({a1})
        /\ \A a \in Auths : auths[a] # NoAuth => auths[a].consumed
        /\ Registered(a2) /\ (contracts[c].set = None => \A s \in RefSets : sets[s] = None)
  /\ bindings[u1] # None => /\ bindings[u1].mode = "conform" /\ bindings[u1].contract # None
                            /\ bindings[u1].set = contracts[bindings[u1].contract].set

\* The envelope and two menus, of which the cheap one covers less; a grant on them and its Run.
Ceilings == [d \in Drafts |-> IF d = "cheap" THEN {} ELSE {u1}]
Coverages == [d \in Drafts |-> IF d = "cheap" THEN 50 ELSE 90]
Kinds == [m \in MissionArtifacts |-> IF m = env THEN "execution_envelope" ELSE "decision_menu"]
Asks == [p \in {"unattended_extended", "unattended_maximal", "custom", "unattended_conservative"} |->
           IF p = "unattended_conservative" THEN {"execution_envelope"}
           ELSE {"execution_envelope", "decision_menu"}]
Areas == [u \in Units |-> IF u = u1 THEN "frontend" ELSE "unknown"]

Fresh == \A g \in GrantIds : grants[g] = None
Moved(m) == \E g \in GrantIds : grants[g] # None /\ m \in grants[g].arts /\ missions[m] # grants[g].signed[m]
Preparing ==
  /\ NoDesign /\ NoGate /\ NoFeedback /\ NoOther /\ ~Exists(u2)
  /\ units[u1].status \in {"absent", "draft"} /\ Plain(u1)
  /\ profile.preset \in {"supervised_copilots", "unattended_extended"} /\ profile.revision <= 2
  /\ profile.preset # "supervised_copilots" => missions[menu] = None
  /\ \A m \in MissionArtifacts : missions[m] # None =>
        /\ missions[m].author = writer /\ Exists(u1)
        /\ missions[m].revision <= (IF m = env THEN 2 ELSE 3)
        /\ m # env => missions[env] # None /\ (Approved(env) \/ ~Fresh)
        /\ m = other => missions[menu] # None /\ (Approved(menu) \/ ~Fresh)
        /\ missions[m].content = "cheap" => m = other \/ (m = menu /\ ~Fresh)
  /\ (~Fresh => Cardinality({m \in MissionArtifacts : Moved(m)}) <= 1)
  /\ scoped # {} => missions[other] # None \/ (missions[env] # None /\ missions[menu] = None)
  /\ \A a \in Auths : auths[a] # NoAuth =>
        IF auths[a].target = Project THEN missions[env] = None ELSE scoped # {}
  /\ \A a, b \in Auths : a # b /\ auths[a] # NoAuth /\ auths[b] # NoAuth =>
        auths[a].consumed \/ auths[b].consumed
  /\ \A g \in GrantIds : grants[g] # None =>
        /\ grants[g].units = {u1} /\ grants[g].areas = {"frontend"} /\ scoped = {u1}
        /\ CASE grants[g].preset = None -> grants[g].arts = {}
             [] grants[g].preset = "unattended_conservative" -> grants[g].arts = {env}
             [] OTHER -> grants[g].preset = "unattended_extended" /\ {env, menu} \subseteq grants[g].arts

\* One ensemble of two members, of which the second may join after a composition is pinned; or
\* two ensembles, before any composition, that want the same repositories.
Joined == [m \in Members |-> IF m = "ui" THEN {"web", "site"} ELSE {"server"}]
Bound(r) == \E e \in Ensembles : \E m \in Declared(e) : RepoOf(e, m) = r
One == ensembles["back"] = Absent
Composing ==
  /\ ensembles["shop"] = Absent => ensembles["back"] = Absent
  /\ \A e \in Ensembles : \A m \in Declared(e) : RepoOf(e, m) \in Joined[m] \ (IF One THEN {"site"} ELSE {})
  /\ \A r \in Repos : links[r] # Absent => links[r].here \/ r = "site"
  /\ \A r \in Repos : heads[r] = 1 \/ (One /\ Bound(r))
  /\ ~One => links["server"] = Absent
  /\ ~One => (\A c \in Compositions : compositions["shop"][c] = Absent) /\ product = <<>>
  /\ busy # Absent => busy.kind = "member" \/ (One /\ product = <<>>)
  /\ compositions["shop"]["second"] # Absent => compositions["shop"]["first"] # Absent
  /\ One => active # Absent \/ Declared("shop") = {}
  /\ \A c \in Compositions : compositions["shop"][c] # Absent =>
        /\ "ui" \in DOMAIN compositions["shop"][c]
        /\ c = "second" => "api" \in DOMAIN compositions["shop"][c]

\* A report filled in as it should be, and two that lack something.
Filled == [status |-> "approved", refs |-> {"brief"}, decided |-> TRUE, surveyed |-> TRUE,
           item |-> [state |-> "completed", sensitive |-> TRUE, approved |-> TRUE], verified |-> TRUE]
Filings == {Filled, [Filled EXCEPT !.surveyed = FALSE], [Filled EXCEPT !.item.approved = FALSE]}

\* One ensemble of one member; its report is filled in for good before it is finalized.
Reconciling ==
  /\ One /\ product = <<>> /\ (\A c \in Compositions : compositions["shop"][c] = Absent)
  /\ Declared("shop") \subseteq {"ui"} /\ (\A r \in Repos \ {"web"} : links[r] = Absent /\ heads[r] = 1)
  /\ busy # Absent => busy.kind = "member"
  /\ \A r \in Repos : links[r] # Absent => links[r].here

\* A Work Unit of one or two directories or files; a person may exclude a part, grant all or none.
\* A directory is written with its star, and no file has the name of a directory.
Ui == <<"src", "ui">>
SrcFile == <<"src", "app">>
AgentPaths == {SrcFile, Ui \o <<"page">>, <<"src", "tests">>, Ui \o <<"tests">>, <<"tests", "t">>, <<"lib">>,
                 <<".ai-team", "runs", "r">>, <<".ai-team", "evidence", "e">>, <<"src", "target", "o">>}
OneOrTwo(S) == {x \in SUBSET S : Cardinality(x) \in 1..2}
Includes == {{}, {Tree(<<".ai-team", "runs">>)}}
            \cup OneOrTwo({Tree(<<"src">>), Tree(Ui), Tree(<<"tests">>), Exactly(SrcFile)})
Granted == {Anything, {}} \cup OneOrTwo({Tree(<<>>), Tree(<<"src">>), Tree(Ui), Tree(<<"tests">>), Tree(<<".ai-team">>)})
Allotted == [include : Includes, exclude : {{}, {Tree(Ui)}, {Exactly(SrcFile)}}, grant : Granted,
             ceiling : {Anything, {Tree(<<"src">>)}}]
Writers == [developer |-> {[symbolic |-> TRUE, names |-> <<>>]},
               tester |-> {[symbolic |-> b, names |-> <<"tests">>] : b \in BOOLEAN}]
RunsDir == {<<".ai-team", "runs">>}
EvidenceDir == {<<".ai-team", "evidence">>}

NoRecords == NoDesign /\ NoGate /\ NoFeedback /\ NoOther /\ NoMission

Within ==
  /\ \A a \in Auths : acts[a] <= 2
  /\ CASE topic = "gates" -> Gating [] topic = "feedback" -> Answering
       [] topic = "design" -> Designing [] topic = "mission" -> Preparing
       [] topic = "ensemble" -> Composing [] topic = "reconciliation" -> Reconciling
       [] OTHER -> TRUE

toolVars == <<vars, migVars, standalone>>
instanceVars == <<ensVars, recVars, scopeVars>>

RecordsInit ==
  /\ topic \in Topics
  /\ ToolsInit /\ (topic # "tools" => ~standalone /\ manifest = "none")
  /\ EnsembleInit /\ (\A r \in Repos : heads[r] = 1)
  /\ ReconciliationInit /\ (topic # "reconciliation" => sources = Sources)
  /\ ScopeInit /\ (topic # "scope" => mandate = CHOOSE m \in Mandates : TRUE)
  /\ GovernanceInit /\ MissionInit
  /\ topic \in {"tools", "ensemble", "reconciliation", "scope"} => NoRecords
GovernedStep ==
  \/ topic = "gates" /\ (UnitStep(Units, {"human_acceptance"}) \/ GateStep \/ IssueStep({"RecordGateDecision"}))
  \/ topic = "feedback" /\ (UnitStep({u1}, {}) \/ HumanStep \/ IssueStep({"RecordHumanFeedback"}))
  \/ topic = "design" /\ (UnitStep({u1}, {}) \/ DesignStep \/ IssueStep(StrictCommands))

RecordsNext ==
  /\ UNCHANGED topic
  /\ \/ GovernedStep /\ UNCHANGED <<missionVars, instanceVars, toolVars>>
     \/ topic = "mission" /\ (MissionNext \/ (CreateWorkUnit(u1, "draft", {}) /\ UNCHANGED missionVars))
                         /\ UNCHANGED <<instanceVars, toolVars>>
     \/ topic \in {"ensemble", "reconciliation"} /\ EnsembleNext /\ UNCHANGED <<records, missionVars, recVars, scopeVars, toolVars>>
     \/ topic = "reconciliation" /\ ReconciliationNext /\ UNCHANGED <<records, missionVars, scopeVars, toolVars>>
     \/ topic = "scope" /\ ScopeNext /\ UNCHANGED <<records, missionVars, ensVars, recVars, toolVars>>
     \/ topic = "tools" /\ ToolsNext /\ UNCHANGED <<records, missionVars, instanceVars>>
RecordsSpec == RecordsInit /\ [][RecordsNext]_<<records, missionVars, instanceVars, toolVars, topic>>
=============================================================================
