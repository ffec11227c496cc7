------------------------------- MODULE Mission -------------------------------
(***************************************************************************)
(* What a human approves before a night session: the mission artifacts, the *)
(* review of each by a role that did not write it, the grant that carries  *)
(* their hashes, and the Run that is opened on it (mission_artifact.py,    *)
(* unattended_readiness.py, area_filter.py and the handlers of the five     *)
(* commands). RunControl has the life of a Run from there; here is what it *)
(* rests on. The contents are abstracted to the ceilings an envelope sets  *)
(* and the coverage a menu claims.                                         *)
(***************************************************************************)
EXTENDS Governance

CONSTANTS
    Roles, MissionArtifacts, GrantIds, RunIds,
    KindOf,             \* the kind of each mission artifact
    RequiredKinds,      \* the kinds each preset asks for
    Drafts,             \* what the content of an artifact may be
    CeilingsOf,         \* the units an envelope with that content has a ceiling for
    CoverageOf,         \* the percentage of the forks a menu with that content covers
    AreaOf,             \* the area of each Work Unit
    Project,            \* what a change of the profile is about
    MaxUses,            \* maximum_uses of a grant
    MaxReviews          \* bound: reviews of one artifact, updates of the profile

Attended == {"supervised_copilots"}
Reviewed == {"unattended_extended", "unattended_maximal", "custom"}
Unattended == Reviewed \cup {"unattended_conservative"}

ASSUME MissionAssumption ==
    /\ DOMAIN RequiredKinds = Unattended /\ MaxUses \in Nat \ {0} /\ MaxReviews \in Nat
    /\ GrantIds \cup {Project} \subseteq Targets /\ DOMAIN CeilingsOf = Drafts /\ DOMAIN CoverageOf = Drafts

VARIABLES
    missions,       \* the mission artifacts
    grants,         \* the RunAuthorizationGrants
    runs,           \* the Runs opened, with the artifacts as they were then
    scoped,         \* the Work Units with a risk class and a closed scope
    profile         \* the preset of the Project Profile, and its revision

\* What is kept of each artifact on a list.
Filed(S) == UNION {[arts -> S] : arts \in SUBSET MissionArtifacts}
ArtifactRecord == [author : Roles, revision : Nat, content : Drafts,
                   challenge : {"pending", "approved", "changes_requested"}, by : Roles \cup {None}]
GrantRecord == [preset : Unattended \cup {None}, arts : SUBSET MissionArtifacts,
                envelope : MissionArtifacts \cup {None}, menu : MissionArtifacts \cup {None},
                units : SUBSET Units, areas : {None} \cup SUBSET {AreaOf[u] : u \in Units},
                uses : Nat, revision : Nat, revoked : BOOLEAN,
                hashes : Filed([revision : Nat, content : Drafts]), signed : Filed(ArtifactRecord)]
RunRecord == [grant : GrantIds, preset : Attended \cup Unattended, units : SUBSET Units,
              held : Filed(ArtifactRecord)]

ASSUME NoneAssumption == None \notin ArtifactRecord \cup GrantRecord \cup RunRecord

MissionTypeOK ==
    /\ missions \in [MissionArtifacts -> ArtifactRecord \cup {None}]
    /\ grants \in [GrantIds -> GrantRecord \cup {None}]
    /\ runs \in [RunIds -> RunRecord \cup {None}]
    /\ scoped \subseteq Units
    /\ profile \in [preset : Attended \cup Unattended, revision : Nat]

missionVars == <<missions, grants, runs, scoped, profile>>
\* Everything but the tokens, which the commands of this module consume too.
otherRecords == <<govVars, designVars>>

MissionInit ==
    /\ missions = [m \in MissionArtifacts |-> None]
    /\ grants = [g \in GrantIds |-> None]
    /\ runs = [r \in RunIds |-> None]
    /\ scoped = {}
    /\ profile \in [preset : Attended \cup Unattended, revision : {1}]

-----------------------------------------------------------------------------
(* Mission artifacts                                                       *)

\* The author is the role that issues the command, whatever the payload says.
RegisterMissionArtifact(m, role, draft) ==
    /\ missions[m] = None
    /\ missions' = [missions EXCEPT ![m] = [author |-> role, revision |-> 1, content |-> draft,
                                            challenge |-> "pending", by |-> None]]
    /\ UNCHANGED <<grants, runs, scoped, profile, otherRecords, authVars>>

\* The review, as often as a role wants, by any role but the author; it counts as a revision.
RecordMissionArtifactChallenge(m, role, outcome, expected) ==
    /\ missions[m] # None
    /\ missions[m].revision = expected
    /\ missions[m].author # role
    /\ missions' = [missions EXCEPT ![m].challenge = outcome, ![m].by = role, ![m].revision = @ + 1]
    /\ UNCHANGED <<grants, runs, scoped, profile, otherRecords, authVars>>

Approved(m) == missions[m].challenge = "approved"

\* A draft is a document that people edit, without a command.
EditMission(m, draft) ==
    /\ missions[m] # None
    /\ missions' = [missions EXCEPT ![m].content = draft]
    /\ UNCHANGED <<grants, runs, scoped, profile, otherRecords, authVars>>

\* Variant: the hash of mission_contract_hash, of the content alone.
HashOfContent(m) == [revision |-> 0, content |-> missions[m].content]

\* What compute_artifact_hash hashes and changes over time.
ArtifactHash(m) == [revision |-> missions[m].revision, content |-> missions[m].content]

-----------------------------------------------------------------------------
(* Grants                                                                  *)

Kind(arts, kind) == {m \in arts : KindOf[m] = kind}

\* The first artifact of a kind in the list of a grant, when it has one.
Firsts(arts, kind) == IF Kind(arts, kind) = {} THEN {None} ELSE Kind(arts, kind)

\* No filter, or the area of the unit is one that is listed.
EligibleArea(u, areas) == areas # None => AreaOf[u] # "unknown" /\ AreaOf[u] \in areas

\* A preset needs overrides when it is custom, and they are checked against what a policy may
\* never loosen; the other presets are policies of their own.
PolicyHolds(preset, overrides) ==
    /\ preset = "custom" => overrides # "none"
    /\ overrides # "loosening"

\* A grant for some units, on reviewed artifacts, with the ceilings of the first envelope. Only
\* a conservative one may rest on artifacts nobody reviewed. The envelope and the menu are the
\* first of their kind in its list.
IssueRunAuthorizationGrant(g, preset, overrides, arts, envelope, menu, us, areas, auth) ==
    /\ grants[g] = None
    /\ preset # "unattended_conservative" => \A m \in arts : Approved(m)
    /\ envelope # None => us \subseteq CeilingsOf[missions[envelope].content]
    /\ preset # None => PolicyHolds(preset, overrides)
    /\ areas # None => "unknown" \notin areas
    /\ \A u \in us : areas # None => Exists(u) /\ EligibleArea(u, areas)
    /\ MayAct(auth, "IssueRunAuthorizationGrant", g)
    /\ grants' = [grants EXCEPT ![g] =
          [preset |-> preset, arts |-> arts, envelope |-> envelope, menu |-> menu, units |-> us,
           areas |-> areas, uses |-> 0, revision |-> 1, revoked |-> FALSE,
           hashes |-> [m \in arts |-> ArtifactHash(m)],
           signed |-> [m \in arts |-> missions[m]]]]
    /\ Consume(auth, "IssueRunAuthorizationGrant", g)
    /\ UNCHANGED <<missions, runs, scoped, profile, otherRecords>>

RevokeRunAuthorizationGrant(g, expected, auth) ==
    /\ grants[g] # None
    /\ grants[g].revision = expected /\ ~grants[g].revoked
    /\ MayAct(auth, "RevokeRunAuthorizationGrant", g)
    /\ grants' = [grants EXCEPT ![g].revoked = TRUE, ![g].revision = @ + 1]
    /\ Consume(auth, "RevokeRunAuthorizationGrant", g)
    /\ UNCHANGED <<missions, runs, scoped, profile, otherRecords>>

\* A human changes the preset of the project, for the Runs to come.
UpdateProjectProfile(preset, expected, auth) ==
    /\ profile.revision = expected
    /\ MayAct(auth, "UpdateProjectProfile", Project)
    /\ profile' = [preset |-> preset, revision |-> expected + 1]
    /\ Consume(auth, "UpdateProjectProfile", Project)
    /\ UNCHANGED <<missions, grants, runs, scoped, otherRecords>>

-----------------------------------------------------------------------------
(* Opening a Run                                                           *)

\* The risk class and the scope of a unit, which roles write in its document.
Scope(u) ==
    /\ Exists(u) /\ u \notin scoped
    /\ scoped' = scoped \cup {u}
    /\ UNCHANGED <<missions, grants, runs, profile, otherRecords, authVars>>

Covers(g, us) ==
    /\ ~grants[g].revoked /\ grants[g].uses < MaxUses
    /\ us \subseteq grants[g].units
    /\ \A u \in us : grants[g].areas # None => Exists(u) /\ EligibleArea(u, grants[g].areas)

Threshold(preset) == IF preset \in {"unattended_maximal", "custom"} THEN 100 ELSE 80

\* The gaps of the readiness report, of which there must be none: units that are prepared and
\* have a ceiling, an artifact of each kind, reviewed if the preset wants it, a menu that covers.
UnattendedReady(preset, us, ceilings, arts, menu) ==
    /\ \A u \in us : Exists(u) /\ u \in scoped /\ u \in ceilings
    /\ \A kind \in RequiredKinds[preset] :
          /\ Kind(arts, kind) # {}
          /\ preset \in Reviewed => \E m \in Kind(arts, kind) : Approved(m)
    /\ preset # "unattended_conservative" =>
          menu # None /\ CoverageOf[missions[menu].content] >= Threshold(preset)

PresetOf(g, asked) ==
    CASE asked # None -> asked
      [] asked = None /\ grants[g].preset # None -> grants[g].preset
      [] OTHER -> profile.preset

\* An unattended Run opens on the artifacts its grant hashed, with the ceilings of the envelope.
OpenRun(r, g, asked, us, ceilings) ==
    /\ runs[r] = None /\ grants[g] # None
    /\ Covers(g, us)
    /\ LET preset == PresetOf(g, asked)
           arts == grants[g].arts
       IN /\ preset \in Unattended =>
                /\ preset = grants[g].preset
                /\ \A m \in arts : grants[g].hashes[m] = ArtifactHash(m)
                /\ grants[g].envelope # None
                /\ ceilings = CeilingsOf[missions[grants[g].envelope].content]
                /\ UnattendedReady(preset, us, ceilings, arts, grants[g].menu)
          /\ runs' = [runs EXCEPT ![r] = [grant |-> g, preset |-> preset, units |-> us,
                                          held |-> [m \in arts |-> missions[m]]]]
    /\ grants' = [grants EXCEPT ![g].uses = @ + 1]
    /\ UNCHANGED <<missions, scoped, profile, otherRecords, authVars>>

-----------------------------------------------------------------------------

ArtifactStep ==
    \/ \E m \in MissionArtifacts, role \in Roles, d \in Drafts : RegisterMissionArtifact(m, role, d)
    \/ \E m \in MissionArtifacts, role \in Roles, outcome \in {"approved", "changes_requested"},
          e \in 1..MaxReviews : RecordMissionArtifactChallenge(m, role, outcome, e)
    \/ \E m \in MissionArtifacts, d \in Drafts : EditMission(m, d)
    \/ \E u \in Units : Scope(u)

ProfileStep ==
    \E a \in Auths :
      \/ Issue(a, "UpdateProjectProfile", Project) /\ UNCHANGED <<missionVars, otherRecords>>
      \/ \E p \in Attended \cup Unattended, e \in 1..MaxReviews : UpdateProjectProfile(p, e, a)

RunStep ==
    \/ \E g \in GrantIds, a \in Auths :
          \/ \E c \in {"IssueRunAuthorizationGrant", "RevokeRunAuthorizationGrant"} :
                Issue(a, c, g) /\ UNCHANGED <<missionVars, otherRecords>>
          \/ RevokeRunAuthorizationGrant(g, 1, a)
    \/ \E g \in {h \in GrantIds : grants[h] = None}, a \in {b \in Auths : Unused(b)} :
          \E p \in Unattended \cup {None}, o \in {"none", "tightening", "loosening"},
                arts \in SUBSET {m \in MissionArtifacts : missions[m] # None},
                us \in (SUBSET Units) \ {{}},
                areas \in {None} \cup ((SUBSET {AreaOf[u] : u \in Units}) \ {{}}) :
                \E e \in Firsts(arts, "execution_envelope"), m \in Firsts(arts, "decision_menu") :
                   IssueRunAuthorizationGrant(g, p, o, arts, e, m, us, areas, a)
    \/ \E r \in RunIds, g \in GrantIds, p \in Attended \cup Unattended \cup {None},
          us \in (SUBSET Units) \ {{}}, ceilings \in SUBSET Units : OpenRun(r, g, p, us, ceilings)

MissionNext == ArtifactStep \/ ProfileStep \/ RunStep

\* The mission beside everything else that is governed.
MissionSpec ==
    /\ GovernanceInit /\ MissionInit
    /\ [][MissionNext \/ (GovernanceNext /\ UNCHANGED missionVars)]_<<records, missionVars>>

-----------------------------------------------------------------------------

\* An unattended Run rests on the very artifacts, contents and reviews the human who issued its
\* grant had; beyond the conservative preset each of them was approved, last, by a role that did
\* not write it. Nothing that happens between the grant and the Run changes that.
RunRestsOnReview ==
    \A r \in RunIds : (runs[r] # None /\ runs[r].preset \in Unattended) =>
        /\ runs[r].held = grants[runs[r].grant].signed
        /\ runs[r].preset \in Reviewed =>
              \A m \in DOMAIN runs[r].held :
                 runs[r].held[m].challenge = "approved" /\ runs[r].held[m].by # runs[r].held[m].author
=============================================================================
