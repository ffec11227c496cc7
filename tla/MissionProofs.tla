---------------------------- MODULE MissionProofs ----------------------------
(***************************************************************************)
(* Theorems about the human acts a project rests on: a token stands behind *)
(* one accepted command, whatever commands of Governance, DesignAuthority  *)
(* and Mission carry it; a Run rests on what was reviewed; a checkpoint is *)
(* answered once; a unit is done on a report that passed. The last part is *)
(* about the limits of that trust: what an agent may write under a grant. *)
(***************************************************************************)
EXTENDS Mission, EffectiveScope, TLAPS, FiniteSetTheorems, SequenceTheorems

\* An act on a token leaves the token used.
SpentInv ==
  /\ AuthTypeOK
  /\ \A a \in Auths : acts[a] = 0 \/ (acts[a] = 1 /\ auths[a] # NoAuth /\ auths[a].consumed)

\* All that a step may do to the tokens: nothing, one more token, or one unused token consumed.
TokenStep ==
  \/ UNCHANGED authVars
  \/ \E a \in Auths, c \in Commands, t \in Targets :
       Issue(a, c, t) \/ (Unused(a) /\ Consume(a, c, t))

-----------------------------------------------------------------------------
(* Tokens *)

LEMMA ActOnToken ==
  ASSUME NEW a \in Auths, NEW c \in Commands, NEW t \in Targets, MayAct(a, c, t), Consume(a, c, t)
  PROVE  TokenStep
BY DEF MayAct, TokenStep

LEMMA CommandNames ==
  /\ StrictCommands \subseteq Commands /\ Tokened \subseteq Commands
  /\ {"IssueRunAuthorizationGrant", "RevokeRunAuthorizationGrant", "UpdateProjectProfile"}
       \subseteq Commands
BY DEF StrictCommands, Tokened, Commands

LEMMA DesignTokens == ASSUME DesignNext PROVE TokenStep
<1>1. ASSUME NEW a \in Artifacts, NEW level \in Levels, NEW auth \in Auths,
             RegisterDesignArtifact(a, level, auth)
      PROVE  TokenStep
  <2>1. a \in Targets /\ "RegisterDesignArtifact" \in Commands
    BY DesignAssumption DEF Commands
  <2>2. CASE level = "authoritative"
    BY <1>1, <2>1, <2>2, ActOnToken DEF RegisterDesignArtifact
  <2>3. CASE level # "authoritative"  BY <1>1, <2>3 DEF RegisterDesignArtifact, TokenStep
  <2> QED  BY <2>2, <2>3
<1>2. ASSUME NEW a \in Artifacts, NEW target \in Artifacts, NEW level \in Levels,
             NEW auth \in Auths, SetDesignArtifactAuthority(a, target, level, auth)
      PROVE  TokenStep
  <2>1. target \in Targets /\ "SetDesignArtifactAuthority" \in Commands
    BY DesignAssumption DEF Commands
  <2> QED  BY <1>2, <2>1, ActOnToken DEF SetDesignArtifactAuthority
<1>3. ASSUME NEW s, NEW members, CreateDesignReferenceSet(s, members) PROVE TokenStep
  BY <1>3 DEF CreateDesignReferenceSet, TokenStep
<1>4. ASSUME NEW c, NEW m, NEW s, NEW extra, CompileDesignContract(c, m, s, extra) PROVE TokenStep
  BY <1>4 DEF CompileDesignContract, TokenStep
<1>5. ASSUME NEW r, NEW c, NEW u, NEW outcome, RecordVisualConformance(r, c, u, outcome)
      PROVE  TokenStep
  BY <1>5 DEF RecordVisualConformance, TokenStep
<1>6. ASSUME NEW p, NEW n, ReconcileDesignRevision(p, n) PROVE TokenStep
  BY <1>6 DEF ReconcileDesignRevision, TokenStep
<1>7. ASSUME NEW a, NEW content, EditMockup(a, content) PROVE TokenStep
  BY <1>7 DEF EditMockup, TokenStep
<1>8. ASSUME NEW k, Commit(k) \/ Deliver(k) PROVE TokenStep
  BY <1>8 DEF Commit, Deliver, TokenStep
<1> QED  BY <1>1, <1>2, <1>3, <1>4, <1>5, <1>6, <1>7, <1>8 DEF DesignNext

LEMMA GovernanceTokens == ASSUME GovernanceNext PROVE TokenStep
<1>1. CASE UnitStep(Units, Proofs)
  BY <1>1 DEF UnitStep, CreateWorkUnit, TransitionWorkUnit, RoleWrites, TokenStep
<1>2. CASE GateStep
  <2>1. Gates \subseteq Targets /\ "RecordGateDecision" \in Commands
    BY GovernanceAssumption DEF Commands
  <2>2. PICK g \in Gates, named \in SUBSET Units, auth \in Auths :
          \E s \in GateStatuses[g] : RecordGateDecision(g, s, named, auth)
    BY <1>2 DEF GateStep
  <2>3. MayAct(auth, "RecordGateDecision", g) /\ Consume(auth, "RecordGateDecision", g)
    BY <2>2 DEF RecordGateDecision
  <2> QED  BY <2>1, <2>3, ActOnToken
<1>3. CASE HumanStep
  <2>0. /\ Decisions \subseteq Targets /\ Feedbacks \subseteq Targets /\ Acceptances \subseteq Targets
        /\ {"ResolveDecisionRequest", "RecordAcceptance", "RecordHumanFeedback"} \subseteq Commands
    BY GovernanceAssumption DEF Commands
  <2>1. ASSUME NEW f, NEW u, RegisterFinding(f, u) PROVE TokenStep
    BY <2>1 DEF RegisterFinding, TokenStep
  <2>2. ASSUME NEW e, RegisterEvidence(e) \/ CreateDecisionRequest(e) PROVE TokenStep
    BY <2>2 DEF RegisterEvidence, CreateDecisionRequest, TokenStep
  <2>3. ASSUME NEW x \in Acceptances, NEW auth \in Auths, RecordAcceptance(x, auth) PROVE TokenStep
    <3>1. MayAct(auth, "RecordAcceptance", x) /\ Consume(auth, "RecordAcceptance", x)
      BY <2>3 DEF RecordAcceptance
    <3> QED  BY <2>0, <3>1, ActOnToken
  <2>4. ASSUME NEW d \in Decisions, NEW to, NEW auth \in Auths, ResolveDecisionRequest(d, to, auth)
        PROVE  TokenStep
    <3>1. MayAct(auth, "ResolveDecisionRequest", d) /\ Consume(auth, "ResolveDecisionRequest", d)
      BY <2>4 DEF ResolveDecisionRequest
    <3> QED  BY <2>0, <3>1, ActOnToken
  <2>5. ASSUME NEW f \in Feedbacks, NEW u, NEW v, NEW k, NEW auth \in Auths,
               RecordHumanFeedback(f, u, v, k, auth)
        PROVE  TokenStep
    <3>1. MayAct(auth, "RecordHumanFeedback", f) /\ Consume(auth, "RecordHumanFeedback", f)
      BY <2>5 DEF RecordHumanFeedback
    <3> QED  BY <2>0, <3>1, ActOnToken
  <2>6. ASSUME NEW f, NEW to, NEW b, NEW refs, ReconcileHumanFeedback(f, to, b, refs)
        PROVE  TokenStep
    BY <2>6 DEF ReconcileHumanFeedback, TokenStep
  <2> QED  BY <1>3, <2>1, <2>2, <2>3, <2>4, <2>5, <2>6 DEF HumanStep
<1>4. CASE DesignStep
  <2>1. ASSUME NEW u, NEW c, NEW s, NEW m, BindDesignToWorkUnit(u, c, s, m) PROVE TokenStep
    BY <2>1 DEF BindDesignToWorkUnit, Bind, TokenStep
  <2> QED  BY <1>4, <2>1, DesignTokens DEF DesignStep
<1>5. CASE IssueStep(Tokened)
  <2>1. PICK a \in Auths, c \in Tokened : \E t \in TargetsFor(c) : Issue(a, c, t)
    BY <1>5 DEF IssueStep
  <2>2. c \in Commands /\ TargetsFor(c) \subseteq Targets
    BY DesignAssumption, GovernanceAssumption, CommandNames DEF TargetsFor
  <2> QED  BY <2>1, <2>2 DEF TokenStep
<1> QED  BY <1>1, <1>2, <1>3, <1>4, <1>5 DEF GovernanceNext

LEMMA MissionTokens == ASSUME MissionNext PROVE TokenStep
<1>0. GrantIds \subseteq Targets /\ Project \in Targets  BY MissionAssumption
<1>1. CASE ArtifactStep
  BY <1>1 DEF ArtifactStep, RegisterMissionArtifact, RecordMissionArtifactChallenge, EditMission,
              Scope, TokenStep
<1>2. CASE ProfileStep
  <2>1. PICK a \in Auths :
          \/ Issue(a, "UpdateProjectProfile", Project)
          \/ \E p \in Attended \cup Unattended, e \in 1 .. MaxReviews : UpdateProjectProfile(p, e, a)
    BY <1>2 DEF ProfileStep
  <2>2. ASSUME NEW p, NEW e, UpdateProjectProfile(p, e, a) PROVE TokenStep
    <3>1. MayAct(a, "UpdateProjectProfile", Project) /\ Consume(a, "UpdateProjectProfile", Project)
      BY <2>2 DEF UpdateProjectProfile
    <3> QED  BY <1>0, <3>1, ActOnToken, CommandNames
  <2>3. CASE Issue(a, "UpdateProjectProfile", Project)
    BY <1>0, <2>3, CommandNames DEF TokenStep
  <2> QED  BY <2>1, <2>2, <2>3
<1>3. CASE RunStep
  <2>1. ASSUME NEW g \in GrantIds, NEW a \in Auths,
               NEW c \in {"IssueRunAuthorizationGrant", "RevokeRunAuthorizationGrant"}, Issue(a, c, g)
        PROVE  TokenStep
    BY <1>0, <2>1, CommandNames DEF TokenStep
  <2>2. ASSUME NEW g \in GrantIds, NEW a \in Auths, RevokeRunAuthorizationGrant(g, 1, a)
        PROVE  TokenStep
    <3>1. MayAct(a, "RevokeRunAuthorizationGrant", g) /\ Consume(a, "RevokeRunAuthorizationGrant", g)
      BY <2>2 DEF RevokeRunAuthorizationGrant
    <3> QED  BY <1>0, <3>1, ActOnToken, CommandNames
  <2>3. ASSUME NEW g \in GrantIds, NEW a \in Auths, NEW p, NEW o, NEW arts, NEW us, NEW areas,
               NEW e, NEW m, IssueRunAuthorizationGrant(g, p, o, arts, e, m, us, areas, a)
        PROVE  TokenStep
    <3>1. MayAct(a, "IssueRunAuthorizationGrant", g) /\ Consume(a, "IssueRunAuthorizationGrant", g)
      BY <2>3 DEF IssueRunAuthorizationGrant
    <3> QED  BY <1>0, <3>1, ActOnToken, CommandNames
  <2>4. ASSUME NEW r, NEW g, NEW p, NEW us, NEW ceilings, OpenRun(r, g, p, us, ceilings)
        PROVE  TokenStep
    BY <2>4 DEF OpenRun, TokenStep
  <2> QED  BY <1>3, <2>1, <2>2, <2>3, <2>4 DEF RunStep
<1> QED  BY <1>1, <1>2, <1>3 DEF MissionNext

LEMMA SpentKept == ASSUME SpentInv, TokenStep PROVE SpentInv'
<1>1. CASE UNCHANGED authVars  BY <1>1 DEF SpentInv, AuthTypeOK, authVars
<1>2. ASSUME NEW a \in Auths, NEW c \in Commands, NEW t \in Targets, Issue(a, c, t)
      PROVE  SpentInv'
  <2>1. [command |-> c, target |-> t, consumed |-> FALSE] \in Records  BY DEF Records
  <2>2. AuthTypeOK'  BY <1>2, <2>1 DEF SpentInv, AuthTypeOK, Issue
  <2>3. acts[a] = 0  BY <1>2 DEF SpentInv, Issue
  <2> QED  BY <1>2, <2>2, <2>3 DEF SpentInv, AuthTypeOK, Issue
<1>3. ASSUME NEW a \in Auths, NEW c \in Commands, NEW t \in Targets, Unused(a), Consume(a, c, t)
      PROVE  SpentInv'
  <2> DEFINE used == IF auths[a] = NoAuth
                     THEN [command |-> c, target |-> t, consumed |-> TRUE]
                     ELSE [auths[a] EXCEPT !.consumed = TRUE]
  <2>1. used \in Records /\ used.consumed
    <3>1. CASE auths[a] = NoAuth  BY <3>1 DEF Records
    <3>2. CASE auths[a] # NoAuth
      <4>1. auths[a] \in Records  BY <3>2 DEF SpentInv, AuthTypeOK
      <4> QED  BY <3>2, <4>1 DEF Records
    <3> QED  BY <3>1, <3>2
  <2>2. auths' = [auths EXCEPT ![a] = used]  BY <1>3 DEF Consume, Consumed
  <2>3. acts[a] = 0  BY <1>3 DEF SpentInv, Unused
  <2>4. acts' = [acts EXCEPT ![a] = acts[a] + 1]  BY <1>3 DEF Consume
  <2>5. used # NoAuth  BY <2>1, NoAuthAssumption
  <2> HIDE DEF used
  <2>6. AuthTypeOK'  BY <2>1, <2>2, <2>4 DEF SpentInv, AuthTypeOK
  <2>7. auths'[a] = used /\ acts'[a] = 1  BY <2>2, <2>3, <2>4 DEF SpentInv, AuthTypeOK
  <2>8. \A b \in Auths \ {a} : auths'[b] = auths[b] /\ acts'[b] = acts[b]
    BY <2>2, <2>4 DEF SpentInv, AuthTypeOK
  <2> QED  BY <2>1, <2>5, <2>6, <2>7, <2>8 DEF SpentInv
<1> QED  BY <1>1, <1>2, <1>3 DEF TokenStep

\* A token a human gave serves one accepted command, of whatever kind.
THEOREM TokensServeOnce == MissionSpec => []AuthorizationUsedOnce
<1> DEFINE Step == MissionNext \/ (GovernanceNext /\ UNCHANGED missionVars)
<1>1. GovernanceInit => SpentInv  BY DEF GovernanceInit, AuthInit, SpentInv, AuthTypeOK
<1>2. SpentInv /\ [Step]_<<records, missionVars>> => SpentInv'
  <2>1. UNCHANGED <<records, missionVars>> => TokenStep  BY DEF records, TokenStep
  <2> QED  BY <2>1, GovernanceTokens, MissionTokens, SpentKept
<1>3. SpentInv => AuthorizationUsedOnce
  <2> SUFFICES ASSUME SpentInv, NEW a \in Auths PROVE acts[a] <= 1  BY DEF AuthorizationUsedOnce
  <2>1. acts[a] = 0 \/ acts[a] = 1  BY DEF SpentInv
  <2> QED  BY <2>1
<1> QED  BY <1>1, <1>2, <1>3, PTL DEF MissionSpec

-----------------------------------------------------------------------------
(* What a Run rests on *)

\* The last approval of an artifact is by a role that did not write it.
ReviewInv ==
  \A m \in MissionArtifacts : missions[m] # None /\ Approved(m) =>
    missions[m].by # missions[m].author

\* An artifact that was signed is still there. While its revision is the one that was
\* signed, its author and its review are too; its content may have been edited.
StillSigned(m, x) ==
  /\ missions[m] # None
  /\ x.revision <= missions[m].revision
  /\ x.revision = missions[m].revision =>
       /\ missions[m].author = x.author /\ missions[m].by = x.by
       /\ missions[m].challenge = x.challenge

SignedInv ==
  \A g \in GrantIds : grants[g] # None =>
    /\ grants[g].signed \in [grants[g].arts -> ArtifactRecord]
    /\ \A m \in grants[g].arts :
         /\ StillSigned(m, grants[g].signed[m])
         /\ grants[g].hashes[m] = [revision |-> grants[g].signed[m].revision,
                                   content |-> grants[g].signed[m].content]
         /\ grants[g].preset \in Reviewed =>
              /\ grants[g].signed[m].challenge = "approved"
              /\ grants[g].signed[m].by # grants[g].signed[m].author

\* A Run names a grant, and an unattended one holds what the grant's issuer signed.
HeldInv ==
  \A r \in RunIds : runs[r] # None =>
    /\ grants[runs[r].grant] # None
    /\ runs[r].preset \in Unattended =>
         /\ runs[r].preset = grants[runs[r].grant].preset
         /\ runs[r].held = grants[runs[r].grant].signed

RInv == MissionTypeOK /\ ReviewInv /\ SignedInv /\ HeldInv

LEMMA FiledType ==
  ASSUME NEW S, NEW arts \in SUBSET MissionArtifacts, NEW f \in [arts -> S]
  PROVE  f \in Filed(S)
BY DEF Filed

\* A record is written over an artifact: a later revision, or the same one under the same review.
LEMMA ArtifactWritten ==
  ASSUME RInv, NEW m \in MissionArtifacts, NEW x \in ArtifactRecord,
         missions' = [missions EXCEPT ![m] = x],
         UNCHANGED <<grants, runs, scoped, profile>>,
         x.challenge = "approved" => x.by # x.author,
         missions[m] # None =>
           \/ x.revision > missions[m].revision
           \/ /\ x.revision = missions[m].revision /\ x.author = missions[m].author
              /\ x.by = missions[m].by /\ x.challenge = missions[m].challenge
  PROVE  RInv'
<1>0. /\ missions' \in [MissionArtifacts -> ArtifactRecord \cup {None}]
      /\ missions'[m] = x /\ x # None
      /\ \A n \in MissionArtifacts \ {m} : missions'[n] = missions[n]
  BY NoneAssumption DEF RInv, MissionTypeOK
<1>1. MissionTypeOK'  BY <1>0 DEF RInv, MissionTypeOK
<1>2. ReviewInv'  BY <1>0 DEF RInv, ReviewInv, Approved
<1>3. SignedInv'
  <2> SUFFICES ASSUME NEW g \in GrantIds, grants[g] # None, NEW n \in grants[g].arts
               PROVE  StillSigned(n, grants[g].signed[n])'
    BY DEF RInv, SignedInv
  <2>1. StillSigned(n, grants[g].signed[n])  BY DEF RInv, SignedInv
  <2>2. n \in MissionArtifacts  BY DEF RInv, MissionTypeOK, GrantRecord
  <2>3. grants[g].signed[n] \in ArtifactRecord  BY DEF RInv, SignedInv
  <2>4. CASE n # m  BY <1>0, <2>1, <2>2, <2>4 DEF StillSigned
  <2>5. CASE n = m
    <3>1. missions[m] \in ArtifactRecord  BY <2>1, <2>5 DEF RInv, MissionTypeOK, StillSigned
    <3>2. /\ grants[g].signed[m].revision \in Nat /\ missions[m].revision \in Nat
          /\ x.revision \in Nat
      BY <2>3, <2>5, <3>1 DEF ArtifactRecord
    <3> QED  BY <1>0, <2>1, <2>5, <3>1, <3>2, NoneAssumption DEF StillSigned
  <2> QED  BY <2>4, <2>5
<1>4. HeldInv'  BY DEF RInv, HeldInv
<1> QED  BY <1>1, <1>2, <1>3, <1>4 DEF RInv

LEMMA ArtifactSteps == ASSUME RInv, ArtifactStep PROVE RInv'
<1>1. ASSUME NEW m \in MissionArtifacts, NEW role \in Roles, NEW d \in Drafts,
             RegisterMissionArtifact(m, role, d)
      PROVE  RInv'
  <2> DEFINE x == [author |-> role, revision |-> 1, content |-> d, challenge |-> "pending",
                   by |-> None]
  <2>1. x \in ArtifactRecord  BY DEF ArtifactRecord
  <2>2. missions' = [missions EXCEPT ![m] = x] /\ missions[m] = None
        /\ UNCHANGED <<grants, runs, scoped, profile>>
    BY <1>1 DEF RegisterMissionArtifact
  <2> QED  BY <2>1, <2>2, ArtifactWritten
<1>2. ASSUME NEW m \in MissionArtifacts, NEW role \in Roles,
             NEW outcome \in {"approved", "changes_requested"}, NEW e,
             RecordMissionArtifactChallenge(m, role, outcome, e)
      PROVE  RInv'
  <2> DEFINE x == [missions[m] EXCEPT !.challenge = outcome, !.by = role,
                                      !.revision = missions[m].revision + 1]
  <2>1. missions[m] \in ArtifactRecord /\ missions[m].author # role
    BY <1>2 DEF RecordMissionArtifactChallenge, RInv, MissionTypeOK
  <2>2. missions[m].revision \in Nat  BY <2>1 DEF ArtifactRecord
  <2>3. x \in ArtifactRecord /\ x.revision > missions[m].revision /\ x.by # x.author
    <3>1. missions[m].revision + 1 \in Nat /\ missions[m].revision + 1 > missions[m].revision
      BY <2>2
    <3>2. /\ x.revision = missions[m].revision + 1 /\ x.by = role
          /\ x.author = missions[m].author
      BY <2>1 DEF ArtifactRecord
    <3>3. x \in ArtifactRecord  BY <2>1, <3>1 DEF ArtifactRecord
    <3> QED  BY <2>1, <3>1, <3>2, <3>3
  <2>4. missions' = [missions EXCEPT ![m] = x] /\ UNCHANGED <<grants, runs, scoped, profile>>
    BY <1>2 DEF RecordMissionArtifactChallenge
  <2> HIDE DEF x
  <2> QED  BY <2>3, <2>4, ArtifactWritten
<1>3. ASSUME NEW m \in MissionArtifacts, NEW d \in Drafts, EditMission(m, d) PROVE RInv'
  <2> DEFINE x == [missions[m] EXCEPT !.content = d]
  <2>1. missions[m] \in ArtifactRecord  BY <1>3 DEF EditMission, RInv, MissionTypeOK
  <2>2. /\ x \in ArtifactRecord /\ x.revision = missions[m].revision
        /\ x.author = missions[m].author /\ x.by = missions[m].by
        /\ x.challenge = missions[m].challenge
    BY <2>1 DEF ArtifactRecord
  <2>3. x.challenge = "approved" => x.by # x.author
    BY <1>3, <2>2 DEF EditMission, RInv, ReviewInv, Approved
  <2>4. missions' = [missions EXCEPT ![m] = x] /\ UNCHANGED <<grants, runs, scoped, profile>>
    BY <1>3 DEF EditMission
  <2> HIDE DEF x
  <2> QED  BY <2>2, <2>3, <2>4, ArtifactWritten
<1>4. ASSUME NEW u \in Units, Scope(u) PROVE RInv'
  <2>1. UNCHANGED <<missions, grants, runs, profile>> /\ scoped' = scoped \cup {u}
    BY <1>4 DEF Scope
  <2>2. MissionTypeOK'  BY <2>1 DEF RInv, MissionTypeOK
  <2>3. ReviewInv' /\ HeldInv'  BY <2>1 DEF RInv, ReviewInv, Approved, HeldInv
  <2>4. SignedInv'  BY <2>1 DEF RInv, SignedInv, StillSigned
  <2> QED  BY <2>2, <2>3, <2>4 DEF RInv
<1> QED  BY <1>1, <1>2, <1>3, <1>4 DEF ArtifactStep

\* A grant is written over, but what it says of its artifacts stays.
LEMMA GrantWritten ==
  ASSUME RInv, NEW g \in GrantIds, grants[g] # None, NEW x \in GrantRecord,
         grants' = [grants EXCEPT ![g] = x], UNCHANGED missions,
         x.preset = grants[g].preset, x.arts = grants[g].arts,
         x.hashes = grants[g].hashes, x.signed = grants[g].signed
  PROVE  /\ grants' \in [GrantIds -> GrantRecord \cup {None}]
         /\ ReviewInv' /\ SignedInv'
         /\ \A h \in GrantIds : grants[h] # None =>
              /\ grants'[h] # None /\ grants'[h].preset = grants[h].preset
              /\ grants'[h].signed = grants[h].signed
<1>1. grants' \in [GrantIds -> GrantRecord \cup {None}]  BY DEF RInv, MissionTypeOK
<1>2. /\ grants'[g] = x /\ x # None
      /\ \A h \in GrantIds \ {g} : grants'[h] = grants[h]
  BY NoneAssumption DEF RInv, MissionTypeOK
<1>3. ReviewInv'  BY DEF RInv, ReviewInv, Approved
<1>4. SignedInv'
  <2> SUFFICES ASSUME NEW h \in GrantIds, grants'[h] # None
               PROVE  /\ grants'[h].signed \in [grants'[h].arts -> ArtifactRecord]
                      /\ \A m \in grants'[h].arts :
                           /\ StillSigned(m, grants[h].signed[m])'
                           /\ grants'[h].hashes[m] = [revision |-> grants'[h].signed[m].revision,
                                                      content |-> grants'[h].signed[m].content]
                           /\ grants'[h].preset \in Reviewed =>
                                /\ grants'[h].signed[m].challenge = "approved"
                                /\ grants'[h].signed[m].by # grants'[h].signed[m].author
    BY DEF SignedInv
  <2>1. /\ grants[h] # None
        /\ grants'[h].signed = grants[h].signed /\ grants'[h].arts = grants[h].arts
        /\ grants'[h].hashes = grants[h].hashes /\ grants'[h].preset = grants[h].preset
    BY <1>2
  <2>2. /\ grants[h].signed \in [grants[h].arts -> ArtifactRecord]
        /\ \A m \in grants[h].arts :
             /\ StillSigned(m, grants[h].signed[m])
             /\ grants[h].hashes[m] = [revision |-> grants[h].signed[m].revision,
                                       content |-> grants[h].signed[m].content]
             /\ grants[h].preset \in Reviewed =>
                  /\ grants[h].signed[m].challenge = "approved"
                  /\ grants[h].signed[m].by # grants[h].signed[m].author
    BY <2>1 DEF RInv, SignedInv
  <2>3. \A m \in grants[h].arts : StillSigned(m, grants[h].signed[m])'
    <3> TAKE m \in grants[h].arts
    <3>1. StillSigned(m, grants[h].signed[m])  BY <2>2
    <3> QED  BY <2>1, <3>1 DEF StillSigned
  <2> QED  BY <2>1, <2>2, <2>3
<1> QED  BY <1>1, <1>2, <1>3, <1>4

LEMMA GrantIssued ==
  ASSUME RInv, NEW g \in GrantIds, NEW a \in Auths, NEW p \in Unattended \cup {None}, NEW o,
         NEW arts \in SUBSET {m \in MissionArtifacts : missions[m] # None},
         NEW us \in SUBSET Units, NEW areas \in {None} \cup SUBSET {AreaOf[u] : u \in Units},
         NEW e \in MissionArtifacts \cup {None}, NEW n \in MissionArtifacts \cup {None},
         IssueRunAuthorizationGrant(g, p, o, arts, e, n, us, areas, a)
  PROVE  RInv'
<1> DEFINE hashes == [m \in arts |-> ArtifactHash(m)]
           signed == [m \in arts |-> missions[m]]
           x == [preset |-> p, arts |-> arts, envelope |-> e, menu |-> n, units |-> us,
                 areas |-> areas, uses |-> 0, revision |-> 1, revoked |-> FALSE,
                 hashes |-> hashes, signed |-> signed]
<1>1. /\ grants[g] = None /\ grants' = [grants EXCEPT ![g] = x]
      /\ UNCHANGED <<missions, runs, scoped, profile>>
      /\ p # "unattended_conservative" => \A m \in arts : Approved(m)
  BY DEF IssueRunAuthorizationGrant
<1>2. \A m \in arts : missions[m] \in ArtifactRecord /\ missions[m] # None
                       /\ ArtifactHash(m) \in [revision : Nat, content : Drafts]
  BY DEF RInv, MissionTypeOK, ArtifactHash, ArtifactRecord
<1>3. signed \in [arts -> ArtifactRecord]  BY <1>2
<1>4. x \in GrantRecord
  <2>1. hashes \in Filed([revision : Nat, content : Drafts])  BY <1>2, FiledType
  <2>2. signed \in Filed(ArtifactRecord)  BY <1>3, FiledType
  <2> HIDE DEF hashes, signed
  <2> QED  BY <2>1, <2>2 DEF GrantRecord
<1>5. /\ x # None /\ grants'[g] = x /\ \A h \in GrantIds \ {g} : grants'[h] = grants[h]
      /\ grants' \in [GrantIds -> GrantRecord \cup {None}]
  <2> HIDE DEF x
  <2> QED  BY <1>1, <1>4, NoneAssumption DEF RInv, MissionTypeOK
<1>6. MissionTypeOK'  BY <1>1, <1>5 DEF RInv, MissionTypeOK
<1>7. ReviewInv'  BY <1>1 DEF RInv, ReviewInv, Approved
<1>8. SignedInv'
  <2>1. ASSUME NEW m \in arts
        PROVE  /\ StillSigned(m, signed[m])'
               /\ hashes[m] = [revision |-> signed[m].revision, content |-> signed[m].content]
               /\ p \in Reviewed => signed[m].challenge = "approved" /\ signed[m].by # signed[m].author
    <3>1. signed[m] = missions[m] /\ signed'[m] = missions[m]  BY <1>1
    <3>2. missions[m].revision \in Nat  BY <1>2 DEF ArtifactRecord
    <3>3. StillSigned(m, signed[m])'  BY <1>1, <1>2, <3>1, <3>2 DEF StillSigned
    <3>4. hashes[m] = [revision |-> signed[m].revision, content |-> signed[m].content]
      BY <3>1 DEF ArtifactHash
    <3>5. p \in Reviewed => signed[m].challenge = "approved" /\ signed[m].by # signed[m].author
      BY <1>1, <1>2, <3>1 DEF RInv, ReviewInv, Approved, Reviewed
    <3> QED  BY <3>3, <3>4, <3>5
  <2>2. /\ x.arts = arts /\ x.signed = signed /\ x.hashes = hashes /\ x.preset = p
        /\ signed' = signed
    BY <1>1
  <2>3. UNCHANGED missions  BY <1>1
  <2> HIDE DEF x, hashes, signed
  <2>4. ASSUME NEW h \in GrantIds \ {g}, grants'[h] # None PROVE grants[h] # None /\ grants'[h] = grants[h]
    BY <1>5, <2>4
  <2> SUFFICES ASSUME NEW h \in GrantIds, grants'[h] # None
               PROVE  /\ grants'[h].signed \in [grants'[h].arts -> ArtifactRecord]
                      /\ \A m \in grants'[h].arts :
                           /\ StillSigned(m, grants[h].signed[m])'
                           /\ grants'[h].hashes[m] = [revision |-> grants'[h].signed[m].revision,
                                                      content |-> grants'[h].signed[m].content]
                           /\ grants'[h].preset \in Reviewed =>
                                /\ grants'[h].signed[m].challenge = "approved"
                                /\ grants'[h].signed[m].by # grants'[h].signed[m].author
    BY DEF SignedInv
  <2>5. CASE h = g
    <3>1. /\ grants'[h].signed = signed /\ grants'[h].arts = arts /\ grants'[h].hashes = hashes
          /\ grants'[h].preset = p
      BY <1>5, <2>2, <2>5
    <3> QED  BY <1>3, <2>1, <2>2, <3>1 DEF StillSigned
  <2>6. CASE h # g
    <3>1. grants[h] # None /\ grants'[h] = grants[h]  BY <2>4, <2>6
    <3> QED  BY <2>3, <3>1 DEF RInv, SignedInv, StillSigned
  <2> QED  BY <2>5, <2>6
<1>9. HeldInv'  BY <1>1, <1>5 DEF RInv, MissionTypeOK, RunRecord, HeldInv
<1> QED  BY <1>6, <1>7, <1>8, <1>9 DEF RInv

\* The preset a Run opens with is one of the profile's.
LEMMA PresetType ==
  ASSUME MissionTypeOK, NEW g \in GrantIds, grants[g] # None,
         NEW asked \in Attended \cup Unattended \cup {None}
  PROVE  PresetOf(g, asked) \in Attended \cup Unattended
<1>1. grants[g].preset \in Unattended \cup {None} /\ profile.preset \in Attended \cup Unattended
  BY DEF MissionTypeOK, GrantRecord
<1> QED  BY <1>1 DEF PresetOf

LEMMA RunOpened ==
  ASSUME RInv, NEW r \in RunIds, NEW g \in GrantIds,
         NEW asked \in Attended \cup Unattended \cup {None}, NEW us \in SUBSET Units, NEW ceilings,
         OpenRun(r, g, asked, us, ceilings)
  PROVE  RInv'
<1> DEFINE preset == PresetOf(g, asked)
           arts == grants[g].arts
           held == [m \in arts |-> missions[m]]
           new == [grant |-> g, preset |-> preset, units |-> us, held |-> held]
           x == [grants[g] EXCEPT !.uses = grants[g].uses + 1]
<1>1. /\ runs[r] = None /\ grants[g] # None
      /\ runs' = [runs EXCEPT ![r] = new] /\ grants' = [grants EXCEPT ![g] = x]
      /\ UNCHANGED <<missions, scoped, profile>>
  BY DEF OpenRun
<1>2. preset \in Unattended =>
        preset = grants[g].preset /\ \A m \in arts : grants[g].hashes[m] = ArtifactHash(m)
  BY DEF OpenRun
<1>3. grants[g] \in GrantRecord  BY <1>1 DEF RInv, MissionTypeOK
<1>4. x \in GrantRecord /\ x.preset = grants[g].preset /\ x.arts = grants[g].arts
      /\ x.hashes = grants[g].hashes /\ x.signed = grants[g].signed
  BY <1>3 DEF GrantRecord
<1>5. /\ grants' \in [GrantIds -> GrantRecord \cup {None}] /\ ReviewInv' /\ SignedInv'
      /\ \A h \in GrantIds : grants[h] # None =>
           /\ grants'[h] # None /\ grants'[h].preset = grants[h].preset
           /\ grants'[h].signed = grants[h].signed
  <2> HIDE DEF x
  <2> QED  BY <1>1, <1>4, GrantWritten
<1>6. arts \in SUBSET MissionArtifacts /\ \A m \in arts : missions[m] \in ArtifactRecord
  <2>1. arts \in SUBSET MissionArtifacts  BY <1>3 DEF GrantRecord
  <2>2. \A m \in arts : missions[m] # None  BY <1>1 DEF RInv, SignedInv, StillSigned
  <2> QED  BY <2>1, <2>2 DEF RInv, MissionTypeOK
<1>7. new \in RunRecord
  <2>1. held \in Filed(ArtifactRecord)  BY <1>6, FiledType
  <2>2. preset \in Attended \cup Unattended  BY <1>1, PresetType DEF RInv
  <2> HIDE DEF held, preset
  <2> QED  BY <2>1, <2>2 DEF RunRecord
<1>8. preset \in Unattended => held = grants[g].signed
  <2> SUFFICES ASSUME preset \in Unattended PROVE held = grants[g].signed  OBVIOUS
  <2>1. grants[g].signed \in [arts -> ArtifactRecord]  BY <1>1 DEF RInv, SignedInv
  <2>2. ASSUME NEW m \in arts PROVE missions[m] = grants[g].signed[m]
    <3> DEFINE y == grants[g].signed[m]
    <3>1. y \in ArtifactRecord /\ missions[m] \in ArtifactRecord  BY <1>6, <2>1
    <3>2. /\ StillSigned(m, y)
          /\ grants[g].hashes[m] = [revision |-> y.revision, content |-> y.content]
      BY <1>1 DEF RInv, SignedInv
    <3>3. grants[g].hashes[m] = [revision |-> missions[m].revision, content |-> missions[m].content]
      BY <1>2 DEF ArtifactHash
    <3>4. y.revision = missions[m].revision /\ y.content = missions[m].content
      <4> HIDE DEF y
      <4> QED  BY <3>2, <3>3
    <3>5. y.author = missions[m].author /\ y.by = missions[m].by /\ y.challenge = missions[m].challenge
      BY <3>2, <3>4 DEF StillSigned
    <3> HIDE DEF y
    <3>6. y = missions[m]  BY <3>1, <3>4, <3>5 DEF ArtifactRecord
    <3> QED  BY <3>6 DEF y
  <2> QED  BY <2>1, <2>2
<1>9. MissionTypeOK'
  <2> HIDE DEF new, x
  <2> QED  BY <1>1, <1>5, <1>7 DEF RInv, MissionTypeOK
<1>10. HeldInv'
  <2>1. new.grant = g /\ new.preset = preset /\ new.held = held  OBVIOUS
  <2> HIDE DEF new, x, held, preset
  <2>2. runs'[r] = new /\ \A q \in RunIds \ {r} : runs'[q] = runs[q]
    BY <1>1 DEF RInv, MissionTypeOK
  <2> SUFFICES ASSUME NEW q \in RunIds, runs'[q] # None
               PROVE  /\ grants'[runs'[q].grant] # None
                      /\ runs'[q].preset \in Unattended =>
                           /\ runs'[q].preset = grants'[runs'[q].grant].preset
                           /\ runs'[q].held = grants'[runs'[q].grant].signed
    BY DEF HeldInv
  <2>3. CASE q = r  BY <1>1, <1>2, <1>5, <1>8, <2>1, <2>2, <2>3
  <2>4. CASE q # r
    <3>1. runs'[q] = runs[q] /\ runs[q] \in RunRecord  BY <2>2, <2>4 DEF RInv, MissionTypeOK
    <3>2. runs[q].grant \in GrantIds  BY <3>1 DEF RunRecord
    <3> QED  BY <1>5, <3>1, <3>2 DEF RInv, HeldInv
  <2> QED  BY <2>3, <2>4
<1> QED  BY <1>5, <1>9, <1>10 DEF RInv

LEMMA GrantRevoked ==
  ASSUME RInv, NEW g \in GrantIds, NEW e, NEW a, RevokeRunAuthorizationGrant(g, e, a)
  PROVE  RInv'
<1> DEFINE x == [grants[g] EXCEPT !.revoked = TRUE, !.revision = grants[g].revision + 1]
<1>1. /\ grants[g] # None /\ grants' = [grants EXCEPT ![g] = x]
      /\ UNCHANGED <<missions, runs, scoped, profile>>
  BY DEF RevokeRunAuthorizationGrant
<1>2. grants[g] \in GrantRecord  BY <1>1 DEF RInv, MissionTypeOK
<1>3. grants[g].revision + 1 \in Nat  BY <1>2 DEF GrantRecord
<1>4. x \in GrantRecord /\ x.preset = grants[g].preset /\ x.arts = grants[g].arts
      /\ x.hashes = grants[g].hashes /\ x.signed = grants[g].signed
  BY <1>2, <1>3 DEF GrantRecord
<1> HIDE DEF x
<1>5. /\ grants' \in [GrantIds -> GrantRecord \cup {None}] /\ ReviewInv' /\ SignedInv'
      /\ \A h \in GrantIds : grants[h] # None =>
           /\ grants'[h] # None /\ grants'[h].preset = grants[h].preset
           /\ grants'[h].signed = grants[h].signed
  BY <1>1, <1>4, GrantWritten
<1>6. MissionTypeOK'  BY <1>1, <1>5 DEF RInv, MissionTypeOK
<1>7. HeldInv'  BY <1>1, <1>5 DEF RInv, MissionTypeOK, RunRecord, HeldInv
<1> QED  BY <1>5, <1>6, <1>7 DEF RInv

LEMMA RecordsKept ==
  ASSUME RInv, UNCHANGED <<missions, grants, runs, scoped>>,
         profile' \in [preset : Attended \cup Unattended, revision : Nat]
  PROVE  RInv'
<1>1. MissionTypeOK'  BY DEF RInv, MissionTypeOK
<1>2. ReviewInv' /\ HeldInv'  BY DEF RInv, ReviewInv, Approved, HeldInv
<1>3. SignedInv'  BY DEF RInv, SignedInv, StillSigned
<1> QED  BY <1>1, <1>2, <1>3 DEF RInv

LEMMA ReviewStep == ASSUME RInv, MissionNext PROVE RInv'
<1>0. profile \in [preset : Attended \cup Unattended, revision : Nat]
  BY DEF RInv, MissionTypeOK
<1>1. CASE ProfileStep
  <2>1. ASSUME NEW a \in Auths, NEW p \in Attended \cup Unattended, NEW e \in 1 .. MaxReviews,
               UpdateProjectProfile(p, e, a)
        PROVE  RInv'
    <3>1. e + 1 \in Nat  BY MissionAssumption
    <3> QED  BY <2>1, <3>1, RecordsKept DEF UpdateProjectProfile
  <2>2. ASSUME UNCHANGED <<missionVars, otherRecords>> PROVE RInv'
    BY <1>0, <2>2, RecordsKept DEF missionVars
  <2> QED  BY <1>1, <2>1, <2>2 DEF ProfileStep
<1>2. CASE RunStep
  <2>1. ASSUME UNCHANGED <<missionVars, otherRecords>> PROVE RInv'
    BY <1>0, <2>1, RecordsKept DEF missionVars
  <2>2. ASSUME NEW g \in GrantIds, NEW a \in Auths, NEW p \in Unattended \cup {None}, NEW o,
               NEW arts \in SUBSET {m \in MissionArtifacts : missions[m] # None},
               NEW us \in (SUBSET Units) \ {{}},
               NEW areas \in {None} \cup ((SUBSET {AreaOf[u] : u \in Units}) \ {{}}),
               NEW e \in Firsts(arts, "execution_envelope"), NEW n \in Firsts(arts, "decision_menu"),
               IssueRunAuthorizationGrant(g, p, o, arts, e, n, us, areas, a)
        PROVE  RInv'
    <3>1. e \in MissionArtifacts \cup {None} /\ n \in MissionArtifacts \cup {None}
      BY DEF Firsts, Kind
    <3>2. us \in SUBSET Units /\ areas \in {None} \cup SUBSET {AreaOf[u] : u \in Units}
      OBVIOUS
    <3> QED  BY <2>2, <3>1, <3>2, GrantIssued
  <2>3. ASSUME NEW r \in RunIds, NEW g \in GrantIds, NEW p \in Attended \cup Unattended \cup {None},
               NEW us \in (SUBSET Units) \ {{}}, NEW ceilings \in SUBSET Units,
               OpenRun(r, g, p, us, ceilings)
        PROVE  RInv'
    BY <2>3, RunOpened
  <2> QED  BY <1>2, <2>1, <2>2, <2>3, GrantRevoked DEF RunStep
<1> QED  BY <1>1, <1>2, ArtifactSteps DEF MissionNext

\* An unattended Run holds the very artifacts, contents and reviews the issuer of its grant
\* had, and beyond the conservative preset each of them was last approved by a role that
\* did not write it, whatever is edited, reviewed again, revoked or reissued in between.
THEOREM RunsRestOnReviews == MissionSpec => []RunRestsOnReview
<1> DEFINE Step == MissionNext \/ (GovernanceNext /\ UNCHANGED missionVars)
<1>1. MissionInit => RInv
  BY DEF MissionInit, RInv, MissionTypeOK, ReviewInv, SignedInv, HeldInv
<1>2. RInv /\ [Step]_<<records, missionVars>> => RInv'
  <2> SUFFICES ASSUME RInv, [Step]_<<records, missionVars>> PROVE RInv'  OBVIOUS
  <2>1. ASSUME UNCHANGED missionVars PROVE RInv'
    BY <2>1, RecordsKept DEF missionVars, RInv, MissionTypeOK
  <2> QED  BY <2>1, ReviewStep
<1>3. RInv => RunRestsOnReview
  <2> SUFFICES ASSUME RInv, NEW r \in RunIds, runs[r] # None, runs[r].preset \in Unattended
               PROVE  /\ runs[r].held = grants[runs[r].grant].signed
                      /\ runs[r].preset \in Reviewed =>
                           \A m \in DOMAIN runs[r].held :
                             /\ runs[r].held[m].challenge = "approved"
                             /\ runs[r].held[m].by # runs[r].held[m].author
    BY DEF RunRestsOnReview
  <2> DEFINE g == runs[r].grant
  <2>1. g \in GrantIds  BY DEF RInv, MissionTypeOK, RunRecord
  <2>2. /\ grants[g] # None /\ runs[r].preset = grants[g].preset
        /\ runs[r].held = grants[g].signed
    BY DEF RInv, HeldInv
  <2>3. DOMAIN grants[g].signed = grants[g].arts  BY <2>1, <2>2 DEF RInv, SignedInv
  <2>4. grants[g].preset \in Reviewed =>
          \A m \in grants[g].arts : /\ grants[g].signed[m].challenge = "approved"
                                    /\ grants[g].signed[m].by # grants[g].signed[m].author
    BY <2>1, <2>2 DEF RInv, SignedInv
  <2> HIDE DEF g
  <2>5. runs[r].held = grants[g].signed /\ runs[r].preset = grants[g].preset  BY <2>2
  <2>6. runs[r].preset \in Reviewed =>
          \A m \in DOMAIN runs[r].held : /\ runs[r].held[m].challenge = "approved"
                                         /\ runs[r].held[m].by # runs[r].held[m].author
    BY <2>3, <2>4, <2>5
  <2> QED  BY <2>5, <2>6 DEF g
<1> QED  BY <1>1, <1>2, <1>3, PTL DEF MissionSpec

-----------------------------------------------------------------------------
(* What a human answers, and what a Work Unit is done on *)

\* A checkpoint is closed by the feedback that names it, and by no other.
AnswerInv ==
  /\ \A k \in Checkpoints : checkpoints[k].status = "closed" =>
       LET f == checkpoints[k].feedback IN
       /\ f \in Feedbacks /\ feedback[f] # None /\ feedback[f].checkpoint = k
       /\ CheckpointOf[k] = [unit |-> feedback[f].unit, revision |-> feedback[f].revision]
  /\ \A f \in Feedbacks : feedback[f] # None /\ feedback[f].checkpoint # None =>
       checkpoints[feedback[f].checkpoint] = [status |-> "closed", feedback |-> f]

GInv == GovernanceTypeOK /\ ReportsTypeOK /\ AnswerInv

LEMMA AnswersKept ==
  ASSUME GInv, checkpoints' = checkpoints, feedback' = feedback
  PROVE  AnswerInv'
BY DEF GInv, AnswerInv

\* A report that is superseded is changed in its status only.
LEMMA ReportsStep == ASSUME ReportsTypeOK, DesignNext PROVE ReportsTypeOK'
<1> USE DEF ReportsTypeOK
<1>1. ASSUME NEW a, NEW level, NEW auth, RegisterDesignArtifact(a, level, auth) PROVE ReportsTypeOK'
  BY <1>1 DEF RegisterDesignArtifact
<1>2. ASSUME NEW a, NEW t, NEW level, NEW auth, SetDesignArtifactAuthority(a, t, level, auth)
      PROVE  ReportsTypeOK'
  BY <1>2 DEF SetDesignArtifactAuthority
<1>3. ASSUME NEW s, NEW members, CreateDesignReferenceSet(s, members) PROVE ReportsTypeOK'
  BY <1>3 DEF CreateDesignReferenceSet
<1>4. ASSUME NEW c, NEW m, NEW s, NEW extra, CompileDesignContract(c, m, s, extra)
      PROVE  ReportsTypeOK'
  BY <1>4 DEF CompileDesignContract
<1>5. ASSUME NEW r \in Reports, NEW c \in Contracts, NEW u \in Units, NEW outcome,
             RecordVisualConformance(r, c, u, outcome)
      PROVE  ReportsTypeOK'
  <2> DEFINE ids == Compared(contracts[c].refs)
             x == [unit |-> u, contract |-> c, commit |-> head, at |-> clock + 1,
                   status |-> Verdict(contracts[c], outcome),
                   refs |-> IF Captured(outcome) /\ ~Ambiguous(ids) THEN ids ELSE {}]
  <2>1. ids \subseteq Artifacts  BY DesignAssumption DEF Compared
  <2>2. Verdict(contracts[c], outcome) \in {"passed", "failed", "unverifiable"}  BY DEF Verdict
  <2>3. clock + 1 \in 1 .. MaxReports /\ clock' = clock + 1 /\ head' = head
    BY <1>5, DesignAssumption DEF RecordVisualConformance
  <2>4. reports' = [reports EXCEPT ![r] = x]  BY <1>5 DEF RecordVisualConformance
  <2> HIDE DEF ids
  <2>5. x \in ReportRecord  BY <2>1, <2>2, <2>3 DEF ReportRecord
  <2> HIDE DEF x
  <2> QED  BY <2>3, <2>4, <2>5
<1>6. ASSUME NEW p, NEW n, ReconcileDesignRevision(p, n) PROVE ReportsTypeOK'
  <2>1. /\ reports' = [r \in Reports |->
              IF reports[r] # None /\ p \in reports[r].refs
              THEN [reports[r] EXCEPT !.status = "obsolete"] ELSE reports[r]]
        /\ clock' = clock /\ head' = head
    BY <1>6 DEF ReconcileDesignRevision
  <2>2. ASSUME NEW r \in Reports PROVE reports'[r] \in ReportRecord \cup {None}
    <3>1. CASE reports[r] # None /\ p \in reports[r].refs
      <4>1. reports[r] \in ReportRecord  BY <3>1
      <4> QED  BY <2>1, <3>1, <4>1 DEF ReportRecord
    <3>2. CASE ~(reports[r] # None /\ p \in reports[r].refs)  BY <2>1, <3>2
    <3> QED  BY <3>1, <3>2
  <2> QED  BY <2>1, <2>2
<1>7. ASSUME NEW a, NEW content, EditMockup(a, content) PROVE ReportsTypeOK'
  BY <1>7 DEF EditMockup
<1>8. ASSUME NEW k \in Commits, Commit(k) PROVE ReportsTypeOK'  BY <1>8 DEF Commit
<1>9. ASSUME NEW u, Deliver(u) PROVE ReportsTypeOK'  BY <1>9 DEF Deliver
<1> QED  BY <1>1, <1>2, <1>3, <1>4, <1>5, <1>6, <1>7, <1>8, <1>9 DEF DesignNext

\* What a command does to the units, when it leaves feedback and checkpoints alone.
LEMMA UnitsWritten ==
  ASSUME GInv, units' \in [Units -> UnitRecord],
         UNCHANGED <<listed, gates, phase, decisions, evidence, acceptances>>,
         findings' \subseteq Findings, UNCHANGED <<checkpoints, feedback, designVars>>
  PROVE  GInv'
<1>1. GovernanceTypeOK'  BY DEF GInv, GovernanceTypeOK
<1>2. ReportsTypeOK'  BY DEF GInv, ReportsTypeOK, designVars
<1> QED  BY <1>1, <1>2, AnswersKept DEF GInv

LEMMA NewUnit == NoUnit \in UnitRecord
BY DEF NoUnit, UnitRecord, UnitTransitions

LEMMA UnitSteps == ASSUME GInv, UnitStep(Units, Proofs) PROVE GInv'
<1>0. units \in [Units -> UnitRecord] /\ findings \subseteq Findings
  BY DEF GInv, GovernanceTypeOK
<1>1. ASSUME NEW u \in Units, NEW s \in {"draft", "ready"}, NEW req \in SUBSET Proofs,
             CreateWorkUnit(u, s, req)
      PROVE  GInv'
  <2> DEFINE x == [NoUnit EXCEPT !.status = s, !.revision = 1, !.required = req]
  <2>1. x \in UnitRecord  BY NewUnit DEF UnitRecord, UnitTransitions
  <2>2. units' = [units EXCEPT ![u] = x]  BY <1>1 DEF CreateWorkUnit
  <2> HIDE DEF x
  <2>3. units' \in [Units -> UnitRecord]  BY <1>0, <2>1, <2>2
  <2> QED  BY <1>0, <1>1, <2>3, UnitsWritten DEF CreateWorkUnit
<1>2. ASSUME NEW u \in Units, NEW to \in DOMAIN UnitTransitions, TransitionWorkUnit(u, to)
      PROVE  GInv'
  <2>1. units[u] \in UnitRecord  BY <1>0
  <2> DEFINE n == units[u].revision + 1
             x == [units[u] EXCEPT !.status = to, !.revision = n]
  <2>2. n \in Nat  BY <2>1 DEF UnitRecord
  <2>3. units' = [units EXCEPT ![u] = x]  BY <1>2 DEF TransitionWorkUnit
  <2> HIDE DEF n
  <2>4. x \in UnitRecord  BY <2>1, <2>2 DEF UnitRecord
  <2> HIDE DEF x
  <2>5. units' \in [Units -> UnitRecord]  BY <1>0, <2>3, <2>4
  <2> QED  BY <1>0, <1>2, <2>5, UnitsWritten DEF TransitionWorkUnit
<1>3. ASSUME NEW u \in Units, NEW y \in {"evidence", "review", "audit"} \cup OpenItems,
             RoleWrites(u, y)
      PROVE  GInv'
  <2>1. units[u] \in UnitRecord  BY <1>0
  <2> DEFINE e == IF y = "evidence" THEN ~units[u].evidence ELSE units[u].evidence
             w == IF y \in {"review", "audit"} THEN Toggle(units[u].shown, y) ELSE units[u].shown
             o == IF y \in OpenItems THEN Toggle(units[u].open, y) ELSE units[u].open
             x == [units[u] EXCEPT !.evidence = e, !.shown = w, !.open = o]
  <2>2. e \in BOOLEAN  BY <2>1 DEF UnitRecord
  <2>3. w \in SUBSET {"review", "audit"}  BY <2>1 DEF UnitRecord, Toggle
  <2>4. o \in SUBSET OpenItems  BY <2>1 DEF UnitRecord, Toggle
  <2>5. units' = [units EXCEPT ![u] = x]  BY <1>3 DEF RoleWrites
  <2> HIDE DEF e, w, o
  <2>6. x \in UnitRecord  BY <2>1, <2>2, <2>3, <2>4 DEF UnitRecord
  <2> HIDE DEF x
  <2>7. units' \in [Units -> UnitRecord]  BY <1>0, <2>5, <2>6
  <2> QED  BY <1>0, <1>3, <2>7, UnitsWritten DEF RoleWrites
<1> QED  BY <1>1, <1>2, <1>3 DEF UnitStep

LEMMA GateSteps == ASSUME GInv, GateStep PROVE GInv'
<1>0. units \in [Units -> UnitRecord]  BY DEF GInv, GovernanceTypeOK
<1>1. PICK g \in Gates, named \in SUBSET Units, auth \in Auths :
        \E s \in GateStatuses[g] : RecordGateDecision(g, s, named, auth)
  BY DEF GateStep
<1>2. PICK s \in GateStatuses[g] : RecordGateDecision(g, s, named, auth)  BY <1>1
<1>3. units' \in [Units -> UnitRecord]
  <2>1. units' = [u \in Units |->
          IF g = "G4" /\ u \in named /\ Exists(u)
          THEN [units[u] EXCEPT !.acceptance = AcceptanceOf(s),
                                !.open = units[u].open \ {"about_g4"}]
          ELSE units[u]]
    BY <1>2 DEF RecordGateDecision
  <2>2. AcceptanceOf(s) \in {"accepted", "rejected", "remediation_required", "partially_accepted"}
    BY DEF AcceptanceOf
  <2>3. ASSUME NEW u \in Units PROVE units'[u] \in UnitRecord
    <3>1. units[u] \in UnitRecord  BY <1>0
    <3> QED  BY <2>1, <2>2, <3>1 DEF UnitRecord
  <2> QED  BY <2>1, <2>3
<1>4. gates' = [gates EXCEPT ![g] = s] /\ phase' = PhaseAfter(g, s)  BY <1>2 DEF RecordGateDecision
<1>5. phase' \in {"not_compiled", "execution", "readiness_blocked", "completed"}
  BY <1>4 DEF PhaseAfter, GInv, GovernanceTypeOK
<1>6. gates' \in [Gates -> (UNION {GateStatuses[h] : h \in Gates}) \cup {"none"}]
  BY <1>4 DEF GInv, GovernanceTypeOK
<1>7. UNCHANGED <<listed, decisions, findings, evidence, acceptances, checkpoints, feedback>>
      /\ UNCHANGED designVars
  BY <1>2 DEF RecordGateDecision
<1>8. GovernanceTypeOK'  BY <1>3, <1>5, <1>6, <1>7 DEF GInv, GovernanceTypeOK
<1>9. ReportsTypeOK'  BY <1>7 DEF GInv, ReportsTypeOK, designVars
<1> QED  BY <1>7, <1>8, <1>9, AnswersKept DEF GInv

\* A feedback closes the checkpoint it names, which was open and about what the human saw.
LEMMA FeedbackRecorded ==
  ASSUME GInv, NEW f \in Feedbacks, NEW u \in Units, NEW v \in Revisions,
         NEW k \in Checkpoints \cup {None}, NEW auth, RecordHumanFeedback(f, u, v, k, auth)
  PROVE  GInv'
<1> DEFINE x == [status |-> "pending_reconciliation", unit |-> u, revision |-> v,
                 checkpoint |-> k, refers |-> {}]
           c == [status |-> "closed", feedback |-> f]
<1>1. feedback[f] = None /\ feedback' = [feedback EXCEPT ![f] = x]
  BY DEF RecordHumanFeedback
<1>2. checkpoints' = IF k = None THEN checkpoints ELSE [checkpoints EXCEPT ![k] = c]
  BY DEF RecordHumanFeedback
<1>3. k # None => /\ checkpoints[k].status = "open"
                  /\ CheckpointOf[k] = [unit |-> u, revision |-> v]
  BY DEF RecordHumanFeedback, Answers
<1>4. x \in FeedbackRecord /\ x # None  BY AbsentAssumption DEF FeedbackRecord
<1>5. feedback' \in [Feedbacks -> FeedbackRecord \cup {None}]
  BY <1>1, <1>4 DEF GInv, GovernanceTypeOK
<1>6. checkpoints' \in [Checkpoints -> [status : {"open", "closed"},
                                        feedback : Feedbacks \cup {None}]]
  BY <1>2 DEF GInv, GovernanceTypeOK
<1>7. units' \in [Units -> UnitRecord]
  <2>1. units[u] \in UnitRecord /\ units \in [Units -> UnitRecord]  BY DEF GInv, GovernanceTypeOK
  <2> DEFINE n == units[u].revision + 1
             s == units[u].feedback \cup {f}
             y == [units[u] EXCEPT !.feedback = s, !.revision = n]
  <2>2. n \in Nat /\ s \in SUBSET Feedbacks  BY <2>1 DEF UnitRecord
  <2>3. units' = [units EXCEPT ![u] = y]  BY DEF RecordHumanFeedback
  <2> HIDE DEF n, s
  <2>4. y \in UnitRecord  BY <2>1, <2>2 DEF UnitRecord
  <2> HIDE DEF y
  <2> QED  BY <2>1, <2>3, <2>4
<1>8. UNCHANGED <<listed, gates, phase, decisions, findings, evidence, acceptances, designVars>>
  BY DEF RecordHumanFeedback
<1>9. GovernanceTypeOK'  BY <1>5, <1>6, <1>7, <1>8 DEF GInv, GovernanceTypeOK
<1>10. ReportsTypeOK'  BY <1>8 DEF GInv, ReportsTypeOK, designVars
<1>11. /\ feedback'[f] = x /\ \A g \in Feedbacks \ {f} : feedback'[g] = feedback[g]
  BY <1>1 DEF GInv, GovernanceTypeOK
<1>12. /\ k # None => checkpoints'[k] = c
       /\ \A j \in Checkpoints \ {k} : checkpoints'[j] = checkpoints[j]
       /\ k = None => checkpoints' = checkpoints
  BY <1>2 DEF GInv, GovernanceTypeOK
<1>13. AnswerInv'
  <2>1. ASSUME NEW j \in Checkpoints, checkpoints'[j].status = "closed"
        PROVE  LET g == checkpoints'[j].feedback IN
               /\ g \in Feedbacks /\ feedback'[g] # None /\ feedback'[g].checkpoint = j
               /\ CheckpointOf[j] = [unit |-> feedback'[g].unit, revision |-> feedback'[g].revision]
    <3>1. CASE j = k /\ k # None  BY <1>3, <1>4, <1>11, <1>12, <3>1
    <3>2. CASE ~(j = k /\ k # None)
      <4>1. checkpoints'[j] = checkpoints[j]  BY <1>12, <3>2
      <4> DEFINE g == checkpoints[j].feedback
      <4>2. /\ g \in Feedbacks /\ feedback[g] # None /\ feedback[g].checkpoint = j
            /\ CheckpointOf[j] = [unit |-> feedback[g].unit, revision |-> feedback[g].revision]
        BY <2>1, <4>1 DEF GInv, AnswerInv
      <4>3. feedback'[g] = feedback[g]  BY <1>1, <1>11, <4>2
      <4> QED  BY <4>1, <4>2, <4>3
    <3> QED  BY <3>1, <3>2
  <2>2. ASSUME NEW g \in Feedbacks, feedback'[g] # None, feedback'[g].checkpoint # None
        PROVE  checkpoints'[feedback'[g].checkpoint] = [status |-> "closed", feedback |-> g]
    <3>1. CASE g = f  BY <1>11, <1>12, <2>2, <3>1
    <3>2. CASE g # f
      <4>1. feedback'[g] = feedback[g]  BY <1>11, <3>2
      <4> DEFINE j == feedback[g].checkpoint
      <4>2. checkpoints[j] = [status |-> "closed", feedback |-> g]
        BY <2>2, <4>1 DEF GInv, AnswerInv
      <4>3. feedback[g] \in FeedbackRecord  BY <2>2, <4>1 DEF GInv, GovernanceTypeOK
      <4>4. j \in Checkpoints  BY <2>2, <4>1, <4>3 DEF FeedbackRecord
      <4>5. k # None => j # k  BY <1>3, <4>2
      <4>6. checkpoints'[j] = checkpoints[j]  BY <1>12, <4>4, <4>5
      <4> QED  BY <4>1, <4>2, <4>6
    <3> QED  BY <3>1, <3>2
  <2> QED  BY <2>1, <2>2 DEF AnswerInv
<1> QED  BY <1>9, <1>10, <1>13 DEF GInv

LEMMA HumanSteps == ASSUME GInv, HumanStep PROVE GInv'
<1>0. units \in [Units -> UnitRecord] /\ findings \subseteq Findings
  BY DEF GInv, GovernanceTypeOK
<1>1. ASSUME NEW f \in Findings, NEW u \in Units \cup {None}, RegisterFinding(f, u) PROVE GInv'
  <2>1. findings' \subseteq Findings  BY <1>0, <1>1 DEF RegisterFinding
  <2>2. units' \in [Units -> UnitRecord]
    <3>1. CASE u = None  BY <1>0, <1>1, <3>1 DEF RegisterFinding
    <3>2. CASE u # None
      <4> DEFINE s == units[u].findings \cup {f}
                 x == [units[u] EXCEPT !.findings = s]
      <4>1. units[u] \in UnitRecord /\ u \in Units  BY <1>0, <3>2
      <4>2. s \in SUBSET Findings  BY <4>1 DEF UnitRecord
      <4>3. units' = [units EXCEPT ![u] = x]  BY <1>1, <3>2 DEF RegisterFinding
      <4> HIDE DEF s
      <4>4. x \in UnitRecord  BY <4>1, <4>2 DEF UnitRecord
      <4> HIDE DEF x
      <4> QED  BY <1>0, <4>1, <4>3, <4>4
    <3> QED  BY <3>1, <3>2
  <2> QED  BY <1>1, <2>1, <2>2, UnitsWritten DEF RegisterFinding
<1>2. ASSUME NEW e \in Evidences, RegisterEvidence(e) PROVE GInv'
  <2>1. GovernanceTypeOK'  BY <1>2 DEF RegisterEvidence, GInv, GovernanceTypeOK
  <2>2. ReportsTypeOK'  BY <1>2 DEF RegisterEvidence, GInv, ReportsTypeOK, designVars
  <2> QED  BY <1>2, <2>1, <2>2, AnswersKept DEF RegisterEvidence, GInv
<1>3. ASSUME NEW x \in Acceptances, NEW auth, RecordAcceptance(x, auth) PROVE GInv'
  <2>1. GovernanceTypeOK'  BY <1>3 DEF RecordAcceptance, GInv, GovernanceTypeOK
  <2>2. ReportsTypeOK'  BY <1>3 DEF RecordAcceptance, GInv, ReportsTypeOK, designVars
  <2> QED  BY <1>3, <2>1, <2>2, AnswersKept DEF RecordAcceptance, GInv
<1>4. ASSUME NEW d \in Decisions, CreateDecisionRequest(d) PROVE GInv'
  <2>1. GovernanceTypeOK'  BY <1>4 DEF CreateDecisionRequest, GInv, GovernanceTypeOK
  <2>2. ReportsTypeOK'  BY <1>4 DEF CreateDecisionRequest, GInv, ReportsTypeOK, designVars
  <2> QED  BY <1>4, <2>1, <2>2, AnswersKept DEF CreateDecisionRequest, GInv
<1>5. ASSUME NEW d \in Decisions, NEW to \in {"decided", "cancelled"}, NEW auth,
             ResolveDecisionRequest(d, to, auth)
      PROVE  GInv'
  <2>1. GovernanceTypeOK'  BY <1>5 DEF ResolveDecisionRequest, GInv, GovernanceTypeOK
  <2>2. ReportsTypeOK'  BY <1>5 DEF ResolveDecisionRequest, GInv, ReportsTypeOK, designVars
  <2> QED  BY <1>5, <2>1, <2>2, AnswersKept DEF ResolveDecisionRequest, GInv
<1>6. ASSUME NEW f \in Feedbacks, NEW to \in {"reconciled", "needs_decision", "superseded"},
             NEW b, NEW refs \in SUBSET (Units \cup Decisions), ReconcileHumanFeedback(f, to, b, refs)
      PROVE  GInv'
  <2> DEFINE x == [feedback[f] EXCEPT !.status = to, !.refers = refs]
  <2>1. feedback[f] \in FeedbackRecord /\ feedback[f] # None
    BY <1>6 DEF ReconcileHumanFeedback, GInv, GovernanceTypeOK
  <2>2. feedback' = [feedback EXCEPT ![f] = x]  BY <1>6 DEF ReconcileHumanFeedback
  <2>3. /\ x \in FeedbackRecord /\ x.unit = feedback[f].unit
        /\ x.revision = feedback[f].revision /\ x.checkpoint = feedback[f].checkpoint
    BY <2>1 DEF FeedbackRecord
  <2>4. x # None  BY <2>3, AbsentAssumption
  <2> HIDE DEF x
  <2>5. UNCHANGED <<units, listed, gates, phase, decisions, findings, evidence, acceptances>>
        /\ UNCHANGED <<checkpoints, designVars>>
    BY <1>6 DEF ReconcileHumanFeedback
  <2>6. feedback \in [Feedbacks -> FeedbackRecord \cup {None}]  BY DEF GInv, GovernanceTypeOK
  <2>7. GovernanceTypeOK'  BY <2>2, <2>3, <2>5, <2>6 DEF GInv, GovernanceTypeOK
  <2>8. ReportsTypeOK'  BY <2>5 DEF GInv, ReportsTypeOK, designVars
  <2>9. \A g \in Feedbacks :
          /\ feedback'[g] # None <=> feedback[g] # None
          /\ feedback[g] # None => /\ feedback'[g].unit = feedback[g].unit
                                   /\ feedback'[g].revision = feedback[g].revision
                                   /\ feedback'[g].checkpoint = feedback[g].checkpoint
    BY <2>1, <2>2, <2>3, <2>4, <2>6
  <2>10. AnswerInv'
    <3>1. ASSUME NEW k \in Checkpoints, checkpoints'[k].status = "closed"
          PROVE  LET g == checkpoints'[k].feedback IN
                 /\ g \in Feedbacks /\ feedback'[g] # None /\ feedback'[g].checkpoint = k
                 /\ CheckpointOf[k] = [unit |-> feedback'[g].unit, revision |-> feedback'[g].revision]
      <4> DEFINE g == checkpoints[k].feedback
      <4>1. checkpoints' = checkpoints  BY <2>5
      <4>2. /\ g \in Feedbacks /\ feedback[g] # None /\ feedback[g].checkpoint = k
            /\ CheckpointOf[k] = [unit |-> feedback[g].unit, revision |-> feedback[g].revision]
        BY <3>1, <4>1 DEF GInv, AnswerInv
      <4> HIDE DEF g
      <4>3. /\ g \in Feedbacks /\ feedback'[g] # None /\ feedback'[g].checkpoint = k
            /\ CheckpointOf[k] = [unit |-> feedback'[g].unit, revision |-> feedback'[g].revision]
        BY <2>9, <4>2
      <4> QED  BY <4>1, <4>3 DEF g
    <3>2. ASSUME NEW g \in Feedbacks, feedback'[g] # None, feedback'[g].checkpoint # None
          PROVE  checkpoints'[feedback'[g].checkpoint] = [status |-> "closed", feedback |-> g]
      BY <2>5, <2>9, <3>2 DEF GInv, AnswerInv
    <3> QED  BY <3>1, <3>2 DEF AnswerInv
  <2> QED  BY <2>7, <2>8, <2>10 DEF GInv
<1> QED  BY <1>1, <1>2, <1>3, <1>4, <1>5, <1>6, FeedbackRecorded DEF HumanStep

LEMMA GovernanceKept == ASSUME GInv, UNCHANGED govVars, ReportsTypeOK' PROVE GInv'
<1>1. GovernanceTypeOK'  BY DEF GInv, GovernanceTypeOK, govVars
<1> QED  BY <1>1, AnswersKept DEF GInv, govVars

LEMMA GInvStep == ASSUME GInv, GovernanceNext PROVE GInv'
<1>1. CASE DesignStep
  <2>1. ASSUME DesignNext, UNCHANGED govVars PROVE GInv'
    BY <2>1, ReportsStep, GovernanceKept DEF GInv
  <2>2. ASSUME NEW u, NEW c, NEW s, NEW m, BindDesignToWorkUnit(u, c, s, m) PROVE GInv'
    <3>1. ReportsTypeOK'  BY <2>2 DEF BindDesignToWorkUnit, Bind, GInv, ReportsTypeOK
    <3> QED  BY <2>2, <3>1, GovernanceKept DEF BindDesignToWorkUnit
  <2> QED  BY <1>1, <2>1, <2>2 DEF DesignStep
<1>2. CASE IssueStep(Tokened)
  <2>1. UNCHANGED <<govVars, designVars>>  BY <1>2 DEF IssueStep
  <2>2. ReportsTypeOK'  BY <2>1 DEF GInv, ReportsTypeOK, designVars
  <2> QED  BY <2>1, <2>2, GovernanceKept
<1> QED  BY <1>1, <1>2, UnitSteps, GateSteps, HumanSteps DEF GovernanceNext

\* What happens to the mission leaves everything else as it is, but the tokens.
LEMMA MissionLeaves == ASSUME MissionNext PROVE UNCHANGED otherRecords
<1>1. CASE ArtifactStep
  BY <1>1 DEF ArtifactStep, RegisterMissionArtifact, RecordMissionArtifactChallenge, EditMission,
              Scope
<1>2. CASE ProfileStep  BY <1>2 DEF ProfileStep, UpdateProjectProfile
<1>3. CASE RunStep
  <2>1. ASSUME NEW g, NEW p, NEW o, NEW arts, NEW e, NEW m, NEW us, NEW areas, NEW a,
               IssueRunAuthorizationGrant(g, p, o, arts, e, m, us, areas, a)
        PROVE  UNCHANGED otherRecords
    BY <2>1 DEF IssueRunAuthorizationGrant
  <2>2. ASSUME NEW g, NEW a, RevokeRunAuthorizationGrant(g, 1, a) PROVE UNCHANGED otherRecords
    BY <2>2 DEF RevokeRunAuthorizationGrant
  <2>3. ASSUME NEW r, NEW g, NEW p, NEW us, NEW ceilings, OpenRun(r, g, p, us, ceilings)
        PROVE  UNCHANGED otherRecords
    BY <2>3 DEF OpenRun
  <2> QED  BY <1>3, <2>1, <2>2, <2>3 DEF RunStep
<1> QED  BY <1>1, <1>2, <1>3 DEF MissionNext

LEMMA GInvInvariant == MissionSpec => []GInv
<1> DEFINE Step == MissionNext \/ (GovernanceNext /\ UNCHANGED missionVars)
<1>1. GovernanceInit => GInv
  <2> SUFFICES ASSUME GovernanceInit PROVE GInv  OBVIOUS
  <2>1. GovernanceTypeOK
    <3>1. units \in [Units -> UnitRecord]  BY NewUnit DEF GovernanceInit
    <3>2. /\ gates \in [Gates -> (UNION {GateStatuses[g] : g \in Gates}) \cup {"none"}]
          /\ decisions \in [Decisions -> {"absent", "pending_human", "decided", "cancelled"}]
      BY DEF GovernanceInit
    <3>3. checkpoints \in [Checkpoints -> [status : {"open", "closed"},
                                          feedback : Feedbacks \cup {None}]]
      BY DEF GovernanceInit
    <3> QED  BY <3>1, <3>2, <3>3 DEF GovernanceInit, GovernanceTypeOK
  <2>2. ReportsTypeOK  BY DesignAssumption DEF GovernanceInit, DesignInit, ReportsTypeOK
  <2>3. AnswerInv  BY DEF GovernanceInit, AnswerInv
  <2> QED  BY <2>1, <2>2, <2>3 DEF GInv
<1>2. GInv /\ [Step]_<<records, missionVars>> => GInv'
  <2>1. ASSUME GInv, UNCHANGED otherRecords PROVE GInv'
    <3>1. ReportsTypeOK'  BY <2>1 DEF GInv, ReportsTypeOK, designVars, otherRecords
    <3> QED  BY <2>1, <3>1, GovernanceKept DEF otherRecords
  <2>2. UNCHANGED <<records, missionVars>> => UNCHANGED otherRecords
    BY DEF records, otherRecords
  <2> QED  BY <2>1, <2>2, GInvStep, MissionLeaves
<1> QED  BY <1>1, <1>2, PTL DEF MissionSpec

\* A checkpoint is answered by one human: a feedback that names it closed it, when it was open
\* and about the Work Unit and the revision the human saw, and no other names it.
THEOREM CheckpointsAreAnsweredOnce == MissionSpec => []CheckpointAnsweredOnce
<1>1. GInv => CheckpointAnsweredOnce
  <2> SUFFICES ASSUME GInv PROVE CheckpointAnsweredOnce  OBVIOUS
  <2>1. ASSUME NEW f \in Feedbacks, NEW g \in Feedbacks, f # g, feedback[f] # None,
               feedback[g] # None, feedback[f].checkpoint # None
        PROVE  feedback[f].checkpoint # feedback[g].checkpoint
    <3> SUFFICES ASSUME feedback[f].checkpoint = feedback[g].checkpoint PROVE FALSE  OBVIOUS
    <3>1. /\ checkpoints[feedback[f].checkpoint] = [status |-> "closed", feedback |-> f]
          /\ checkpoints[feedback[g].checkpoint] = [status |-> "closed", feedback |-> g]
      BY <2>1 DEF GInv, AnswerInv
    <3> QED  BY <2>1, <3>1
  <2> QED  BY <2>1 DEF GInv, AnswerInv, CheckpointAnsweredOnce
<1> QED  BY <1>1, GInvInvariant, PTL

\* A set of numbers that are bounded has a greatest: the numbers above each of its members
\* form a strictly smaller set the greater the member is.
LEMMA Greatest ==
  ASSUME NEW N \in Nat, NEW S, S \subseteq 1 .. N, S # {}
  PROVE  \E m \in S : \A k \in S : k <= m
<1> DEFINE Above(m) == {k \in 1 .. N : k > m}
           Less == StrictSubsetOrdering(1 .. N)
           Sets == {Above(m) : m \in S}
<1>1. IsFiniteSet(1 .. N)  BY FS_Interval
<1>2. IsWellFoundedOn(Less, SUBSET (1 .. N))
  BY <1>1, FS_StrictSubsetOrderingWellFounded, FS_FiniteSubsetsOfFinite
<1>3. Sets \subseteq SUBSET (1 .. N) /\ Sets # {}  OBVIOUS
<1>4. \A A, B \in SUBSET (1 .. N) : A \subseteq B /\ A # B => <<A, B>> \in Less
  BY DEF StrictSubsetOrdering
<1>5. PICK A \in Sets : \A B \in Sets : ~(<<B, A>> \in Less)
  <2> HIDE DEF Less, Sets
  <2> QED  BY <1>2, <1>3, WFMin
<1>6. PICK m \in S : A = Above(m)  BY <1>5
<1>7. ASSUME NEW k \in S PROVE k <= m
  <2> SUFFICES ASSUME k > m PROVE FALSE  BY <1>6
  <2>1. Above(k) \subseteq A /\ k \in A /\ k \notin Above(k)  BY <1>6
  <2>2. Above(k) \in SUBSET (1 .. N) /\ A \in SUBSET (1 .. N) /\ Above(k) \in Sets  BY <1>3, <1>5
  <2> HIDE DEF Less, Sets, Above
  <2> QED  BY <1>4, <1>5, <2>1, <2>2
<1> QED  BY <1>6, <1>7

\* Of the reports of a unit that stand, one is the latest.
LEMMA LatestExists ==
  ASSUME ReportsTypeOK, NEW u \in Units, Current(u) # {}
  PROVE  /\ LatestReport(u) \in Current(u)
         /\ \A q \in Current(u) : reports[q].at <= reports[LatestReport(u)].at
<1> DEFINE Times == {reports[r].at : r \in Current(u)}
<1>1. \A r \in Current(u) : reports[r].at \in 1 .. MaxReports
  BY DEF Current, ReportsTypeOK, ReportRecord
<1>2. Times \subseteq 1 .. MaxReports /\ Times # {}  BY <1>1
<1>3. PICK n \in Times : \A k \in Times : k <= n
  <2> HIDE DEF Times
  <2> QED  BY <1>2, Greatest, DesignAssumption
<1>4. PICK r \in Current(u) : n = reports[r].at  BY <1>3
<1>5. \A q \in Current(u) : reports[q].at <= reports[r].at  BY <1>3, <1>4
<1> QED  BY <1>4, <1>5 DEF LatestReport

\* A unit that is not done becomes so by TransitionWorkUnit, which asks for Ready.
LEMMA DoneByTransition ==
  ASSUME GInv, GovernanceNext, NEW u \in Units, units[u].status # "done", units'[u].status = "done"
  PROVE  VisuallyConform(u)
<1>0. units \in [Units -> UnitRecord]  BY DEF GInv, GovernanceTypeOK
<1>1. units' # units  OBVIOUS
<1>2. ASSUME NEW v \in Units, NEW s \in {"draft", "ready"}, NEW req, CreateWorkUnit(v, s, req)
      PROVE  FALSE
  BY <1>0, <1>2, NewUnit DEF CreateWorkUnit, UnitRecord
<1>3. ASSUME NEW v \in Units, NEW to, TransitionWorkUnit(v, to) PROVE VisuallyConform(u)
  <2>1. v = u /\ to = "done"
    <3>1. units[v] \in UnitRecord  BY <1>0
    <3> QED  BY <1>0, <1>3, <3>1 DEF TransitionWorkUnit, UnitRecord
  <2> QED  BY <1>3, <2>1 DEF TransitionWorkUnit, Ready
<1>4. ASSUME NEW v \in Units, NEW x, RoleWrites(v, x) PROVE FALSE
  <2>1. units[v] \in UnitRecord  BY <1>0
  <2> QED  BY <1>0, <1>4, <2>1 DEF RoleWrites, UnitRecord
<1>5. CASE GateStep
  <2>1. PICK g \in Gates, named \in SUBSET Units, auth \in Auths :
          \E s \in GateStatuses[g] : RecordGateDecision(g, s, named, auth)
    BY <1>5 DEF GateStep
  <2>2. PICK s \in GateStatuses[g] : RecordGateDecision(g, s, named, auth)  BY <2>1
  <2>3. units[u] \in UnitRecord  BY <1>0
  <2> QED  BY <2>2, <2>3 DEF RecordGateDecision, UnitRecord
<1>6. ASSUME NEW f, NEW v \in Units \cup {None}, RegisterFinding(f, v) PROVE FALSE
  <2>1. v \in Units => units[v] \in UnitRecord  BY <1>0
  <2> QED  BY <1>0, <1>6, <2>1 DEF RegisterFinding, UnitRecord
<1>7. ASSUME NEW f, NEW v \in Units, NEW w, NEW k, NEW auth, RecordHumanFeedback(f, v, w, k, auth)
      PROVE  FALSE
  <2>1. units[v] \in UnitRecord  BY <1>0
  <2> QED  BY <1>0, <1>7, <2>1 DEF RecordHumanFeedback, UnitRecord
<1>8. CASE HumanStep
  BY <1>1, <1>6, <1>7, <1>8 DEF HumanStep, RegisterEvidence, RecordAcceptance,
     CreateDecisionRequest, ResolveDecisionRequest, ReconcileHumanFeedback
<1>9. CASE DesignStep  BY <1>1, <1>9 DEF DesignStep, BindDesignToWorkUnit, govVars
<1>10. CASE IssueStep(Tokened)  BY <1>1, <1>10 DEF IssueStep, govVars
<1> QED  BY <1>2, <1>3, <1>4, <1>5, <1>8, <1>9, <1>10 DEF GovernanceNext, UnitStep

\* A Work Unit that is to conform to a design is done on a report that passed, of the commit
\* that was delivered, and every later report of it was made obsolete by a new mockup.
THEOREM DoneUnitsConform == MissionSpec => DoneIsConform
<1> DEFINE Step == MissionNext \/ (GovernanceNext /\ UNCHANGED missionVars)
           Passing(u, r) ==
             /\ reports[r] # None /\ reports[r].unit = u /\ reports[r].status = "passed"
             /\ delivered[u] \in {None, reports[r].commit}
             /\ \A q \in Reports \ {r} : (/\ reports[q] # None /\ reports[q].unit = u
                                          /\ reports[q].at > reports[r].at)
                                         => reports[q].status = "obsolete"
           Conform == \A u \in Units :
             (/\ units[u].status # "done" /\ units'[u].status = "done"
              /\ bindings[u] # None /\ bindings[u].mode \in Binding) =>
             \E r \in Reports : Passing(u, r)
<1>1. GInv /\ [Step]_<<records, missionVars>> => [Conform]_records
  <2> SUFFICES ASSUME GInv, [Step]_<<records, missionVars>>, NEW u \in Units,
                      units[u].status # "done", units'[u].status = "done",
                      bindings[u] # None, bindings[u].mode \in Binding
               PROVE  \E r \in Reports : Passing(u, r)
    OBVIOUS
  <2>1. units' # units  OBVIOUS
  <2>2. GovernanceNext
    BY <2>1, MissionLeaves DEF otherRecords, govVars, records
  <2>3. VisuallyConform(u)  BY <2>2, DoneByTransition
  <2> DEFINE r == LatestReport(u)
  <2>4. /\ Current(u) # {} /\ reports[r].status = "passed"
        /\ delivered[u] # None => reports[r].commit = delivered[u]
    BY <2>3 DEF VisuallyConform
  <2>5. r \in Current(u) /\ \A q \in Current(u) : reports[q].at <= reports[r].at
    BY <2>4, LatestExists DEF GInv
  <2> HIDE DEF r
  <2>6. ASSUME NEW q \in Reports, reports[q] # None, reports[q].unit = u,
               reports[q].at > reports[r].at
        PROVE  reports[q].status = "obsolete"
    <3>1. reports[q].at \in Nat /\ reports[r].at \in Nat
      BY <2>5, <2>6 DEF GInv, ReportsTypeOK, ReportRecord, Current
    <3>2. q \notin Current(u)  BY <2>5, <2>6, <3>1
    <3> QED  BY <2>6, <3>2 DEF Current
  <2> QED  BY <2>4, <2>5, <2>6 DEF Current
<1> QED  BY <1>1, GInvInvariant, PTL DEF MissionSpec, DoneIsConform

-----------------------------------------------------------------------------
(* Where an agent may write: what a contract admits, the verdict that stops the *)
(* Run admits too, whatever the roles, the ceiling and the files. Both depend on *)
(* how patterns are written, so lemmas on prefixes of paths come first.          *)

\* The names in paths; the last three are strings too, which the provers have to be told.
Names == STRING \cup {"x", ".", "**"}

\* A pattern: nothing follows where there is no star, and no directory is named "x", "." or "**".
Pattern == [root : Seq(Names), star : BOOLEAN, tail : Seq(Names)]
PlainPath(path) == \A i \in 1 .. Len(path) : path[i] \notin {"x", ".", "**"}
PlainPattern(p) == p \in Pattern /\ PlainPath(p.root) /\ (~p.star => p.tail = <<>>)

\* Every pattern the contracts of the Work Unit are made from.
AxisPatterns(axis) == IF axis = Anything THEN {} ELSE axis
InPlay ==
  mandate.include \cup AxisPatterns(mandate.grant) \cup AxisPatterns(mandate.ceiling)
  \cup UNION {UNION {Resolve(t) : t \in RoleTemplates[r]} : r \in DOMAIN RoleTemplates}

\* How mandates are written: directories with a star, files without, and none is both.
PlainMandate ==
  /\ \A p \in InPlay : PlainPattern(p)
  /\ \A s \in mandate.include \cup AxisPatterns(mandate.grant) : s.tail = <<>>
  /\ \A p, q \in InPlay : ~p.star /\ IsTree(q) => p.root # q.root
  /\ WrittenPaths \subseteq Seq(Names)
  /\ \A S \in SUBSET InPlay : S # Anything

\* What p admits is admitted by s, because of how the two are written.
Lies(p, s) == IF s.star THEN RootedIn(p, s.root) ELSE p = s
Covered(scope, base) == scope # Anything /\ scope \subseteq InPlay /\ \A p \in scope : \E s \in base : Lies(p, s)

\* The contract under way lies in the scope and in the grant, and so does what agents wrote by it.
ScopeInv ==
  /\ PlainMandate
  /\ stage = "running" =>
       /\ pact = Anything \/ pact \subseteq InPlay
       /\ mandate.include # {} => Covered(pact, mandate.include)
       /\ GrantAxis # Anything => Covered(pact, GrantAxis)
  /\ mutated => astray
  /\ changed \subseteq WrittenPaths
  /\ astray \/ \A path \in changed : WithinBounds(path)
  /\ InsideContractIsAccepted

\* A prefix is shorter, and agrees name by name.
LEMMA PrefixPointwise ==
  ASSUME NEW S, NEW s \in Seq(S), NEW t \in Seq(S)
  PROVE  IsPrefix(s, t) <=> Len(s) <= Len(t) /\ \A i \in 1 .. Len(s) : s[i] = t[i]
<1>1. ASSUME Len(s) <= Len(t)
      PROVE  SubSeq(s, 1, Len(s)) = SubSeq(t, 1, Len(s)) <=> \A i \in 1 .. Len(s) : s[i] = t[i]
  <2>1. SubSeq(s, 1, Len(s)) = s
    BY SubSeqFull
  <2>2. \A i \in 1 .. Len(s) : t[i] \in S
    BY <1>1
  <2>3. /\ SubSeq(t, 1, Len(s)) \in Seq(S)
        /\ Len(SubSeq(t, 1, Len(s))) = Len(s)
        /\ \A i \in 1 .. Len(s) : SubSeq(t, 1, Len(s))[i] = t[i]
    <3> HIDE DEF IsPrefix
    <3>1. Len(s) \in Nat
      OBVIOUS
    <3>2. /\ SubSeq(t, 1, Len(s)) \in Seq(S)
          /\ Len(SubSeq(t, 1, Len(s))) = IF 1 <= Len(s) THEN Len(s) - 1 + 1 ELSE 0
          /\ \A i \in 1 .. Len(s) - 1 + 1 : SubSeq(t, 1, Len(s))[i] = t[1 + i - 1]
      BY <2>2, <3>1, SubSeqProperties
    <3> QED  BY <3>1, <3>2
  <2>4. ASSUME \A i \in 1 .. Len(s) : s[i] = t[i]  PROVE SubSeq(t, 1, Len(s)) = s
    BY <2>3, <2>4, SeqEqual
  <2> QED  BY <2>1, <2>3, <2>4
<1> QED  BY <1>1 DEF IsPrefix

\* To be a prefix is an order, with the empty path below all.
LEMMA PrefixOrder ==
  ASSUME NEW S, NEW a \in Seq(S), NEW b \in Seq(S), NEW c \in Seq(S)
  PROVE  /\ IsPrefix(a, a) /\ IsPrefix(<<>>, a)
         /\ IsPrefix(a, b) /\ IsPrefix(b, c) => IsPrefix(a, c)
         /\ IsPrefix(a, b) /\ IsPrefix(b, a) => a = b
<1>1. <<>> \in Seq(S) /\ Len(<<>>) = 0
  OBVIOUS
<1>2. IsPrefix(a, a)
  BY PrefixPointwise
<1>5. ASSUME NEW e \in Seq(S), Len(e) = 0  PROVE IsPrefix(e, a)
  <2>1. Len(e) <= Len(a) /\ \A i \in 1 .. Len(e) : e[i] = a[i]
    BY <1>5
  <2> QED  BY <2>1, PrefixPointwise
<1>6. IsPrefix(<<>>, a)
  BY <1>1, <1>5
<1>3. ASSUME IsPrefix(a, b), IsPrefix(b, c)  PROVE IsPrefix(a, c)
  BY <1>3, PrefixPointwise
<1>4. ASSUME IsPrefix(a, b), IsPrefix(b, a)  PROVE a = b
  BY <1>4, PrefixPointwise, SeqEqual
<1> QED  BY <1>2, <1>3, <1>4, <1>6

\* What is above a directory is above all that is below it.
LEMMA StrictPrefixOrder ==
  ASSUME NEW S, NEW a \in Seq(S), NEW b \in Seq(S), NEW c \in Seq(S), IsPrefix(a, b), IsStrictPrefix(b, c)
  PROVE  IsStrictPrefix(a, c)
BY PrefixOrder DEF IsStrictPrefix

\* A file that p admits is admitted by what p lies in.
LEMMA MatchWithin ==
  ASSUME NEW p, NEW s, PlainPattern(p), PlainPattern(s), s.tail = <<>>, Lies(p, s),
         NEW path \in Seq(Names), Matches(path, p)
  PROVE  Matches(path, s)
<1>1. CASE ~s.star
  BY <1>1 DEF Lies
<1>2. CASE s.star /\ p.star
  <2>1. IsPrefix(s.root, p.root) /\ IsStrictPrefix(p.root, path)
    BY <1>2 DEF Lies, RootedIn, Matches
  <2>2. IsStrictPrefix(s.root, path)
    BY <2>1, StrictPrefixOrder DEF PlainPattern, Pattern
  <2> QED  BY <1>2, <2>2 DEF Matches
<1>3. CASE s.star /\ ~p.star
  <2>1. IsStrictPrefix(s.root, p.root) /\ path = p.root
    BY <1>3 DEF Lies, RootedIn, Matches
  <2> QED  BY <1>3, <2>1 DEF Matches
<1> QED  BY <1>1, <1>2, <1>3

\* A pattern lies in itself.
LEMMA LiesInItself ==
  ASSUME NEW s, PlainPattern(s)
  PROVE  Lies(s, s)
BY PrefixOrder DEF Lies, RootedIn, PlainPattern, Pattern

\* A prefix without a given name ends before the first place where the path has it.
LEMMA PrefixStopsBefore ==
  ASSUME NEW S, NEW a \in Seq(S), NEW b \in Seq(S), NEW c \in Seq(S), NEW name \in S,
         IsPrefix(a, (b \o <<name>>) \o c), \A i \in 1 .. Len(a) : a[i] # name
  PROVE  IsPrefix(a, b)
<1> DEFINE d == b \o <<name>>  path == d \o c
<1>1. <<name>> \in Seq(S) /\ Len(<<name>>) = 1 /\ <<name>>[1] = name
  OBVIOUS
<1>2. /\ d \in Seq(S) /\ Len(d) = Len(b) + 1
      /\ \A i \in 1 .. Len(b) + 1 : d[i] = IF i <= Len(b) THEN b[i] ELSE <<name>>[i - Len(b)]
  BY <1>1, ConcatProperties
<1>3. Len(b) \in Nat /\ Len(c) \in Nat /\ Len(a) \in Nat
  OBVIOUS
<1>4. d[Len(b) + 1] = name /\ \A i \in 1 .. Len(b) : d[i] = b[i]
  BY <1>1, <1>2, <1>3
<1> HIDE DEF d
<1>5. /\ path \in Seq(S) /\ Len(path) = Len(d) + Len(c)
      /\ \A i \in 1 .. Len(d) + Len(c) : path[i] = IF i <= Len(d) THEN d[i] ELSE c[i - Len(d)]
  <2>1. d \in Seq(S) /\ c \in Seq(S)
    BY <1>2
  <2> QED  BY ONLY <2>1, ConcatProperties
<1>6. path[Len(b) + 1] = name /\ \A i \in 1 .. Len(b) : path[i] = b[i]
  BY <1>2, <1>3, <1>4, <1>5
<1>7. IsPrefix(a, path)
  BY DEF d
<1> HIDE DEF path
<1>8. Len(a) <= Len(path) /\ \A i \in 1 .. Len(a) : a[i] = path[i]
  BY <1>5, <1>7, PrefixPointwise
<1>9. Len(a) <= Len(b)
  <2>1. SUFFICES ASSUME Len(b) < Len(a)  PROVE FALSE
    BY <1>3
  <2>2. Len(b) + 1 \in 1 .. Len(a)
    BY <2>1, <1>3
  <2> QED  BY <2>2, <1>6, <1>8
<1>10. \A i \in 1 .. Len(a) : a[i] = b[i]
  BY <1>3, <1>6, <1>8, <1>9
<1> QED  BY <1>9, <1>10, PrefixPointwise

\* A prefix of a path with one more name, other than that path, is one of the path.
LEMMA PrefixOfAppend ==
  ASSUME NEW S, NEW a \in Seq(S), NEW b \in Seq(S), NEW name \in S,
         IsPrefix(a, Append(b, name)), \A i \in 1 .. Len(a) : a[i] # name
  PROVE  IsPrefix(a, b)
<1>1. <<>> \in Seq(S) /\ b \o <<name>> \in Seq(S)
  OBVIOUS
<1>2. Append(b, name) = (b \o <<name>>) \o <<>>
  BY <1>1, ConcatEmptySeq
<1>3. IsPrefix(a, (b \o <<name>>) \o <<>>)
  BY <1>2
<1> HIDE DEF IsPrefix
<1> QED  BY ONLY <1>1, <1>3, PrefixStopsBefore, a \in Seq(S), b \in Seq(S), name \in S, \A i \in 1 .. Len(a) : a[i] # name

\* A name between two paths.
LEMMA NameBetween ==
  ASSUME NEW S, NEW b \in Seq(S), NEW name \in S, NEW c \in Seq(S)
  PROVE  /\ b \o <<name>> \o c \in Seq(S)
         /\ Len(b) + 1 \in 1 .. Len(b \o <<name>> \o c)
         /\ (b \o <<name>> \o c)[Len(b) + 1] = name
OBVIOUS

\* The text of a pattern is a path, and a prefix of it without stars is one of its root.
LEMMA LiteralIsPath ==
  ASSUME NEW p, PlainPattern(p)
  PROVE  /\ Literal(p) \in Seq(Names)
         /\ \A a \in Seq(Names) : PlainPath(a) /\ IsPrefix(a, Literal(p)) => IsPrefix(a, p.root)
<1>1. p.root \in Seq(Names) /\ p.tail \in Seq(Names)
  BY DEF PlainPattern, Pattern
<1>2. CASE p.star /\ p.tail # <<>>
  <2>1. Literal(p) = p.root \o <<"**">> \o p.tail
    BY <1>2 DEF Literal
  <2>2. Literal(p) \in Seq(Names)
    <3>1. "**" \in Names
      BY DEF Names
    <3>2. p.root \o <<"**">> \o p.tail \in Seq(Names)
      BY ONLY <1>1, <3>1, NameBetween
    <3> QED  BY <2>1, <3>2
  <2>3. ASSUME NEW a \in Seq(Names), PlainPath(a), IsPrefix(a, Literal(p))
        PROVE  IsPrefix(a, p.root)
    <3>1. \A i \in 1 .. Len(a) : a[i] # "**"
      BY <2>3 DEF PlainPath
    <3>2. IsPrefix(a, (p.root \o <<"**">>) \o p.tail)
      BY <2>1, <2>3
    <3>3. "**" \in Names /\ a \in Seq(Names)
      BY DEF Names
    <3> QED  BY ONLY <1>1, <3>1, <3>2, <3>3, PrefixStopsBefore
  <2> QED  BY <1>2, <2>2, <2>3
<1>3. CASE ~(p.star /\ p.tail # <<>>)
  <2>1. Literal(p) = p.root
    BY <1>3 DEF Literal
  <2> QED  BY <1>1, <2>1
<1> QED  BY <1>2, <1>3

\* What is taken to lie within s does, when s ends with a star or not at all.
LEMMA ProbeWithin ==
  ASSUME NEW p, NEW s, PlainPattern(p), PlainPattern(s), s.tail = <<>>,
         ~p.star /\ IsTree(s) => p.root # s.root, ~s.star /\ IsTree(p) => s.root # p.root,
         NEW q \in Probes(p), Matches(q, s)
  PROVE  Lies(p, s)
<1>1. p.root \in Seq(Names) /\ s.root \in Seq(Names) /\ PlainPath(s.root) /\ p.star \in BOOLEAN
  BY DEF PlainPattern, Pattern
<1>2. Literal(p) \in Seq(Names) /\ (IsPrefix(s.root, Literal(p)) => IsPrefix(s.root, p.root))
  BY <1>1, LiteralIsPath
<1>3. q \in {Literal(p), Append(Literal(p), "x")} \/ (Literal(p) = <<>> /\ q \in {<<".">>, <<"x">>})
  BY Zenon DEF Probes
<1>4. CASE s.star
  <2>1. IsStrictPrefix(s.root, q)
    BY <1>4 DEF Matches
  <2>2. IsPrefix(s.root, p.root)
    <3>1. CASE q = Literal(p)
      BY <2>1, <3>1, <1>2 DEF IsStrictPrefix
    <3>2. ASSUME NEW name \in {"x", "."}, q = Append(Literal(p), name)
          PROVE  IsPrefix(s.root, p.root)
      <4>1. IsPrefix(s.root, Append(Literal(p), name))
        BY <2>1, <3>2 DEF IsStrictPrefix
      <4>2. \A i \in 1 .. Len(s.root) : s.root[i] # name
        BY <1>1, <3>2 DEF PlainPath
      <4>3. IsPrefix(s.root, Literal(p))
        <5>1. name \in Names
          BY DEF Names
        <5> QED  BY ONLY <1>1, <1>2, <4>1, <4>2, <5>1, PrefixOfAppend
      <4> QED  BY <1>2, <4>3
    <3>3. CASE Literal(p) = <<>> /\ q \in {<<".">>, <<"x">>}
      <4>1. <<".">> = Append(<<>>, ".") /\ <<"x">> = Append(<<>>, "x")
        OBVIOUS
      <4> QED  BY <3>2, <3>3, <4>1
    <3> QED  BY <1>3, <3>1, <3>2, <3>3
  <2>3. ~p.star => s.root # p.root
    BY <1>4 DEF IsTree
  <2> QED  BY <1>4, <2>2, <2>3 DEF Lies, RootedIn, IsStrictPrefix
<1>5. CASE ~s.star
  <2>1. q = s.root
    BY <1>5 DEF Matches
  <2>2. q = Literal(p)
    <3>1. ASSUME NEW name \in {"x", "."}, q = Append(Literal(p), name)
          PROVE  FALSE
      <4>1. ASSUME NEW S, NEW b \in Seq(S), NEW e \in S
            PROVE  /\ Len(Append(b, e)) = Len(b) + 1 /\ Append(b, e)[Len(b) + 1] = e
                   /\ Len(b) + 1 \in 1 .. Len(b) + 1
        OBVIOUS
      <4>2. Len(q) = Len(Literal(p)) + 1 /\ q[Len(Literal(p)) + 1] = name /\ Len(Literal(p)) + 1 \in 1 .. Len(q)
        BY <1>2, <3>1, <4>1
      <4> QED  BY <1>1, <2>1, <4>2, <3>1 DEF PlainPath
    <3>2. <<".">> = Append(<<>>, ".") /\ <<"x">> = Append(<<>>, "x")
      OBVIOUS
    <3> QED  BY <1>3, <3>1, <3>2
  <2>3. ~(p.star /\ p.tail # <<>>)
    <3>1. SUFFICES ASSUME p.star, p.tail # <<>>  PROVE FALSE
      OBVIOUS
    <3>2. q = (p.root \o <<"**">>) \o p.tail /\ p.tail \in Seq(Names)
      BY <2>2, <3>1 DEF Literal, PlainPattern, Pattern
    <3>3. "**" \in Names
      BY DEF Names
    <3>4. Len(p.root) + 1 \in 1 .. Len(q) /\ q[Len(p.root) + 1] = "**"
      <4>1. /\ Len(p.root) + 1 \in 1 .. Len(p.root \o <<"**">> \o p.tail)
            /\ (p.root \o <<"**">> \o p.tail)[Len(p.root) + 1] = "**"
        <5> DEFINE b == p.root  c == p.tail
        <5>1. b \in Seq(Names) /\ c \in Seq(Names)
          BY <1>1, <3>2
        <5> HIDE DEF b, c
        <5>2. Len(b) + 1 \in 1 .. Len(b \o <<"**">> \o c) /\ (b \o <<"**">> \o c)[Len(b) + 1] = "**"
          BY ONLY <3>3, <5>1, NameBetween
        <5> QED  BY <5>2 DEF b, c
      <4> QED  BY <3>2, <4>1
    <3> QED  BY <1>1, <2>1, <3>4 DEF PlainPath
  <2>4. p.root = s.root /\ ~p.star
    BY <2>1, <2>2, <2>3, <1>5 DEF Literal, IsTree
  <2>5. p.tail = <<>> /\ p \in Pattern /\ s \in Pattern
    BY <2>4 DEF PlainPattern
  <2> QED  BY <1>5, <2>4, <2>5 DEF Lies, Pattern
<1> QED  BY <1>4, <1>5

\* The base of a contract: the scope, or the paths of the grant.
LEMMA BaseIsPlain ==
  ASSUME PlainMandate
  PROVE  /\ mandate.include \subseteq InPlay
         /\ GrantAxis # Anything => GrantAxis \subseteq InPlay /\ GrantAxis \subseteq mandate.grant
         /\ CeilingAxis # Anything => CeilingAxis \subseteq InPlay
         /\ \A r \in DOMAIN RoleTemplates : RoleAxis(r) # Anything => RoleAxis(r) \subseteq InPlay
         /\ \A S \in SUBSET InPlay : S # Anything
<1>1. mandate.include \subseteq InPlay
  BY DEF InPlay
<1>2. GrantAxis # Anything => GrantAxis \subseteq InPlay /\ GrantAxis \subseteq mandate.grant
  BY DEF InPlay, GrantAxis, Sanitized, AxisPatterns
<1>3. CeilingAxis # Anything => CeilingAxis \subseteq InPlay
  BY DEF InPlay, CeilingAxis, Sanitized, AxisPatterns
<1>4. ASSUME NEW r \in DOMAIN RoleTemplates, RoleAxis(r) # Anything
      PROVE  RoleAxis(r) \subseteq InPlay
  <2>1. RoleAxis(r) = UNION {Resolve(t) : t \in RoleTemplates[r]}
    BY <1>4, Zenon DEF RoleAxis
  <2> QED  BY <2>1, Zenon DEF InPlay
<1>5. \A S \in SUBSET InPlay : S # Anything
  BY DEF PlainMandate
<1> QED  BY <1>1, <1>2, <1>3, <1>4, <1>5

\* What is taken to lie within a pattern that lies in s lies in s.
LEMMA SubsumedWithin ==
  ASSUME PlainMandate, NEW p \in InPlay, NEW q \in InPlay, NEW s \in InPlay, s.tail = <<>>,
         Subsumes(q, p), Lies(q, s)
  PROVE  Lies(p, s)
<1>1. PlainPattern(p) /\ PlainPattern(q) /\ PlainPattern(s)
  BY DEF PlainMandate
<1>2. CASE p = q
  BY <1>2
<1>3. ASSUME NEW probe \in Probes(p), Matches(probe, q)
      PROVE  Lies(p, s)
  <2>1. probe \in Seq(Names)
    <3>1. "x" \in Names /\ "." \in Names /\ Literal(p) \in Seq(Names)
      BY <1>1, LiteralIsPath DEF Names
    <3>2. ASSUME NEW S, NEW b \in Seq(S), NEW name \in S
          PROVE  Append(b, name) \in Seq(S) /\ <<name>> \in Seq(S)
      OBVIOUS
    <3>3. Append(Literal(p), "x") \in Seq(Names) /\ <<"x">> \in Seq(Names) /\ <<".">> \in Seq(Names)
      BY ONLY <3>1, <3>2
    <3>4. probe \in {Literal(p), Append(Literal(p), "x"), <<"x">>, <<".">>}
      BY <1>3, Zenon DEF Probes
    <3> QED  BY <3>1, <3>3, <3>4
  <2>2. Matches(probe, s)
    BY <1>1, <1>3, <2>1, MatchWithin
  <2>3. (~p.star /\ IsTree(s) => p.root # s.root) /\ (~s.star /\ IsTree(p) => s.root # p.root)
    BY DEF PlainMandate
  <2> QED  BY <1>1, <1>3, <2>2, <2>3, ProbeWithin
<1> QED  BY <1>2, <1>3 DEF Subsumes

\* An intersection stays within what covers its left side.
LEMMA IntersectCovered ==
  ASSUME PlainMandate, NEW base, base \subseteq InPlay, \A s \in base : s.tail = <<>>,
         NEW scope, Covered(scope, base), NEW axis, axis \subseteq InPlay
  PROVE  Covered(Intersect(scope, axis), base)
<1>1. scope \subseteq InPlay /\ \A p \in scope : \E s \in base : Lies(p, s)
  BY DEF Covered
<1>2. Intersect(scope, axis) \subseteq InPlay
  BY <1>1 DEF Intersect
<1>3. ASSUME NEW p \in Intersect(scope, axis)
      PROVE  \E s \in base : Lies(p, s)
  <2>1. CASE p \in scope
    BY <1>1, <2>1
  <2>2. CASE p \in axis /\ \E q \in scope : Subsumes(q, p)
    <3>1. PICK q \in scope : Subsumes(q, p)
      BY <2>2
    <3>2. PICK s \in base : Lies(q, s)
      BY <1>1
    <3> QED  BY <1>1, <2>2, <3>1, <3>2, SubsumedWithin
  <2> QED  BY <1>3, <2>1, <2>2 DEF Intersect
<1> QED  BY <1>2, <1>3, BaseIsPlain DEF Covered

\* An intersection with the base is within it.
LEMMA IntersectWithBase ==
  ASSUME PlainMandate, NEW base, base \subseteq InPlay, \A s \in base : s.tail = <<>>,
         NEW scope, scope \subseteq InPlay
  PROVE  Covered(Intersect(scope, base), base)
<1>1. \A s \in base : Lies(s, s)
  BY LiesInItself DEF PlainMandate
<1>2. Intersect(scope, base) \subseteq InPlay
  BY DEF Intersect
<1>3. ASSUME NEW p \in Intersect(scope, base)
      PROVE  \E s \in base : Lies(p, s)
  <2>1. CASE p \in base
    BY <1>1, <2>1
  <2>2. CASE p \in scope /\ \E q \in base : Subsumes(q, p)
    <3>1. PICK q \in base : Subsumes(q, p)
      BY <2>2
    <3> QED  BY <1>1, <2>2, <3>1, SubsumedWithin
  <2> QED  BY <1>3, <2>1, <2>2 DEF Intersect
<1> QED  BY <1>2, <1>3, BaseIsPlain DEF Covered

\* Another axis leaves a contract within its base.
LEMMA NarrowCovered ==
  ASSUME PlainMandate, NEW base, base \subseteq InPlay, \A s \in base : s.tail = <<>>,
         NEW scope, Covered(scope, base), NEW axis, axis = Anything \/ axis \subseteq InPlay
  PROVE  Covered(Narrow(scope, axis), base)
<1>1. scope # Anything
  BY DEF Covered
<1>2. Narrow(scope, axis) = IF axis = Anything THEN scope ELSE Intersect(scope, axis)
  BY <1>1 DEF Narrow
<1> QED  BY <1>2, IntersectCovered

\* What an execution may write lies in the scope and in the paths of the grant.
LEMMA EffectiveCovered ==
  ASSUME PlainMandate, NEW role, role = Anything \/ role \subseteq InPlay,
         NEW ceiling, ceiling = Anything \/ ceiling \subseteq InPlay
  PROVE  /\ Effective(role, ceiling) = Anything \/ Effective(role, ceiling) \subseteq InPlay
         /\ mandate.include # {} => Covered(Effective(role, ceiling), mandate.include)
         /\ GrantAxis # Anything => Covered(Effective(role, ceiling), GrantAxis)
<1> DEFINE start == Narrow(ScopeAxis, GrantAxis)  inner == Narrow(start, role)  met == Narrow(inner, ceiling)
           pick == {p \in Sanitized(met) : ~IsExcluded(p, mandate.exclude)}
<1>1. /\ mandate.include \subseteq InPlay /\ \A S \in SUBSET InPlay : S # Anything
      /\ GrantAxis # Anything => GrantAxis \subseteq InPlay /\ GrantAxis \subseteq mandate.grant
  BY BaseIsPlain
<1>2. \A s \in mandate.include : s.tail = <<>>
  BY DEF PlainMandate
<1>3. GrantAxis # Anything => \A s \in GrantAxis : s.tail = <<>>
  BY <1>1 DEF PlainMandate, AxisPatterns, GrantAxis
<1>4. ASSUME NEW scope, scope = Anything \/ scope \subseteq InPlay, NEW axis, axis = Anything \/ axis \subseteq InPlay
      PROVE  Narrow(scope, axis) = Anything \/ Narrow(scope, axis) \subseteq InPlay
  BY <1>4 DEF Narrow, Intersect
<1>5. ScopeAxis = Anything \/ ScopeAxis \subseteq InPlay
  BY <1>1 DEF ScopeAxis
<1>6. start = Anything \/ start \subseteq InPlay
  BY <1>1, <1>4, <1>5
<1>7. inner = Anything \/ inner \subseteq InPlay
  BY <1>4, <1>6
<1>8. met = Anything \/ met \subseteq InPlay
  BY <1>4, <1>7
<1>9. Effective(role, ceiling) = IF met = Anything THEN Anything ELSE pick
  BY DEF Effective
<1>10. ASSUME NEW base, base \subseteq InPlay, \A s \in base : s.tail = <<>>, Covered(start, base)
       PROVE  Covered(Effective(role, ceiling), base)
  <2>1. Covered(inner, base)
    BY <1>10, NarrowCovered
  <2>2. Covered(met, base)
    BY <1>10, <2>1, NarrowCovered
  <2>3. Effective(role, ceiling) = pick /\ pick \subseteq met
    BY <1>9, <2>2 DEF Covered, Sanitized
  <2>4. met \subseteq InPlay /\ \A p \in met : \E s \in base : Lies(p, s)
    BY <2>2 DEF Covered
  <2> QED  BY <1>1, <2>3, <2>4 DEF Covered
<1>11. ASSUME mandate.include # {}
       PROVE  Covered(start, mandate.include)
  <2>1. ScopeAxis = mandate.include
    BY <1>11 DEF ScopeAxis
  <2>2. Covered(mandate.include, mandate.include)
    <3>1. \A s \in mandate.include : Lies(s, s)
      BY <1>1, LiesInItself DEF PlainMandate
    <3> QED  BY <1>1, <3>1 DEF Covered
  <2> QED  BY <1>1, <1>2, <2>1, <2>2, NarrowCovered
<1>12. ASSUME GrantAxis # Anything
       PROVE  Covered(start, GrantAxis)
  <2>1. CASE ScopeAxis = Anything
    <3>1. \A s \in GrantAxis : Lies(s, s)
      BY <1>1, <1>12, LiesInItself DEF PlainMandate
    <3>2. start = GrantAxis
      BY <1>12, <2>1 DEF Narrow
    <3> QED  BY <1>1, <1>12, <3>1, <3>2 DEF Covered
  <2>2. CASE ScopeAxis # Anything
    <3>1. start = Intersect(ScopeAxis, GrantAxis)
      BY <1>12, <2>2 DEF Narrow
    <3> QED  BY <1>1, <1>3, <1>5, <1>12, <2>2, <3>1, IntersectWithBase
  <2> QED  BY <2>1, <2>2
<1> HIDE DEF start
<1>13. mandate.include # {} => Covered(Effective(role, ceiling), mandate.include)
  BY <1>1, <1>2, <1>10, <1>11
<1>14. GrantAxis # Anything => Covered(Effective(role, ceiling), GrantAxis)
  BY <1>1, <1>3, <1>10, <1>12
<1>15. Effective(role, ceiling) = Anything \/ Effective(role, ceiling) \subseteq InPlay
  BY <1>8, <1>9 DEF Sanitized
<1> QED  BY <1>13, <1>14, <1>15

\* A file in the contract is within the bounds the verdict looks at.
LEMMA ContractWithinBounds ==
  ASSUME ScopeInv, stage = "running", NEW path \in WrittenPaths, InContract(path)
  PROVE  WithinBounds(path)
<1>1. PlainMandate /\ path \in Seq(Names)
  BY DEF ScopeInv, PlainMandate
<1>2. ASSUME NEW base, base \subseteq InPlay, \A s \in base : s.tail = <<>>, Covered(pact, base)
      PROVE  Admits(base, path)
  <2>1. pact # Anything /\ pact \subseteq InPlay /\ Admits(pact, path)
    BY <1>2 DEF Covered, InContract
  <2>2. PICK p \in pact : Matches(path, p)
    BY <2>1 DEF Admits
  <2>3. PICK s \in base : Lies(p, s)
    BY <1>2 DEF Covered
  <2>4. Matches(path, s)
    BY <1>1, <1>2, <2>1, <2>2, <2>3, MatchWithin DEF PlainMandate
  <2> QED  BY <2>4 DEF Admits
<1>3. mandate.include # {} => Admits(mandate.include, path)
  BY <1>1, <1>2, BaseIsPlain DEF ScopeInv, PlainMandate
<1>4. GrantAxis # Anything => Admits(GrantAxis, path)
  <2>1. GrantAxis # Anything => \A s \in GrantAxis : s.tail = <<>>
    BY <1>1, BaseIsPlain DEF PlainMandate, AxisPatterns, GrantAxis
  <2> QED  BY <1>1, <1>2, <2>1, BaseIsPlain DEF ScopeInv
<1> QED  BY <1>3, <1>4 DEF WithinBounds, InContract

\* Every step keeps the contract within the base and the worktree within the bounds.
LEMMA ScopeStep ==
  ASSUME ScopeInv, [ScopeNext]_scopeVars
  PROVE  ScopeInv'
<1>1. PlainMandate
  BY DEF ScopeInv
<1>2. mandate' = mandate
  BY DEF ScopeNext, StartOrchestrator, Compile, AgentWrites, Inspect, AgentFails, scopeVars
<1>3. InPlay' = InPlay /\ GrantAxis' = GrantAxis /\ PlainMandate'
  BY <1>1, <1>2 DEF InPlay, GrantAxis, PlainMandate, Resolve
<1>4. \A path : WithinBounds(path)' <=> WithinBounds(path)
  BY <1>2, <1>3 DEF WithinBounds
<1>5. ASSUME StartOrchestrator  PROVE ScopeInv'
  <2>1. stage' \in {"not_started", "idle"} /\ UNCHANGED <<mandate, pact, changed, mutated, astray>>
    BY <1>5 DEF StartOrchestrator
  <2> QED  BY <1>3, <1>4, <2>1 DEF ScopeInv, InsideContractIsAccepted
<1>6. ASSUME NEW r \in DOMAIN RoleTemplates, Compile(r)  PROVE ScopeInv'
  <2>1. CASE stage' = "blocked" /\ UNCHANGED <<mandate, changed, mutated, astray>>
    BY <1>3, <1>4, <2>1 DEF ScopeInv, InsideContractIsAccepted
  <2>2. CASE /\ stage' = "running" /\ pact' = Effective(RoleAxis(r), CeilingAxis)
             /\ UNCHANGED <<mandate, changed, mutated, astray>>
    <3>1. /\ pact' = Anything \/ pact' \subseteq InPlay
          /\ mandate.include # {} => Covered(pact', mandate.include)
          /\ GrantAxis # Anything => Covered(pact', GrantAxis)
      BY <1>1, <2>2, BaseIsPlain, EffectiveCovered
    <3> QED  BY <1>2, <1>3, <1>4, <2>2, <3>1 DEF ScopeInv, InsideContractIsAccepted, Covered
  <2> QED  BY <1>6, <2>1, <2>2 DEF Compile
<1>7. ASSUME NEW path \in WrittenPaths, AgentWrites(path)  PROVE ScopeInv'
  <2>1. /\ stage = "running" /\ UNCHANGED <<mandate, stage, pact>>
        /\ astray' = (astray \/ ~InContract(path))
        /\ (InControlPlane(path) /\ mutated' = TRUE /\ changed' = changed)
           \/ (~InControlPlane(path) /\ mutated' = mutated /\ changed' = changed \cup {path})
    BY <1>7 DEF AgentWrites
  <2>2. InContract(path) => WithinBounds(path) /\ ~InControlPlane(path)
    BY <2>1, ContractWithinBounds DEF InContract
  <2>3. (mutated => astray)' /\ changed' \subseteq WrittenPaths
    <3>1. mutated => astray
      BY DEF ScopeInv
    <3>2. mutated' => astray'
      BY <2>1, <2>2, <3>1, Zenon
    <3>3. changed' \subseteq WrittenPaths
      BY <2>1 DEF ScopeInv
    <3> QED  BY <3>2, <3>3
  <2>4. astray' \/ \A f \in changed' : WithinBounds(f)
    BY <2>1, <2>2 DEF ScopeInv
  <2>5. (stage = "running" =>
           /\ pact = Anything \/ pact \subseteq InPlay
           /\ mandate.include # {} => Covered(pact, mandate.include)
           /\ GrantAxis # Anything => Covered(pact, GrantAxis))'
    BY <1>2, <1>3, <2>1 DEF ScopeInv, Covered
  <2>6. InsideContractIsAccepted'
    BY <2>1 DEF InsideContractIsAccepted
  <2> QED  BY <1>3, <1>4, <2>3, <2>4, <2>5, <2>6 DEF ScopeInv
<1>8. ASSUME Inspect  PROVE ScopeInv'
  <2>1. (mutated \/ Violates) => astray
    BY DEF ScopeInv, Violates, Inspected
  <2>2. /\ stage' \in {"stopped", "idle"} /\ (stage' = "stopped" => astray) /\ astray' = astray
        /\ changed' \subseteq changed /\ mutated' = FALSE
    BY <1>8, <2>1 DEF Inspect
  <2> QED  BY <1>3, <1>4, <2>2 DEF ScopeInv, InsideContractIsAccepted
<1>9. ASSUME AgentFails  PROVE ScopeInv'
  BY <1>3, <1>4, <1>9 DEF ScopeInv, InsideContractIsAccepted, AgentFails
<1>10. ASSUME UNCHANGED scopeVars  PROVE ScopeInv'
  BY <1>3, <1>4, <1>10 DEF ScopeInv, InsideContractIsAccepted, Covered, scopeVars
<1> QED  BY <1>5, <1>6, <1>7, <1>8, <1>9, <1>10 DEF ScopeNext

\* A Run stops with out_of_workspace_write (boundary.py) only when an agent wrote a file outside
\* the contract compiled for it (scope.py), for every mandate whose patterns are written plainly.
THEOREM ContractsAreAccepted == PlainMandate /\ ScopeSpec => []InsideContractIsAccepted
<1>1. PlainMandate /\ ScopeInit => ScopeInv
  BY DEF ScopeInit, ScopeInv, InsideContractIsAccepted
<1>2. ScopeInv /\ [ScopeNext]_scopeVars => ScopeInv'
  BY ScopeStep
<1>3. ScopeInv => InsideContractIsAccepted
  BY DEF ScopeInv
<1> QED  BY <1>1, <1>2, <1>3, PTL DEF ScopeSpec
====
