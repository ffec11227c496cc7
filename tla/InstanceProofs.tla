--------------------------- MODULE InstanceProofs ---------------------------
(***************************************************************************)
(* What holds for every instance, every product and every installation of  *)
(* the tools around it: the migration of an install to an instance of its  *)
(* own, the transactional update, the members of an ensemble and the       *)
(* composition what is accepted of the product is of.                      *)
(***************************************************************************)
EXTENDS Ensemble, Installer, InstanceMigration, TLAPS

-----------------------------------------------------------------------------
(* The migration                                                           *)

AllWhole == \A x \in Trees : source[x] = "whole"
Saved == \A x \in Trees : backup[x] = "whole"

\* Where a migration has not run to its end, either the source is whole, or the
\* backup is and an instance that is not empty keeps the next migration from
\* overwriting it, or the archive was made and the source is a link.
MInv ==
  /\ MigrationTypeOK
  /\ starts \in Nat /\ failures \in Nat
  /\ step \in {"backup", "create"} => instance = Nothing
  /\ step \in {"backup", "create", "drop_backup", "clear_instance"} => AllWhole
  /\ step = "backup" => \A x \in Trees : backup[x] \in {"none", "whole"}
  /\ step \in Caught \cup {"restore"} => Saved
  /\ step \in {"move", "configure", "strip", "overlay", "archive"} => instance[Agents] # "none"
  /\ step = "restore" => AllWhole \/ instance[Agents] # "none"
  /\ step \in Late \cup {"archive", "migrated"} => source[AiTeam] = "link"
  /\ step \in Late \cup {"migrated"} => archive
  /\ step = "idle" => \/ AllWhole
                      \/ Saved /\ instance[Agents] # "none"
                      \/ archive /\ source[AiTeam] = "link"

LEMMA MigrationInitially == MigrationInit => MInv
<1> SUFFICES ASSUME MigrationInit PROVE MInv  OBVIOUS
<1>1. MigrationTypeOK  BY DEF MigrationInit, MigrationTypeOK, Nothing, Steps
<1>2. AllWhole /\ step = "idle" /\ starts \in Nat /\ failures \in Nat  BY DEF MigrationInit, AllWhole
<1> QED  BY <1>1, <1>2 DEF MInv, Caught, Late

\* A step that is cut short leaves every tree it was not at as it was, and when
\* the backup was not being removed, the backup.
LEMMA CutShortKeeps ==
  ASSUME MInv, CutShort
  PROVE  /\ source' \in [Trees -> {"none", "whole", "part", "link"}]
         /\ instance' \in [Trees -> {"none", "whole", "part", "moved"}]
         /\ backup' \in [Trees -> {"none", "whole", "part"}]
         /\ instance'[Agents] = instance[Agents]
         /\ step # "remove_backup" => backup' = backup
         /\ step # "move" => source' = source /\ instance' = instance
<1>1. Agents \in Trees  BY MigrationAssumption
<1>2. CASE UNCHANGED <<source, instance, backup>>  BY <1>2 DEF MInv, MigrationTypeOK
<1>3. ASSUME NEW x \in Trees \ {Agents}, step = "move", backup' = backup,
             \/ instance' = [instance EXCEPT ![x] = "part"] /\ UNCHANGED source
             \/ /\ instance' = [instance EXCEPT ![x] = "whole"]
                /\ source' = [source EXCEPT ![x] = "part"]
      PROVE  /\ source' \in [Trees -> {"none", "whole", "part", "link"}]
             /\ instance' \in [Trees -> {"none", "whole", "part", "moved"}]
             /\ instance'[Agents] = instance[Agents]
  BY <1>1, <1>3 DEF MInv, MigrationTypeOK
<1>4. ASSUME NEW x \in Trees, step = "remove_backup", backup' = [backup EXCEPT ![x] = "part"],
             UNCHANGED <<source, instance>>
      PROVE  backup' \in [Trees -> {"none", "whole", "part"}]
  BY <1>4 DEF MInv, MigrationTypeOK
<1> QED  BY <1>2, <1>3, <1>4 DEF CutShort, MInv, MigrationTypeOK

LEMMA MigrationSteps ==
  ASSUME ~LateFailures, MInv, [MigrationNext]_migVars
  PROVE  MInv'
<1> USE DEF MigrationTypeOK, AllWhole, Saved, Caught, Late, Steps, SameCounts
<1>a. AiTeam \in Trees /\ Agents \in Trees /\ AiTeam # Agents  BY MigrationAssumption
<1>b. Nothing \in [Trees -> {"none"}] /\ \A x \in Trees : Nothing[x] = "none"  BY DEF Nothing
<1>1. CASE StartMigration  BY <1>1, <1>a, <1>b DEF StartMigration, MInv
<1>2. CASE NameAnotherInstance  BY <1>2, <1>a, <1>b DEF NameAnotherInstance, MInv
<1>3. ASSUME NEW x \in Trees, BackUpTree(x) PROVE MInv'
  BY <1>3, <1>a DEF BackUpTree, MInv
<1>4. ASSUME NEW x \in Trees, MoveTree(x) PROVE MInv'
  BY <1>4, <1>a DEF MoveTree, MInv
<1>5. ASSUME NEW x \in Trees, RestoreTree(x) PROVE MInv'
  BY <1>5, <1>a DEF RestoreTree, MInv
<1>6. CASE Prepare  BY <1>6, <1>a DEF Prepare, BackedUp, MInv
<1>7. CASE CreateInstance  BY <1>7, <1>a DEF CreateInstance, MInv
<1>8. CASE MoveDone  BY <1>8, <1>a DEF MoveDone, MInv
<1>9. CASE Configure  BY <1>9, <1>a DEF Configure, MInv
<1>10. CASE StripSource  BY <1>10, <1>a DEF StripSource, MInv
<1>11. CASE WriteOverlay  BY <1>11, <1>a DEF WriteOverlay, MInv
<1>12. CASE MakeArchive  BY <1>12, <1>a DEF MakeArchive, MInv
<1>13. CASE RemoveBackup  BY <1>13, <1>a, <1>b DEF RemoveBackup, MInv
<1>14. CASE WriteReceipt  BY <1>14, <1>a DEF WriteReceipt, MInv
<1>15. CASE RaiseError
  <2>1. step \in Caught  BY <1>15 DEF RaiseError
  <2>2. step' = "restore" /\ CutShort /\ failures' = failures + 1 /\ UNCHANGED <<archive, starts>>
    BY <1>15, <2>1 DEF RaiseError, AfterFailure
  <2>3. backup' = backup /\ Saved  BY <2>1, <2>2, CutShortKeeps DEF MInv
  <2>4. AllWhole' \/ instance'[Agents] # "none"
    <3>1. CASE step = "create"  BY <2>2, <3>1, CutShortKeeps DEF MInv
    <3>2. CASE step # "create"  BY <2>1, <2>2, <3>2, CutShortKeeps DEF MInv
    <3> QED  BY <3>1, <3>2
  <2>5. starts' \in Nat /\ failures' \in Nat  BY <2>2 DEF MInv
  <2>6. MigrationTypeOK'  BY <2>2, CutShortKeeps DEF MInv
  <2> QED  BY <2>2, <2>3, <2>4, <2>5, <2>6 DEF MInv
<1>16. CASE BackupFails  BY <1>16, <1>a DEF BackupFails, MInv
<1>17. CASE RestoreDone  BY <1>17, <1>a DEF RestoreDone, MInv
<1>18. CASE DropBackup  BY <1>18, <1>a, <1>b DEF DropBackup, MInv
<1>19. CASE ClearInstance  BY <1>19, <1>a, <1>b DEF ClearInstance, MInv
<1>20. CASE MigrationCrash
  <2>1. step \in Steps \ {"idle", "migrated"} /\ step' = "idle" /\ failures' = failures + 1
        /\ UNCHANGED <<archive, starts>>
    BY <1>20 DEF MigrationCrash, MInv
  <2> DEFINE Safe == \/ AllWhole'
                     \/ Saved' /\ instance'[Agents] # "none"
                     \/ archive' /\ source'[AiTeam] = "link"
  <2>2. ASSUME CutShort PROVE MigrationTypeOK' /\ Safe
    <3>1. MigrationTypeOK'  BY <2>1, <2>2, CutShortKeeps DEF MInv
    <3>2. CASE step \in Late
      <4>1. archive /\ source[AiTeam] = "link"  BY <3>2 DEF MInv
      <4>2. source' = source  BY <2>2, <3>2, CutShortKeeps
      <4>3. archive' /\ source'[AiTeam] = "link"  BY ONLY <2>1, <4>1, <4>2
      <4> QED  BY ONLY <3>1, <4>3
    <3>3. CASE step \in {"backup", "drop_backup", "clear_instance", "create"}
      <4>1. AllWhole  BY <3>3 DEF MInv
      <4>2. source' = source  BY <2>2, <3>3, CutShortKeeps
      <4>3. AllWhole'  BY ONLY <4>1, <4>2 DEF AllWhole
      <4> QED  BY ONLY <3>1, <4>3
    <3>4. CASE step \in {"move", "configure", "strip", "overlay", "archive", "restore"}
      <4>1. backup' = backup /\ Saved  BY <2>2, <3>4, CutShortKeeps DEF MInv
      <4>2. AllWhole' \/ instance'[Agents] # "none"
        <5>1. CASE step = "restore"  BY <2>2, <5>1, CutShortKeeps DEF MInv
        <5>2. CASE step # "restore"  BY <2>2, <3>4, <5>2, CutShortKeeps DEF MInv
        <5> QED  BY <5>1, <5>2
      <4>3. Saved'  BY ONLY <4>1 DEF Saved
      <4> QED  BY ONLY <3>1, <4>2, <4>3
    <3> HIDE DEF Safe
    <3> QED  BY <2>1, <3>1, <3>2, <3>3, <3>4
  <2>3. ASSUME NEW x \in Trees, NEW c \in {"none", "part"}, step = "restore", source[x] # backup[x],
               source' = [source EXCEPT ![x] = c], UNCHANGED <<instance, backup>>
        PROVE  MigrationTypeOK' /\ Safe
    <3>1. Saved /\ instance[Agents] # "none"  BY <2>3 DEF MInv
    <3>2. MigrationTypeOK'  BY <2>1, <2>3 DEF MInv
    <3>3. Saved' /\ instance'[Agents] # "none"  BY ONLY <2>3, <3>1 DEF Saved
    <3> QED  BY ONLY <3>2, <3>3
  <2>4. ASSUME NEW x \in Trees, step = "drop_backup", backup' = [backup EXCEPT ![x] = "part"],
               UNCHANGED <<source, instance>>
        PROVE  MigrationTypeOK' /\ Safe
    <3>1. AllWhole  BY <2>4 DEF MInv
    <3>2. MigrationTypeOK'  BY <2>1, <2>4 DEF MInv
    <3>3. AllWhole'  BY ONLY <2>4, <3>1 DEF AllWhole
    <3> QED  BY ONLY <3>2, <3>3
  <2> HIDE DEF MigrationTypeOK, AllWhole, Saved, Safe
  <2>5. MigrationTypeOK' /\ Safe  BY <1>20, <2>2, <2>3, <2>4 DEF MigrationCrash
  <2> USE DEF Safe
  <2>6. starts' \in Nat /\ failures' \in Nat  BY <2>1 DEF MInv
  <2> HIDE DEF MigrationTypeOK, AllWhole, Saved
  <2> QED  BY <2>1, <2>5, <2>6 DEF MInv
<1>21. CASE UNCHANGED migVars  BY <1>21 DEF migVars, MInv, Nothing
<1> QED
  BY <1>1, <1>2, <1>3, <1>4, <1>5, <1>6, <1>7, <1>8, <1>9, <1>10, <1>11, <1>12, <1>13, <1>14,
     <1>15, <1>16, <1>17, <1>18, <1>19, <1>20, <1>21 DEF MigrationNext
LEMMA MigrationInvariant == ~LateFailures => (MigrationSpec => []MInv)
<1> SUFFICES ASSUME ~LateFailures PROVE MigrationSpec => []MInv  OBVIOUS
<1>1. MInv /\ [MigrationNext]_migVars => MInv'  BY MigrationSteps
<1> QED  BY <1>1, MigrationInitially, PTL DEF MigrationSpec

\* Whichever step of a migration fails or is cut off by a crash, as often as it
\* may, each tree of the source is complete in some place (migrate_to_instance.py:
\* the backup is complete before the first move, and is removed after the archive).
\* Errors after the backup began to be removed are left out: they are a finding.
THEOREM MigrationLosesNothing == ~LateFailures => (MigrationSpec => []NothingIsLost)
<1> SUFFICES ASSUME ~LateFailures PROVE MigrationSpec => []NothingIsLost  OBVIOUS
<1>1. MInv => NothingIsLost
  BY MigrationAssumption DEF MInv, MigrationTypeOK, NothingIsLost, Kept, AllWhole, Saved, Caught, Late, Steps
<1> QED  BY <1>1, MigrationInvariant, PTL

\* A migration that fails and goes back leaves the source whole and the instance
\* empty (the except clause of migrate_to_instance).
THEOREM FailureRestoresSource == ~LateFailures => (MigrationSpec => FailedMigrationRestores)
<1> SUFFICES ASSUME ~LateFailures PROVE MigrationSpec => FailedMigrationRestores  OBVIOUS
<1> DEFINE A == step = "clear_instance" /\ step' = "idle" /\ failures' = failures =>
                  \A x \in Trees : source'[x] = "whole" /\ instance'[x] = "none"
<1>1. ASSUME MInv, [MigrationNext]_migVars PROVE A
  <2> SUFFICES ASSUME step = "clear_instance", step' = "idle", failures' = failures
               PROVE  \A x \in Trees : source'[x] = "whole" /\ instance'[x] = "none"
    OBVIOUS
  <2>1. AllWhole /\ failures \in Nat  BY <1>1 DEF MInv
  <2>2. ~MigrationCrash /\ ~RaiseError /\ ~BackupFails
    <3>1. failures' # failures + 1  BY <2>1
    <3> QED  BY <3>1 DEF MigrationCrash, RaiseError, BackupFails
  <2>3. ClearInstance
    BY <1>1, <2>2 DEF MigrationNext, migVars, StartMigration, NameAnotherInstance, BackUpTree,
       MoveTree, RestoreTree, Prepare, CreateInstance, MoveDone, Configure, StripSource,
       WriteOverlay, MakeArchive, RemoveBackup, WriteReceipt, RestoreDone, DropBackup
  <2> QED  BY <2>1, <2>3 DEF ClearInstance, Nothing, AllWhole
<1>2. MigrationSpec => [][A]_migVars  BY <1>1, MigrationInvariant, PTL DEF MigrationSpec
<1> QED  BY <1>2 DEF FailedMigrationRestores
-----------------------------------------------------------------------------
(* The members of an ensemble                                              *)

MemberMap == UNION {[S -> Repos] : S \in SUBSET Members}
ReadMap == UNION {[S -> Shas] : S \in SUBSET Members}

Member == [revision : Nat, members : MemberMap, current : Compositions \cup {Absent}]
Client == [ensemble : Ensembles \cup {Absent}, member : Members \cup {Absent}]
Accepted == [kind : Products, ensemble : Ensembles, composition : Compositions \cup {Absent}]

\* The command under way between two steps: a registration, or one that reads HEADs.
Registering ==
  [client : Clients, kind : {"member"}, ensemble : Ensembles, member : Members, repo : Repos]
Comparing ==
  [client : Clients, kind : Products \cup {"pin"}, ensemble : Ensembles,
   composition : Compositions \cup {Absent}, todo : SUBSET Members, read : ReadMap,
   since : [Repos -> SUBSET Shas]]

EnsembleTypeOK ==
  /\ ensembles \in [Ensembles -> {Absent} \cup Member]
  /\ active \in Ensembles \cup {Absent}
  /\ heads \in [Repos -> Shas] /\ links \in [Repos -> {Absent} \cup Link]
  /\ clients \in [Clients -> {Absent} \cup Client]
  /\ busy \in {Absent} \cup Registering \cup Comparing
  /\ product \in Seq(Accepted)

Linked(r, m) == links[r] # Absent /\ links[r].here /\ links[r].member = m

\* No command changes an ensemble that the one under way has looked up, and the
\* repository it is to register leads here already.
UnderWay ==
  busy # Absent =>
    /\ ensembles[busy.ensemble] # Absent
    /\ busy.kind = "member" => Linked(busy.repo, busy.member)

\* The HEADs that were read are HEADs the members had since the command began.
Observed ==
  busy # Absent /\ busy.kind # "member" =>
    /\ \A r \in Repos : heads[r] \in busy.since[r]
    /\ busy.todo \cup DOMAIN busy.read \subseteq Declared(busy.ensemble)
    /\ \A m \in DOMAIN busy.read : busy.read[m] \in busy.since[RepoOf(busy.ensemble, m)]

\* What is to be accepted of several members is about the composition that is
\* still current, and has read or is to read every member that is declared.
OnComposition ==
  busy # Absent /\ busy.kind \in Products /\ Several(busy.ensemble) =>
    /\ busy.composition # Absent /\ busy.composition = CurrentOf(busy.ensemble)
    /\ busy.kind \in Checked => busy.todo \cup DOMAIN busy.read = Declared(busy.ensemble)

EInv == EnsembleTypeOK /\ UnderWay /\ Observed /\ OnComposition /\ MembersAreLinked

LEMMA EnsembleInitially == EnsembleInit => EInv
<1> SUFFICES ASSUME EnsembleInit PROVE EInv  OBVIOUS
<1>1. EnsembleTypeOK  BY DEF EnsembleInit, EnsembleTypeOK
<1>2. \A e \in Ensembles : ~Enrolled(e)  BY DEF EnsembleInit, Enrolled
<1>3. MembersAreLinked  BY <1>2 DEF MembersAreLinked, Declared
<1>4. busy = Absent  BY DEF EnsembleInit
<1> QED  BY <1>1, <1>3, <1>4 DEF EInv, UnderWay, Observed, OnComposition

\* What a member of an enrolled ensemble is.
LEMMA DeclaredTyped ==
  ASSUME EnsembleTypeOK, NEW e \in Ensembles
  PROVE  /\ Declared(e) \subseteq Members /\ \A m \in Declared(e) : RepoOf(e, m) \in Repos
         /\ Declared(e) # {} => Enrolled(e)
         /\ Enrolled(e) => ensembles[e] \in Member /\ Declared(e) = DOMAIN ensembles[e].members
<1>1. ASSUME Enrolled(e)
      PROVE  /\ ensembles[e] \in Member /\ Declared(e) = DOMAIN ensembles[e].members
             /\ Declared(e) \subseteq Members /\ \A m \in Declared(e) : RepoOf(e, m) \in Repos
  <2>1. ensembles[e] \in Member  BY <1>1 DEF EnsembleTypeOK, Enrolled
  <2>2. PICK S \in SUBSET Members : ensembles[e].members \in [S -> Repos]
    BY <2>1 DEF Member, MemberMap
  <2> QED  BY <1>1, <2>1, <2>2 DEF Declared, RepoOf
<1>2. CASE ~Enrolled(e)  BY <1>2 DEF Declared
<1> QED  BY <1>1, <1>2

\* A process that moves, and a new active ensemble, leave the members alone.
LEMMA NothingRead ==
  ASSUME EInv, UNCHANGED <<ensembles, heads, links, busy>>
  PROVE  UnderWay' /\ Observed' /\ OnComposition' /\ MembersAreLinked'
BY DEF EInv, UnderWay, Observed, OnComposition, MembersAreLinked, Declared, Enrolled, RepoOf,
       CurrentOf, Several, Linked

\* An ensemble is told nothing new, and the command under way is over.
LEMMA CommandOver ==
  ASSUME EInv, busy' = Absent
  PROVE  UnderWay' /\ Observed' /\ OnComposition'
BY DEF UnderWay, Observed, OnComposition

LEMMA DiscoverStep ==
  ASSUME EInv, NEW p \in Clients, Discover(p) PROVE EInv'
<1>1. UNCHANGED <<ensembles, active, heads, links, busy, product>>  BY DEF Discover, documents
<1>2. PICK x : clients' = [clients EXCEPT ![p] = x] /\ x \in Client
  <2>1. CASE clients' = [clients EXCEPT ![p] = [ensemble |-> active, member |-> Absent]]
    <3>1. [ensemble |-> active, member |-> Absent] \in Client  BY DEF EInv, EnsembleTypeOK, Client
    <3> QED  BY <2>1, <3>1
  <2>2. ASSUME NEW r \in Repos, links[r] # Absent,
               clients' = [clients EXCEPT ![p] = [ensemble |-> links[r].ensemble, member |-> links[r].member]]
        PROVE  \E x : clients' = [clients EXCEPT ![p] = x] /\ x \in Client
    <3>1. links[r] \in Link  BY <2>2 DEF EInv, EnsembleTypeOK
    <3>2. [ensemble |-> links[r].ensemble, member |-> links[r].member] \in Client
      BY <3>1 DEF Link, Client
    <3> QED  BY <2>2, <3>2
  <2> QED  BY <2>1, <2>2 DEF Discover
<1>3. EnsembleTypeOK'  BY <1>1, <1>2 DEF EInv, EnsembleTypeOK
<1> QED  BY <1>1, <1>3, NothingRead DEF EInv

LEMMA RegisterEnsembleStep ==
  ASSUME EInv, NEW p \in Clients, NEW e \in Ensembles, RegisterEnsemble(p, e) PROVE EInv'
<1> DEFINE x == [revision |-> 1, members |-> [m \in {} |-> Absent], current |-> Absent]
<1>1. /\ busy = Absent /\ busy' = Absent /\ ensembles' = [ensembles EXCEPT ![e] = x]
      /\ UNCHANGED <<active, heads, links, clients, product>>
  BY DEF RegisterEnsemble, MayCommand
<1>2. x \in Member /\ DOMAIN x.members = {}
  <2>1. [m \in {} |-> Absent] \in [{} -> Repos]  OBVIOUS
  <2>2. [m \in {} |-> Absent] \in MemberMap  BY <2>1 DEF MemberMap
  <2> QED  BY <2>2 DEF Member
<1> HIDE DEF x
<1>3. EnsembleTypeOK'  BY <1>1, <1>2 DEF EInv, EnsembleTypeOK
<1>4. ensembles'[e] = x /\ \A f \in Ensembles : f # e => ensembles'[f] = ensembles[f]
  BY <1>1 DEF EInv, EnsembleTypeOK
<1>5. MembersAreLinked'
  <2>1. Declared(e)' = {}  BY <1>2, <1>4 DEF Declared
  <2>2. \A f \in Ensembles : f # e => Declared(f)' = Declared(f)  BY <1>4 DEF Declared, Enrolled
  <2> QED  BY <1>1, <1>4, <2>1, <2>2 DEF EInv, MembersAreLinked, RepoOf
<1> QED  BY <1>1, <1>3, <1>5, CommandOver DEF EInv

LEMMA SetActiveStep ==
  ASSUME EInv, NEW p \in Clients, NEW e \in Ensembles, SetActiveEnsemble(p, e) PROVE EInv'
<1>1. active' = e /\ UNCHANGED <<ensembles, heads, links, clients, busy, product>>
  BY DEF SetActiveEnsemble
<1>2. EnsembleTypeOK'  BY <1>1 DEF EInv, EnsembleTypeOK
<1> QED  BY <1>1, <1>2, NothingRead DEF EInv

\* A repository that is linked already keeps its member id, so no other ensemble
\* that declares it is misled.
LEMMA LinkMemberStep ==
  ASSUME EInv, NEW p \in Clients, NEW e \in Ensembles, NEW m \in Members, NEW r \in Repos, NEW x,
         LinkMember(p, e, m, r, x)
  PROVE  EInv'
<1> DEFINE l == [here |-> TRUE, ensemble |-> e, member |-> m]
           b == [client |-> p, kind |-> "member", ensemble |-> e, member |-> m, repo |-> r]
<1>1. /\ Enrolled(e) /\ Linkable(r, m) /\ links' = [links EXCEPT ![r] = l] /\ busy' = b
      /\ UNCHANGED <<ensembles, active, heads, clients, product>>
  BY DEF LinkMember, documents
<1>2. l \in Link /\ l # Absent /\ l.here /\ l.member = m
  <2>1. l \in Link  BY DEF Link
  <2> QED  BY <2>1, EnsembleAssumption
<1>3. b \in Registering /\ b.kind = "member" /\ b.ensemble = e /\ b.repo = r /\ b.member = m
  BY DEF Registering
<1> HIDE DEF l, b
<1>4. EnsembleTypeOK'  BY <1>1, <1>2, <1>3 DEF EInv, EnsembleTypeOK
<1>5. links'[r] = l /\ \A q \in Repos : q # r => links'[q] = links[q]
  BY <1>1 DEF EInv, EnsembleTypeOK
<1>6. UnderWay'  BY <1>1, <1>2, <1>3, <1>5 DEF UnderWay, Linked, Enrolled
<1>7. Observed' /\ OnComposition'  BY <1>1, <1>3 DEF Observed, OnComposition, Products, Checked
<1>8. MembersAreLinked'
  <2>1. \A f \in Ensembles : Declared(f)' = Declared(f)  BY <1>1 DEF Declared, Enrolled
  <2>2. ASSUME NEW f \in Ensembles, NEW n \in Declared(f) PROVE Linked(RepoOf(f, n), n)'
    <3>1. RepoOf(f, n) \in Repos /\ RepoOf(f, n)' = RepoOf(f, n)
      BY <1>1, <2>2, DeclaredTyped DEF EInv, RepoOf
    <3>2. Linked(RepoOf(f, n), n)  BY <2>2 DEF EInv, MembersAreLinked, Linked
    <3>3. CASE RepoOf(f, n) = r
      <4>1. n = m  BY <1>1, <3>2, <3>3 DEF Linkable, Linked
      <4> QED  BY <1>2, <1>5, <3>1, <3>3, <4>1 DEF Linked
    <3>4. CASE RepoOf(f, n) # r  BY <1>5, <3>1, <3>2, <3>4 DEF Linked
    <3> QED  BY <3>3, <3>4
  <2> QED  BY <2>1, <2>2 DEF MembersAreLinked, Linked
<1> QED  BY <1>4, <1>6, <1>7, <1>8 DEF EInv

LEMMA RegisterMemberStep ==
  ASSUME EInv, RegisterMember PROVE EInv'
<1>0. EnsembleTypeOK  BY DEF EInv
<1>1. busy # Absent /\ busy.kind = "member" /\ busy' = Absent
      /\ UNCHANGED <<active, heads, links, clients, product>>
  BY DEF RegisterMember
<1>2. busy \in Registering
  BY <1>0, <1>1 DEF EnsembleTypeOK, Comparing, Products, Checked
<1>3. PICK e \in Ensembles, n \in Members, r \in Repos :
        e = busy.ensemble /\ n = busy.member /\ r = busy.repo
  BY <1>2 DEF Registering
<1> DEFINE ids == Declared(e) \cup {n}
           map == [m \in ids |-> IF m = n THEN r ELSE ensembles[e].members[m]]
           k == ensembles[e].revision + 1
           x == [ensembles[e] EXCEPT !.members = map, !.revision = k]
<1>4. Enrolled(e) /\ Linked(r, n)
  BY <1>1, <1>3, EnsembleAssumption DEF EInv, UnderWay, Enrolled
<1>5. /\ ensembles[e] \in Member /\ Declared(e) = DOMAIN ensembles[e].members
      /\ Declared(e) \subseteq Members /\ \A m \in Declared(e) : RepoOf(e, m) \in Repos
  BY <1>0, <1>3, <1>4, DeclaredTyped
<1>6. ensembles' = [ensembles EXCEPT ![e] = x]
  BY <1>0, <1>3 DEF RegisterMember, EnsembleTypeOK
<1>7. map \in MemberMap /\ DOMAIN map = ids /\ map[n] = r
      /\ \A m \in ids : m # n => map[m] = RepoOf(e, m)
  <2>1. map \in [ids -> Repos]  BY <1>3, <1>5 DEF RepoOf
  <2>2. ids \in SUBSET Members  BY <1>3, <1>5
  <2> QED  BY <2>1, <2>2 DEF MemberMap, RepoOf
<1> HIDE DEF map
<1>7a. k \in Nat  BY <1>5 DEF Member
<1> HIDE DEF k
<1>8. x \in Member /\ x.members = map  BY <1>5, <1>7, <1>7a DEF Member
<1> HIDE DEF x
<1>9. EnsembleTypeOK'  BY <1>0, <1>1, <1>3, <1>6, <1>8 DEF EnsembleTypeOK
<1>10. ensembles'[e] = x /\ \A f \in Ensembles : f # e => ensembles'[f] = ensembles[f]
  BY <1>0, <1>3, <1>6 DEF EnsembleTypeOK
<1>11. MembersAreLinked'
  <2>1. ASSUME NEW f \in Ensembles, f # e, NEW m \in Declared(f)' PROVE Linked(RepoOf(f, m), m)'
    <3>1. m \in Declared(f) /\ RepoOf(f, m)' = RepoOf(f, m)
      BY <1>10, <2>1 DEF Declared, Enrolled, RepoOf
    <3> QED  BY <1>1, <3>1 DEF EInv, MembersAreLinked, Linked
  <2>2. ASSUME NEW m, m \in ids PROVE Linked(map[m], m)
    <3>1. CASE m = n  BY <1>4, <1>7, <3>1
    <3>2. CASE m # n  BY <1>3, <1>7, <2>2, <3>2 DEF EInv, MembersAreLinked, Linked
    <3> QED  BY <3>1, <3>2
  <2>3. ASSUME NEW m \in Declared(e)' PROVE Linked(RepoOf(e, m), m)'
    <3>1. m \in ids /\ ensembles'[e].members[m] = map[m]
      BY <1>7, <1>8, <1>10, <2>3 DEF Declared
    <3> QED  BY <1>1, <2>2, <3>1 DEF Linked, RepoOf
  <2> QED  BY <2>1, <2>3 DEF MembersAreLinked, Linked
<1> QED  BY <1>1, <1>9, <1>11, CommandOver DEF EInv
LEMMA AbandonStep == ASSUME EInv, Abandon PROVE EInv'
<1>1. busy' = Absent /\ UNCHANGED <<ensembles, active, heads, links, clients, product>>
  BY DEF Abandon, documents
<1>2. EnsembleTypeOK' /\ MembersAreLinked'
  BY <1>1 DEF EInv, EnsembleTypeOK, MembersAreLinked, Declared, Enrolled, RepoOf
<1> QED  BY <1>1, <1>2, CommandOver DEF EInv

LEMMA LinkElsewhereStep == ASSUME EInv, NEW r \in Repos, LinkElsewhere(r) PROVE EInv'
<1> DEFINE l == [here |-> FALSE, ensemble |-> Absent, member |-> Absent]
<1>1. /\ links[r] = Absent /\ links' = [links EXCEPT ![r] = l]
      /\ UNCHANGED <<ensembles, active, heads, clients, busy, product>>
  BY DEF LinkElsewhere, documents
<1>2. l \in Link  BY DEF Link
<1> HIDE DEF l
<1>3. EnsembleTypeOK'  BY <1>1, <1>2 DEF EInv, EnsembleTypeOK
<1>4. \A q, m : Linked(q, m) /\ q \in Repos => Linked(q, m)'
  BY <1>1 DEF EInv, EnsembleTypeOK, Linked
<1>5. MembersAreLinked'
  <2>1. ASSUME NEW f \in Ensembles, NEW n \in Declared(f)' PROVE Linked(RepoOf(f, n), n)'
    <3>1. n \in Declared(f) /\ RepoOf(f, n)' = RepoOf(f, n)
      BY <1>1, <2>1 DEF Declared, Enrolled, RepoOf
    <3>2. RepoOf(f, n) \in Repos /\ Linked(RepoOf(f, n), n)
      BY <3>1, DeclaredTyped DEF EInv, MembersAreLinked, Linked
    <3> QED  BY <1>4, <3>1, <3>2 DEF Linked
  <2> QED  BY <2>1 DEF MembersAreLinked, Linked
<1>6. UnderWay'
  <2>1. ASSUME busy # Absent, busy.kind = "member" PROVE Linked(busy.repo, busy.member)'
    <3>1. busy \in Registering
      BY <2>1 DEF EInv, EnsembleTypeOK, Comparing, Products, Checked
    <3> QED  BY <1>1, <1>4, <2>1, <3>1 DEF EInv, UnderWay, Registering, Linked
  <2> QED  BY <1>1, <2>1 DEF EInv, UnderWay
<1>7. Observed' /\ OnComposition'
  BY <1>1 DEF EInv, Observed, OnComposition, Declared, Enrolled, RepoOf, CurrentOf, Several
<1> QED  BY <1>3, <1>5, <1>6, <1>7 DEF EInv

LEMMA CommitStep == ASSUME EInv, NEW r \in Repos, NEW s \in Shas, CommitIn(r, s) PROVE EInv'
<1>1. /\ heads' = [heads EXCEPT ![r] = s]
      /\ UNCHANGED <<ensembles, active, links, clients, product>>
  BY DEF CommitIn, documents
<1>2. MembersAreLinked'
  BY <1>1 DEF EInv, MembersAreLinked, Declared, Enrolled, RepoOf
<1>3. heads' \in [Repos -> Shas] /\ heads'[r] = s /\ \A q \in Repos : q # r => heads'[q] = heads[q]
  BY <1>1 DEF EInv, EnsembleTypeOK
<1>4. CASE busy = Absent \/ busy.kind = "member"
  <2>1. busy' = busy  BY <1>4 DEF CommitIn
  <2>2. EnsembleTypeOK' /\ UnderWay'
    BY <1>1, <1>3, <2>1 DEF EInv, EnsembleTypeOK, UnderWay, Linked
  <2>3. Observed' /\ OnComposition'
    BY <1>4, <2>1 DEF Observed, OnComposition, Products, Checked
  <2> QED  BY <1>2, <2>2, <2>3 DEF EInv
<1>5. CASE busy # Absent /\ busy.kind # "member"
  <2> DEFINE u == [busy.since EXCEPT ![r] = busy.since[r] \cup {s}]
             b == [busy EXCEPT !.since = u]
  <2>1. busy \in Comparing  BY <1>5 DEF EInv, EnsembleTypeOK, Registering
  <2>2. busy' = b  BY <1>5, <2>1 DEF CommitIn, Comparing
  <2>3. u \in [Repos -> SUBSET Shas] /\ s \in u[r] /\ \A q \in Repos : busy.since[q] \subseteq u[q]
    BY <2>1 DEF Comparing
  <2> HIDE DEF u
  <2>4. /\ b \in Comparing /\ b.since = u /\ b.kind = busy.kind /\ b.ensemble = busy.ensemble
        /\ b.composition = busy.composition /\ b.todo = busy.todo /\ b.read = busy.read
    BY <2>1, <2>3 DEF Comparing
  <2> HIDE DEF b
  <2>5. EnsembleTypeOK'  BY <1>1, <1>3, <2>2, <2>4 DEF EInv, EnsembleTypeOK
  <2>6. UnderWay'  BY <1>1, <1>5, <2>2, <2>4 DEF EInv, UnderWay
  <2>7. Observed'
    <3>1. \A f : Declared(f)' = Declared(f) /\ \A m : RepoOf(f, m)' = RepoOf(f, m)
      BY <1>1 DEF Declared, Enrolled, RepoOf
    <3>2. busy.ensemble \in Ensembles /\ DOMAIN busy.read \subseteq Declared(busy.ensemble)
      BY <1>5, <2>1 DEF EInv, Observed, Comparing
    <3>3. \A m \in DOMAIN busy.read : RepoOf(busy.ensemble, m) \in Repos
      BY <3>2, DeclaredTyped DEF EInv
    <3>4. \A q \in Repos : heads'[q] \in u[q]
      BY <1>3, <1>5, <2>3 DEF EInv, Observed
    <3>5. \A m \in DOMAIN busy.read : busy.read[m] \in u[RepoOf(busy.ensemble, m)]
      BY <1>5, <2>3, <3>3 DEF EInv, Observed
    <3> QED  BY <1>5, <2>2, <2>4, <3>1, <3>4, <3>5 DEF EInv, Observed
  <2>8. OnComposition'
    BY <1>1, <1>5, <2>2, <2>4 DEF EInv, OnComposition, Declared, Enrolled, CurrentOf, Several
  <2> QED  BY <1>2, <2>5, <2>6, <2>7, <2>8 DEF EInv
<1> QED  BY <1>4, <1>5

LEMMA ReadHeadStep == ASSUME EInv, NEW m \in Members, ReadHead(m) PROVE EInv'
<1> DEFINE e == busy.ensemble
           todo == busy.todo \ {m}
           read == [n \in DOMAIN busy.read \cup {m} |->
                      IF n = m THEN heads[RepoOf(e, m)] ELSE busy.read[n]]
           b == [busy EXCEPT !.todo = todo, !.read = read]
<1>1. /\ busy # Absent /\ busy.kind # "member" /\ m \in busy.todo /\ busy' = b
      /\ UNCHANGED <<ensembles, active, heads, links, clients, product>>
  BY DEF ReadHead, documents
<1>2. busy \in Comparing  BY <1>1 DEF EInv, EnsembleTypeOK, Registering
<1>3. /\ e \in Ensembles /\ todo \subseteq Members /\ m \in Declared(e)
      /\ busy.read \in ReadMap
  BY <1>1, <1>2 DEF EInv, Observed, Comparing
<1>4. RepoOf(e, m) \in Repos /\ heads \in [Repos -> Shas]
  BY <1>3, DeclaredTyped DEF EInv, EnsembleTypeOK
<1>5. /\ read \in ReadMap /\ DOMAIN read = DOMAIN busy.read \cup {m}
      /\ read[m] = heads[RepoOf(e, m)] /\ \A n \in DOMAIN busy.read : n # m => read[n] = busy.read[n]
  <2>1. PICK S \in SUBSET Members : busy.read \in [S -> Shas]  BY <1>3 DEF ReadMap
  <2>2. read \in [S \cup {m} -> Shas]  BY <1>4, <2>1
  <2>3. S \cup {m} \in SUBSET Members  OBVIOUS
  <2> QED  BY <2>1, <2>2, <2>3 DEF ReadMap
<1> HIDE DEF todo, read
<1>6. /\ b \in Comparing /\ b.since = busy.since /\ b.kind = busy.kind /\ b.ensemble = e
      /\ b.composition = busy.composition /\ b.todo = todo /\ b.read = read
  BY <1>2, <1>3, <1>5 DEF Comparing
<1> HIDE DEF b
<1>7. EnsembleTypeOK'  BY <1>1, <1>6 DEF EInv, EnsembleTypeOK
<1>8. UnderWay'  BY <1>1, <1>6 DEF EInv, UnderWay
<1>9. MembersAreLinked'
  BY <1>1 DEF EInv, MembersAreLinked, Declared, Enrolled, RepoOf
<1>10. \A f : Declared(f)' = Declared(f) /\ CurrentOf(f)' = CurrentOf(f) /\ \A n : RepoOf(f, n)' = RepoOf(f, n)
  BY <1>1 DEF Declared, Enrolled, RepoOf, CurrentOf
<1>11. todo \cup DOMAIN read = busy.todo \cup DOMAIN busy.read
  BY <1>1, <1>5 DEF todo
<1>12. Observed'
  <2>1. heads[RepoOf(e, m)] \in busy.since[RepoOf(e, m)]
    BY <1>1, <1>4 DEF EInv, Observed
  <2>2. \A n \in DOMAIN read : read[n] \in busy.since[RepoOf(e, n)]
    BY <1>1, <1>5, <2>1 DEF EInv, Observed
  <2>3. /\ \A r \in Repos : heads[r] \in busy.since[r]
        /\ busy.todo \cup DOMAIN busy.read \subseteq Declared(e)
    BY <1>1 DEF EInv, Observed
  <2> QED  BY <1>1, <1>6, <1>10, <1>11, <2>2, <2>3 DEF Observed
<1>13. OnComposition'
  BY <1>1, <1>6, <1>10, <1>11 DEF EInv, OnComposition, Several
<1> QED  BY <1>7, <1>8, <1>9, <1>12, <1>13 DEF EInv
\* A command that begins to read: it has read nothing, and what the HEADs are
\* now is what they have been.
LEMMA ReadingBegins ==
  ASSUME EInv, NEW p \in Clients, NEW kind \in Products \cup {"pin"}, NEW e \in Ensembles, Enrolled(e),
         NEW c \in Compositions \cup {Absent}, NEW ms, ms \subseteq Declared(e),
         busy' = Reading(p, kind, e, c, ms),
         UNCHANGED <<ensembles, active, heads, links, clients, product>>,
         Several(e) /\ kind \in Products =>
            c # Absent /\ c = CurrentOf(e) /\ (kind \in Checked => ms = Declared(e))
  PROVE  EInv'
<1> DEFINE none == [m \in {} |-> Absent]
           b == Reading(p, kind, e, c, ms)
<1>1. none \in ReadMap /\ DOMAIN none = {}
  <2>1. none \in [{} -> Shas]  OBVIOUS
  <2> QED  BY <2>1 DEF ReadMap
<1> HIDE DEF none
<1>2. /\ b.kind = kind /\ b.ensemble = e /\ b.composition = c /\ b.todo = ms /\ b.read = none
      /\ b.since = [r \in Repos |-> {heads[r]}]
  BY DEF Reading, none
<1>3. b \in Comparing
  <2>1. ms \in SUBSET Members  BY DeclaredTyped DEF EInv
  <2>2. [r \in Repos |-> {heads[r]}] \in [Repos -> SUBSET Shas]  BY DEF EInv, EnsembleTypeOK
  <2>3. b = [client |-> p, kind |-> kind, ensemble |-> e, composition |-> c, todo |-> ms,
             read |-> none, since |-> [r \in Repos |-> {heads[r]}]]
    BY DEF Reading, none
  <2> HIDE DEF b
  <2> QED  BY <1>1, <2>1, <2>2, <2>3 DEF Comparing
<1> HIDE DEF b
<1>4. busy' = b  BY DEF b
<1>5. kind # "member"  BY DEF Products, Checked
<1>6. EnsembleTypeOK'  BY <1>3, <1>4 DEF EInv, EnsembleTypeOK
<1>7. MembersAreLinked'  BY DEF EInv, MembersAreLinked, Declared, Enrolled, RepoOf
<1>8. UnderWay'  BY <1>2, <1>4, <1>5 DEF UnderWay, Enrolled
<1>9. \A f : Declared(f)' = Declared(f) /\ CurrentOf(f)' = CurrentOf(f)
  BY DEF Declared, Enrolled, CurrentOf
<1>10. Observed'
  <2>1. \A r \in Repos : heads'[r] \in b.since[r]  BY <1>2
  <2> QED  BY <1>1, <1>2, <1>4, <1>9, <2>1 DEF Observed
<1>11. OnComposition'  BY <1>1, <1>2, <1>4, <1>9 DEF OnComposition, Several
<1> QED  BY <1>6, <1>7, <1>8, <1>10, <1>11 DEF EInv

LEMMA BeginPinStep ==
  ASSUME EInv, NEW p \in Clients, NEW e \in Ensembles, NEW c \in Compositions, BeginPin(p, e, c)
  PROVE  EInv'
<1>1. Enrolled(e)  BY DEF BeginPin, Pinnable, Declared
<1>2. busy' = Reading(p, "pin", e, c, Declared(e))
      /\ UNCHANGED <<ensembles, active, heads, links, clients, product>>
  BY DEF BeginPin, documents
<1>3. "pin" \notin Products  BY DEF Products, Checked
<1> QED  BY <1>1, <1>2, <1>3, ReadingBegins

LEMMA BeginProductStep ==
  ASSUME EInv, NEW p \in Clients, NEW kind \in Products, NEW named, BeginProduct(p, kind, named)
  PROVE  EInv'
<1> DEFINE e == clients[p].ensemble
           ms == IF kind \in Checked THEN ComparedMembers(e, CurrentOf(e)) ELSE {}
<1>1. /\ clients[p] # Absent /\ Declared(e) # {}
      /\ UNCHANGED <<ensembles, active, heads, links, clients, product>>
      /\ IF Several(e) THEN CurrentOf(e) # Absent /\ busy' = Reading(p, kind, e, CurrentOf(e), ms)
                       ELSE busy' = Reading(p, kind, e, Absent, {})
  BY DEF BeginProduct, MayCycle, MayCommand, documents
<1>2. e \in Ensembles /\ Enrolled(e)
  <2>1. clients[p] \in Client  BY <1>1 DEF EInv, EnsembleTypeOK
  <2>2. Enrolled(e)  BY <1>1 DEF Declared
  <2> QED  BY <2>1, <2>2 DEF Client, Enrolled
<1>3. CurrentOf(e) \in Compositions \cup {Absent}
  BY <1>2, DeclaredTyped DEF EInv, Member, CurrentOf
<1>4. ms \subseteq Declared(e) /\ (kind \in Checked => ms = Declared(e))  BY DEF ComparedMembers
<1> HIDE DEF e, ms
<1>5. CASE Several(e)  BY <1>1, <1>2, <1>3, <1>4, <1>5, ReadingBegins
<1>6. CASE ~Several(e)
  <2>1. busy' = Reading(p, kind, e, Absent, {})  BY <1>1, <1>6
  <2>2. {} \subseteq Declared(e)  OBVIOUS
  <2> QED  BY <1>1, <1>2, <1>6, <2>1, <2>2, ReadingBegins
<1> QED  BY <1>5, <1>6

\* A composition becomes current while no other command has looked its ensemble up.
LEMMA RecordStep ==
  ASSUME EInv, NEW e \in Ensembles, Enrolled(e), NEW c \in Compositions \cup {Absent}, NEW pins,
         Record(e, c, pins), busy' = Absent
  PROVE  EInv'
<1> DEFINE x == [ensembles[e] EXCEPT !.current = c]
<1>1. ensembles' = [ensembles EXCEPT ![e] = x] /\ UNCHANGED <<active, heads, links, clients, product>>
  BY DEF Record, EInv, EnsembleTypeOK
<1>2. x \in Member /\ x.members = ensembles[e].members
  BY DeclaredTyped DEF EInv, Member
<1>3. Declared(e) = DOMAIN ensembles[e].members  BY DeclaredTyped DEF EInv
<1> HIDE DEF x
<1>4. EnsembleTypeOK'  BY <1>1, <1>2 DEF EInv, EnsembleTypeOK
<1>5. ensembles'[e] = x /\ \A f \in Ensembles : f # e => ensembles'[f] = ensembles[f]
  BY <1>1 DEF EInv, EnsembleTypeOK
<1>6. MembersAreLinked'
  <2>1. ASSUME NEW f \in Ensembles, NEW m \in Declared(f)' PROVE Linked(RepoOf(f, m), m)'
    <3>1. m \in Declared(f) /\ RepoOf(f, m)' = RepoOf(f, m)
      BY <1>2, <1>3, <1>5, <2>1 DEF Declared, Enrolled, RepoOf
    <3> QED  BY <1>1, <3>1 DEF EInv, MembersAreLinked, Linked
  <2> QED  BY <2>1 DEF MembersAreLinked, Linked
<1> QED  BY <1>4, <1>6, CommandOver DEF EInv

LEMMA PinGivenStep ==
  ASSUME EInv, NEW p \in Clients, NEW e \in Ensembles, NEW c \in Compositions, NEW pins,
         PinGiven(p, e, c, pins)
  PROVE  EInv'
<1>1. Enrolled(e) /\ Record(e, c, pins) /\ busy' = Absent
  BY DEF PinGiven, Pinnable, MayCommand, Declared
<1> QED  BY <1>1, RecordStep

LEMMA PinCompositionStep == ASSUME EInv, PinComposition PROVE EInv'
<1>1. /\ busy # Absent /\ busy.kind = "pin" /\ busy' = Absent
      /\ Record(busy.ensemble, busy.composition, busy.read)
  BY DEF PinComposition
<1>2. busy \in Comparing  BY <1>1 DEF EInv, EnsembleTypeOK, Registering
<1>3. busy.ensemble \in Ensembles /\ Enrolled(busy.ensemble)
  BY <1>1, <1>2, EnsembleAssumption DEF EInv, UnderWay, Enrolled, Comparing
<1>4. busy.composition \in Compositions \cup {Absent}  BY <1>2 DEF Comparing
<1> QED  BY <1>1, <1>3, <1>4, RecordStep
LEMMA AcceptStep == ASSUME EInv, Accept PROVE EInv'
<1>1. /\ busy # Absent /\ busy.kind \in Products /\ busy' = Absent
      /\ product' = Append(product, [kind |-> busy.kind, ensemble |-> busy.ensemble,
                                     composition |-> busy.composition])
      /\ UNCHANGED <<ensembles, active, heads, links, clients>>
  BY DEF Accept, documents
<1>2. busy \in Comparing
  BY <1>1 DEF EInv, EnsembleTypeOK, Registering, Products, Checked
<1>3. [kind |-> busy.kind, ensemble |-> busy.ensemble, composition |-> busy.composition] \in Accepted
  BY <1>1, <1>2 DEF Comparing, Accepted
<1>4. EnsembleTypeOK'  BY <1>1, <1>3 DEF EInv, EnsembleTypeOK
<1>5. MembersAreLinked'
  BY <1>1 DEF EInv, MembersAreLinked, Declared, Enrolled, RepoOf
<1> QED  BY <1>1, <1>4, <1>5, CommandOver DEF EInv

LEMMA EnsembleInductive == EInv /\ [EnsembleNext]_ensVars => EInv'
<1> SUFFICES ASSUME EInv, [EnsembleNext]_ensVars PROVE EInv'  OBVIOUS
<1>1. CASE InstanceStep
  BY <1>1, DiscoverStep, RegisterEnsembleStep, SetActiveStep, LinkMemberStep, RegisterMemberStep,
     AbandonStep, LinkElsewhereStep, CommitStep DEF InstanceStep
<1>2. CASE CompositionStep
  BY <1>2, BeginPinStep, PinGivenStep, ReadHeadStep, PinCompositionStep, BeginProductStep,
     AcceptStep DEF CompositionStep
<1>3. CASE UNCHANGED ensVars
  <2>1. EnsembleTypeOK'  BY <1>3 DEF ensVars, EInv, EnsembleTypeOK
  <2> QED  BY <1>3, <2>1, NothingRead DEF ensVars, EInv
<1> QED  BY <1>1, <1>2, <1>3 DEF EnsembleNext

LEMMA EnsembleInvariant == EnsembleSpec => []EInv
<1> QED  BY EnsembleInitially, EnsembleInductive, PTL DEF EnsembleSpec

\* Whoever works in a repository that an ensemble declares is led here as that
\* member, also when a registration was cut short after the overlay was written
\* and although two ensembles may declare the repository (write_member_overlay).
THEOREM MembersLeadHere == EnsembleSpec => []MembersAreLinked
<1>1. EInv => MembersAreLinked  BY DEF EInv
<1> QED  BY <1>1, EnsembleInvariant, PTL

\* What is accepted of a product of several members is of the current composition,
\* and a completion, e2e evidence or visual verification of commits that all the
\* declared members had while the command read the HEADs one by one, however many
\* commits were made meanwhile (assert_composition_live).
THEOREM AcceptedIsPinned == EnsembleSpec => ProductIsPinned
<1> DEFINE x == product'[Len(product')]
           e == x.ensemble
           pins == compositions[e][x.composition]
           A == product' # product =>
                  (Several(e) =>
                     /\ x.composition # Absent /\ x.composition = CurrentOf(e)
                     /\ x.kind \in Checked =>
                           /\ DOMAIN pins = Declared(e)
                           /\ \A m \in Declared(e) : pins[m] \in busy.since[RepoOf(e, m)])
<1>1. ASSUME EInv, [EnsembleNext]_ensVars, product' # product PROVE Accept
  BY <1>1 DEF EnsembleNext, InstanceStep, CompositionStep, ensVars, Discover, RegisterEnsemble,
     SetActiveEnsemble, LinkMember, RegisterMember, Abandon, LinkElsewhere, CommitIn, BeginPin,
     PinGiven, PinComposition, Record, ReadHead, BeginProduct
<1>2. ASSUME EInv, Accept, Several(e)
      PROVE  /\ x.composition # Absent /\ x.composition = CurrentOf(e)
             /\ x.kind \in Checked =>
                  /\ DOMAIN pins = Declared(e)
                  /\ \A m \in Declared(e) : pins[m] \in busy.since[RepoOf(e, m)]
  <2> DEFINE y == [kind |-> busy.kind, ensemble |-> busy.ensemble, composition |-> busy.composition]
  <2>1. /\ busy # Absent /\ busy.kind \in Products /\ busy.todo = {}
        /\ product' = Append(product, y)
        /\ busy.composition # Absent /\ busy.kind \in Checked => Live(busy.ensemble, busy.composition)
    BY <1>2 DEF Accept
  <2>2. x = y
    <3>1. busy \in Comparing
      BY <1>2, <2>1 DEF EInv, EnsembleTypeOK, Registering, Products, Checked
    <3>2. product \in Seq(Accepted) /\ y \in Accepted
      BY <1>2, <2>1, <3>1 DEF EInv, EnsembleTypeOK, Comparing, Accepted
    <3> HIDE DEF y
    <3> QED  BY <2>1, <3>2
  <2>3. e = busy.ensemble /\ x.composition = busy.composition /\ x.kind = busy.kind  BY <2>2
  <2> HIDE DEF x
  <2>4. x.composition # Absent /\ x.composition = CurrentOf(e)
    BY <1>2, <2>1, <2>3 DEF EInv, OnComposition
  <2>5. ASSUME busy.kind \in Checked
        PROVE  /\ DOMAIN pins = Declared(e)
               /\ \A m \in Declared(e) : pins[m] \in busy.since[RepoOf(e, m)]
    <3>1. Live(e, x.composition)  BY <2>1, <2>3, <2>4, <2>5
    <3>2. DOMAIN busy.read = Declared(e)
      BY <1>2, <2>1, <2>3, <2>5 DEF EInv, OnComposition
    <3>3. \A m \in DOMAIN busy.read : busy.read[m] \in busy.since[RepoOf(e, m)]
      BY <1>2, <2>1, <2>3 DEF EInv, Observed, Products, Checked
    <3>4. \A m \in Declared(e) : m \in DOMAIN pins /\ pins[m] = busy.read[m]
      BY <3>1, <3>2 DEF Live
    <3>5. DOMAIN pins \subseteq Declared(e)  BY <3>1 DEF Live
    <3> QED  BY <3>2, <3>3, <3>4, <3>5
  <2> QED  BY <2>3, <2>4, <2>5
<1>3. ASSUME EInv, [EnsembleNext]_ensVars PROVE A  BY <1>1, <1>2, <1>3
<1> HIDE DEF A
<1>4. EnsembleSpec => [][A]_ensVars  BY <1>3, EnsembleInvariant, PTL DEF EnsembleSpec
<1> QED  BY <1>4 DEF ProductIsPinned, A
-----------------------------------------------------------------------------
(* The update of a target                                                  *)

Recorded == [schema : {0, 2, 3}, version : Version, digest : [Managed -> Digest]]
Snapshot == [disk : [Paths -> Content], record : Recorded, manifest : Version]
Manifests == {"record", "manifest"}
Job == [pc : PCs, kind : {"update", "install"}, force : BOOLEAN, forced : BOOLEAN,
        changed : SUBSET Managed, touched : SUBSET (Paths \cup Manifests), accept : BOOLEAN,
        constitution : BOOLEAN, layout : BOOLEAN, todo : SUBSET (Paths \cup Manifests)]

TargetTyped ==
  /\ disk \in [Paths -> Content] /\ record \in Recorded /\ manifest \in Version
  /\ job \in Job /\ before \in Snapshot
  /\ outcome \in {"none", "complete", "rolled_back", "refused", "crashed"}
  /\ job.todo \subseteq job.changed \cup job.touched

\* What a rollback answers for.
Restorable == Paths \ (Compiled \cup {Own})

\* While a transaction runs, what is not touched is as it was, and what the next
\* steps write is among what is touched.
TransactionInv ==
  InTransaction =>
    /\ \A p \in Restorable \ job.touched : disk[p] = before.disk[p]
    /\ Manifests \subseteq job.touched /\ job.todo \subseteq job.touched
    /\ job.pc = "seeds" => Seeds \subseteq job.touched
    /\ job.accept => "acceptance" \in job.touched
    /\ job.constitution => "state" \in job.touched
    /\ job.layout => Templates \in job.touched

\* While it is rolled back, what is not to be restored any more is as it was.
RollbackInv ==
  job.pc \in {"rollback", "undo_layout"} =>
    /\ \A p \in Restorable \ job.todo : disk[p] = before.disk[p]
    /\ "record" \notin job.todo => record = before.record
    /\ "manifest" \notin job.todo => manifest = before.manifest
    /\ job.pc = "undo_layout" => job.todo = {}

\* The directories of the layout that a rollback removes were not there.
LayoutInv ==
  (InTransaction \/ job.pc \in {"rollback", "undo_layout"}) /\ job.layout =>
    before.disk[Templates] = "none"

UInv == TargetTyped /\ TransactionInv /\ RollbackInv /\ LayoutInv

Outside == {"idle", "record_v2", "record_v3", "snapshot", "cleanup", "event"}
Transaction == PCs \ (Outside \cup {"rollback", "undo_layout"})

LEMMA InTransactionIs == InTransaction <=> job.pc \in Transaction
BY DEF InTransaction, Transaction, Outside

LEMMA CompiledTyped == \A c \in Content : CompiledFrom(c) \in Content
BY DEF CompiledFrom, Content

\* Where nothing is to be restored, only the types are to be shown.
LEMMA NothingToRestore ==
  ASSUME TargetTyped', job'.pc \in Outside PROVE UInv'
<1>1. ~InTransaction' /\ job'.pc \notin {"rollback", "undo_layout"}
  BY DEF InTransaction, Outside
<1> QED  BY <1>1 DEF UInv, TransactionInv, RollbackInv, LayoutInv

\* A step within the transaction that writes nothing but what is touched.
LEMMA TransactionStep ==
  ASSUME UInv, job.pc \in Transaction, NEW c \in Transaction, c # "seeds",
         job' = [job EXCEPT !.pc = c], disk' \in [Paths -> Content],
         \A p \in Restorable \ job.touched : disk'[p] = disk[p],
         record' \in Recorded, manifest' \in Version, UNCHANGED <<before, outcome>>
  PROVE  UInv'
<1>0. job \in Job /\ InTransaction  BY InTransactionIs DEF UInv, TargetTyped
<1>1. /\ job' \in Job /\ job'.pc = c /\ job'.touched = job.touched /\ job'.todo = job.todo
      /\ job'.accept = job.accept /\ job'.constitution = job.constitution
      /\ job'.layout = job.layout /\ job'.changed = job.changed
  BY <1>0 DEF Job, Transaction
<1>2. TargetTyped'  BY <1>1 DEF UInv, TargetTyped
<1>3. TransactionInv'  BY <1>0, <1>1 DEF UInv, TransactionInv
<1>4. RollbackInv'  BY <1>1 DEF RollbackInv, Transaction
<1>5. LayoutInv'  BY <1>0, <1>1 DEF UInv, LayoutInv
<1> QED  BY <1>2, <1>3, <1>4, <1>5 DEF UInv

\* One file after another is copied: what is to be copied is touched.
LEMMA CopyStep == ASSUME UInv, NEW p \in Copied, CopyFile(p) PROVE UInv'
<1> DEFINE todo == job.todo \ {p}
           j == [job EXCEPT !.todo = todo]
<1>0. job \in Job /\ job.pc = "copy" /\ InTransaction
  BY DEF CopyFile, UInv, TargetTyped, InTransaction, PCs
<1>1. /\ job' = j /\ disk' = [disk EXCEPT ![p] = "new"]
      /\ UNCHANGED <<record, manifest, before, outcome>>
  BY DEF CopyFile
<1>2. p \in job.todo /\ p \in job.touched
  <2>1. p \in job.todo  BY DEF CopyFile
  <2> QED  BY <1>0, <2>1 DEF UInv, TransactionInv
<1>3. /\ j \in Job /\ j.pc = "copy" /\ j.touched = job.touched /\ j.todo = todo
      /\ j.accept = job.accept /\ j.constitution = job.constitution
      /\ j.layout = job.layout /\ j.changed = job.changed
  BY <1>0 DEF Job
<1> HIDE DEF j
<1>4. TargetTyped'  BY <1>1, <1>3 DEF UInv, TargetTyped, Content
<1>5. TransactionInv'
  <2>1. \A q \in Restorable \ job.touched : disk'[q] = disk[q]
    BY <1>1, <1>2 DEF UInv, TargetTyped, Restorable
  <2> QED  BY <1>0, <1>1, <1>3, <2>1 DEF UInv, TransactionInv
<1>6. RollbackInv'  BY <1>1, <1>3 DEF RollbackInv
<1>7. LayoutInv'  BY <1>0, <1>1, <1>3 DEF UInv, LayoutInv
<1> QED  BY <1>4, <1>5, <1>6, <1>7 DEF UInv

LEMMA IdleTyped ==
  Idle \in Job /\ Idle.pc = "idle" /\ Idle.touched = {} /\ Idle.todo = {} /\ Idle.changed = {}
BY DEF Idle, Job, PCs

LEMMA InstallerInitially == Init => UInv
<1> SUFFICES ASSUME Init PROVE UInv  OBVIOUS
<1>1. [p \in Paths |-> "none"] \in [Paths -> Content] /\ NoRecord \in Recorded
  BY DEF Content, NoRecord, Recorded, Version, Digest
<1>2. \A l, a \in BOOLEAN : Installed(l, a) \in [Paths -> Content]  BY DEF Installed, Content
<1>3. [NoRecord EXCEPT !.schema = 2, !.version = "old"] \in Recorded
  BY <1>1 DEF Recorded, Version
<1>4. [schema |-> 3, version |-> "old", digest |-> [p \in Managed |-> "old"]] \in Recorded
  BY DEF Recorded, Version, Digest, Content
<1>5. disk \in [Paths -> Content] /\ record \in Recorded /\ manifest \in Version
  BY <1>1, <1>2, <1>3, <1>4 DEF Init, Version
<1>6. before \in Snapshot /\ job = Idle /\ outcome = "none"  BY <1>5 DEF Init, Snapshot
<1>7. TargetTyped  BY <1>5, <1>6, IdleTyped DEF TargetTyped
<1>8. ~InTransaction /\ job.pc \notin {"rollback", "undo_layout"}
  BY <1>6, IdleTyped DEF InTransaction
<1> QED  BY <1>7, <1>8 DEF UInv, TransactionInv, RollbackInv, LayoutInv

LEMMA BeginUpdateStep == ASSUME UInv, BeginUpdate PROVE UInv'
<1>1. PICK force, forced, constitution, accept \in BOOLEAN :
        /\ job' = [Idle EXCEPT !.pc = "record_v2", !.force = force, !.changed = ToChange,
                     !.constitution = constitution, !.forced = forced, !.accept = accept]
        /\ UNCHANGED <<disk, record, manifest, before, outcome>>
  <2>1. PICK force, kept, override \in BOOLEAN :
          job' = [Idle EXCEPT !.pc = "record_v2", !.force = force, !.changed = ToChange,
                    !.constitution = disk["state"] = "old",
                    !.forced = disk["state"] = "old" /\ kept,
                    !.accept = disk["acceptance"] = "old"]
    BY DEF BeginUpdate
  <2>2. /\ (disk["state"] = "old") \in BOOLEAN /\ (disk["acceptance"] = "old") \in BOOLEAN
        /\ (disk["state"] = "old" /\ kept) \in BOOLEAN
    OBVIOUS
  <2>3. UNCHANGED <<disk, record, manifest, before, outcome>>  BY DEF BeginUpdate, target
  <2> QED  BY <2>1, <2>2, <2>3
<1>2. ToChange \subseteq Managed  BY DEF ToChange
<1>3. job' \in Job /\ job'.pc = "record_v2" /\ job'.todo = {}
  BY <1>1, <1>2 DEF Idle, Job, PCs
<1>4. TargetTyped'  BY <1>1, <1>3 DEF UInv, TargetTyped
<1> QED  BY <1>3, <1>4, NothingToRestore DEF Outside

LEMMA BeginInstallStep == ASSUME UInv, BeginInstall PROVE UInv'
<1> DEFINE touched == ToChange \cup Seeds \cup Manifests
<1>1. PICK force \in BOOLEAN :
        job' = [Idle EXCEPT !.pc = "seeds", !.kind = "install", !.force = force,
                  !.changed = ToChange, !.todo = ToChange \ Compiled, !.touched = touched]
  BY DEF BeginInstall, Manifests
<1>2. /\ before' = [disk |-> disk, record |-> record, manifest |-> manifest]
      /\ UNCHANGED <<disk, record, manifest, outcome>>
  BY DEF BeginInstall, target
<1>3. ToChange \subseteq Managed /\ Managed \subseteq Paths /\ Seeds \subseteq Paths
  BY DEF ToChange, Paths
<1>4. /\ job' \in Job /\ job'.pc = "seeds" /\ job'.todo = ToChange \ Compiled
      /\ job'.touched = touched /\ job'.changed = ToChange
      /\ ~job'.accept /\ ~job'.constitution /\ ~job'.layout
  BY <1>1, <1>3 DEF Idle, Job, PCs
<1> HIDE DEF touched
<1>5. TargetTyped'
  <2>1. before' \in Snapshot  BY <1>2 DEF UInv, TargetTyped, Snapshot
  <2> QED  BY <1>2, <1>4, <2>1 DEF UInv, TargetTyped
<1>6. TransactionInv'
  <2>1. Manifests \subseteq touched /\ Seeds \subseteq touched /\ ToChange \subseteq touched
    BY DEF touched
  <2>2. before'.disk = disk  BY <1>2
  <2> QED  BY <1>2, <1>4, <2>1, <2>2 DEF TransactionInv
<1>7. RollbackInv' /\ LayoutInv'  BY <1>4 DEF RollbackInv, LayoutInv
<1> QED  BY <1>5, <1>6, <1>7 DEF UInv
\* The steps before a snapshot is taken and after a transaction is over.
LEMMA OutsideSteps ==
  ASSUME UInv, \/ MigrateRecordV2 \/ MigrateRecordV3 \/ RefuseLate
               \/ ValidationPasses \/ RemoveLegacy \/ Finish \/ UndoLayout \/ Crash
               \/ \E p \in Managed : Edit(p)
  PROVE  UInv'
<1>0. /\ disk \in [Paths -> Content] /\ record \in Recorded /\ manifest \in Version
      /\ job \in Job /\ before \in Snapshot /\ Managed \subseteq Paths /\ Templates \in Paths
      /\ outcome \in {"none", "complete", "rolled_back", "refused", "crashed"}
      /\ job.todo \subseteq job.changed \cup job.touched
  BY DEF UInv, TargetTyped, Paths, Managed, Copied
<1>1. ASSUME job' = Idle, disk' \in [Paths -> Content], UNCHANGED <<record, manifest, before>>,
             outcome' \in {"none", "complete", "rolled_back", "refused", "crashed"}
      PROVE  UInv'
  <2>1. TargetTyped'  BY <1>0, <1>1, IdleTyped DEF TargetTyped
  <2> QED  BY <1>1, <2>1, IdleTyped, NothingToRestore DEF Outside
<1>2. ASSUME NEW c \in Outside, job' = [job EXCEPT !.pc = c], disk' \in [Paths -> Content],
             record' \in Recorded, manifest' = manifest, before' = before, outcome' = outcome
      PROVE  UInv'
  <2>1. /\ job' \in Job /\ job'.pc = c /\ job'.todo = job.todo /\ job'.touched = job.touched
        /\ job'.changed = job.changed
    BY <1>0, <1>2 DEF Job, Outside, PCs
  <2>2. TargetTyped'  BY <1>0, <1>2, <2>1 DEF TargetTyped
  <2> QED  BY <2>1, <2>2, NothingToRestore
<1>3. CASE MigrateRecordV2
  <2>1. CASE Refuse  BY <1>0, <1>1, <2>1 DEF Refuse, target
  <2>2. CASE /\ record' = [NoRecord EXCEPT !.schema = 2, !.version = "new"]
             /\ disk' = [disk EXCEPT !["profile"] = "new"]
             /\ job' = [job EXCEPT !.pc = "record_v3"]
             /\ UNCHANGED <<manifest, ghosts, bounds>>
    <3>1. record' \in Recorded
      BY <2>2 DEF NoRecord, Recorded, Version, Digest
    <3>2. disk' \in [Paths -> Content]  BY <1>0, <2>2 DEF Content
    <3> QED  BY <1>2, <2>2, <3>1, <3>2 DEF ghosts, Outside
  <2>3. CASE job' = [job EXCEPT !.pc = "record_v3"] /\ UNCHANGED <<target, ghosts, bounds>>
    BY <1>0, <1>2, <2>3 DEF target, ghosts, Outside
  <2> QED  BY <1>3, <2>1, <2>2, <2>3 DEF MigrateRecordV2
<1>4. CASE MigrateRecordV3
  <2> DEFINE d == [p \in Managed |-> IF p = Templates /\ disk[p] = "none" THEN "unrecorded" ELSE disk[p]]
  <2>1. d \in [Managed -> Digest]  BY <1>0 DEF Digest
  <2>2. record' = IF record.schema # 2 THEN record ELSE [record EXCEPT !.schema = 3, !.digest = d]
    BY <1>4 DEF MigrateRecordV3
  <2> HIDE DEF d
  <2>3. record' \in Recorded  BY <1>0, <2>1, <2>2 DEF Recorded
  <2> QED  BY <1>0, <1>2, <1>4, <2>3 DEF MigrateRecordV3, ghosts, Outside
<1>5. CASE RefuseLate  BY <1>0, <1>1, <1>5 DEF RefuseLate, Refuse, target
<1>6. CASE ValidationPasses
  BY <1>0, <1>2, <1>6 DEF ValidationPasses, To, target, ghosts, Outside
<1>7. CASE RemoveLegacy
  <2>1. disk' \in [Paths -> Content]  BY <1>0, <1>7 DEF RemoveLegacy, Content
  <2> QED  BY <1>0, <1>2, <1>7, <2>1 DEF RemoveLegacy, To, ghosts, Outside
<1>8. CASE Finish  BY <1>0, <1>1, <1>8 DEF Finish, target
<1>9. CASE UndoLayout
  <2>1. disk' \in [Paths -> Content]  BY <1>0, <1>9 DEF UndoLayout, Content
  <2> QED  BY <1>1, <1>9, <2>1 DEF UndoLayout
<1>10. CASE Crash
  <2>1. disk' \in [Paths -> Content]  BY <1>0, <1>10 DEF Crash, Content
  <2> QED  BY <1>1, <1>10, <2>1 DEF Crash
<1>11. ASSUME NEW p \in Managed, Edit(p) PROVE UInv'
  <2>1. /\ job.pc = "idle" /\ disk' \in [Paths -> Content]
        /\ UNCHANGED <<record, manifest, job, before, outcome>>
    BY <1>0, <1>11 DEF Edit, Content
  <2>2. TargetTyped'  BY <1>0, <2>1 DEF TargetTyped
  <2> QED  BY <2>1, <2>2, NothingToRestore DEF Outside
<1> QED  BY <1>3, <1>4, <1>5, <1>6, <1>7, <1>8, <1>9, <1>10, <1>11

LEMMA TakeSnapshotStep == ASSUME UInv, TakeSnapshot PROVE UInv'
<1> DEFINE todo == job.changed \ Compiled
           touched == Touched
           layout == NeedsLayoutMigration
           j == [job EXCEPT !.pc = "layout", !.touched = touched, !.layout = layout, !.todo = todo]
<1>0. job \in Job  BY DEF UInv, TargetTyped
<1>1. /\ job' = j /\ before' = [disk |-> disk, record |-> record, manifest |-> manifest]
      /\ UNCHANGED <<disk, record, manifest, outcome>>
  BY DEF TakeSnapshot, TouchedSet, target
<1>2. /\ touched \subseteq Paths \cup Manifests /\ Manifests \subseteq touched
      /\ job.changed \subseteq touched
      /\ job.accept => "acceptance" \in touched
      /\ job.constitution => "state" \in touched
      /\ layout => Templates \in touched /\ disk[Templates] = "none"
  <2>1. job.changed \subseteq Managed  BY <1>0 DEF Job
  <2>2. Managed \cup Seeds \cup {"acceptance"} \subseteq Paths /\ Templates \in Managed
    BY DEF Paths, Managed, Copied
  <2> QED  BY <2>1, <2>2 DEF Touched, Manifests, NeedsLayoutMigration, Seeds
<1>3. layout \in BOOLEAN  BY DEF NeedsLayoutMigration
<1> HIDE DEF touched, layout
<1>4. /\ j \in Job /\ j.pc = "layout" /\ j.touched = touched /\ j.layout = layout /\ j.todo = todo
      /\ j.accept = job.accept /\ j.constitution = job.constitution /\ j.changed = job.changed
  BY <1>0, <1>2, <1>3 DEF Job, PCs
<1> HIDE DEF j
<1>5. TargetTyped'
  <2>1. before' \in Snapshot  BY <1>1 DEF UInv, TargetTyped, Snapshot
  <2> QED  BY <1>1, <1>4, <2>1 DEF UInv, TargetTyped
<1>6. before'.disk = disk  BY <1>1
<1>7. TransactionInv'  BY <1>1, <1>2, <1>4, <1>6 DEF TransactionInv
<1>8. RollbackInv'  BY <1>1, <1>4 DEF RollbackInv
<1>9. LayoutInv'  BY <1>1, <1>2, <1>4, <1>6 DEF LayoutInv
<1> QED  BY <1>5, <1>7, <1>8, <1>9 DEF UInv

\* The steps of the transaction, in which a file or manifest is written that is
\* touched or that a rollback does not answer for.
LEMMA WritingSteps ==
  ASSUME UInv, \/ WriteSeeds \/ MoveLayout \/ CopyDone \/ ClearAdapter \/ CompileAdapter
               \/ MigrateAcceptance \/ ActivateConstitution \/ WriteManifest \/ WriteRecord
  PROVE  UInv'
<1>0. /\ disk \in [Paths -> Content] /\ record \in Recorded /\ manifest \in Version
      /\ job \in Job /\ Managed \subseteq Paths /\ Templates \in Paths /\ Legacy \in Paths
  BY DEF UInv, TargetTyped, Paths, Managed, Copied
<1>a. /\ AfterCopy \in {"manifest", "acceptance"}
      /\ job.pc \in Transaction => InTransaction
  BY InTransactionIs DEF AfterCopy
<1>1. CASE WriteSeeds
  <2>1. job.pc = "seeds" /\ job' = [job EXCEPT !.pc = "copy"]
        /\ disk' = [p \in Paths |-> IF p \in Seeds THEN "new" ELSE disk[p]]
        /\ UNCHANGED <<record, manifest, before, outcome>>
    BY <1>1 DEF WriteSeeds, To, ghosts
  <2>2. {"seeds", "copy"} \subseteq Transaction  BY DEF Transaction, Outside, PCs
  <2>3. Seeds \subseteq job.touched  BY <1>a, <2>1, <2>2 DEF UInv, TransactionInv
  <2>4. disk' \in [Paths -> Content] /\ \A p \in Restorable \ job.touched : disk'[p] = disk[p]
    BY <1>0, <2>1, <2>3 DEF Content, Restorable
  <2> QED  BY <1>0, <2>1, <2>2, <2>4, TransactionStep
<1>2. CASE MoveLayout
  <2>1. job.pc = "layout" /\ job' = [job EXCEPT !.pc = "copy"]
        /\ disk' = (IF job.layout THEN [disk EXCEPT ![Templates] = disk[Legacy]] ELSE disk)
        /\ UNCHANGED <<record, manifest, before, outcome>>
    BY <1>2 DEF MoveLayout, To, ghosts
  <2>2. {"layout", "copy"} \subseteq Transaction  BY DEF Transaction, Outside, PCs
  <2>3. job.layout => Templates \in job.touched  BY <1>a, <2>1, <2>2 DEF UInv, TransactionInv
  <2>4. disk' \in [Paths -> Content] /\ \A p \in Restorable \ job.touched : disk'[p] = disk[p]
    BY <1>0, <2>1, <2>3 DEF Restorable
  <2> QED  BY <1>0, <2>1, <2>2, <2>4, TransactionStep
<1>3. CASE CopyDone
  <2>1. PICK c : /\ job.pc = "copy" /\ c \in {"clear", "manifest", "acceptance"}
                 /\ job' = [job EXCEPT !.pc = c] /\ UNCHANGED <<disk, record, manifest, before, outcome>>
    BY <1>3, <1>a DEF CopyDone, To, target, ghosts
  <2>2. {"copy", "clear", "manifest", "acceptance"} \subseteq Transaction
    BY DEF Transaction, Outside, PCs
  <2> QED  BY <1>0, <2>1, <2>2, TransactionStep
<1>4. CASE ClearAdapter
  <2>1. job.pc = "clear" /\ job' = [job EXCEPT !.pc = "compile"]
        /\ disk' = [p \in Paths |-> IF p \in Compiled \cup {Own} THEN "none" ELSE disk[p]]
        /\ UNCHANGED <<record, manifest, before, outcome>>
    BY <1>4 DEF ClearAdapter, To
  <2>2. {"clear", "compile"} \subseteq Transaction  BY DEF Transaction, Outside, PCs
  <2>3. disk' \in [Paths -> Content] /\ \A p \in Restorable \ job.touched : disk'[p] = disk[p]
    BY <1>0, <2>1 DEF Content, Restorable
  <2> QED  BY <1>0, <2>1, <2>2, <2>3, TransactionStep
<1>5. CASE CompileAdapter
  <2>1. PICK c : /\ job.pc = "compile" /\ c \in {"manifest", "acceptance"}
                 /\ job' = [job EXCEPT !.pc = c]
                 /\ disk' = [p \in Paths |-> IF p \in Compiled THEN CompiledFrom(disk[Templates]) ELSE disk[p]]
                 /\ UNCHANGED <<record, manifest, before, outcome>>
    BY <1>5, <1>a DEF CompileAdapter, To, ghosts
  <2>2. {"compile", "manifest", "acceptance"} \subseteq Transaction
    BY DEF Transaction, Outside, PCs
  <2>3. CompiledFrom(disk[Templates]) \in Content  BY <1>0, CompiledTyped
  <2>4. disk' \in [Paths -> Content] /\ \A p \in Restorable \ job.touched : disk'[p] = disk[p]
    BY <1>0, <2>1, <2>3 DEF Restorable
  <2> QED  BY <1>0, <2>1, <2>2, <2>4, TransactionStep
<1>6. CASE MigrateAcceptance
  <2>1. job.pc = "acceptance" /\ job' = [job EXCEPT !.pc = "constitution"]
        /\ disk' = (IF job.accept THEN [disk EXCEPT !["acceptance"] = "new"] ELSE disk)
        /\ UNCHANGED <<record, manifest, before, outcome>>
    BY <1>6 DEF MigrateAcceptance, To, ghosts
  <2>2. {"acceptance", "constitution"} \subseteq Transaction  BY DEF Transaction, Outside, PCs
  <2>3. job.accept => "acceptance" \in job.touched  BY <1>a, <2>1, <2>2 DEF UInv, TransactionInv
  <2>4. disk' \in [Paths -> Content] /\ \A p \in Restorable \ job.touched : disk'[p] = disk[p]
    BY <1>0, <2>1, <2>3 DEF Restorable, Content
  <2> QED  BY <1>0, <2>1, <2>2, <2>4, TransactionStep
<1>7. CASE ActivateConstitution
  <2>1. job.pc = "constitution" /\ job' = [job EXCEPT !.pc = "manifest"]
        /\ disk' = (IF job.constitution THEN [disk EXCEPT !["state"] = "new"] ELSE disk)
        /\ UNCHANGED <<record, manifest, before, outcome>>
    BY <1>7 DEF ActivateConstitution, To, ghosts
  <2>2. {"constitution", "manifest"} \subseteq Transaction  BY DEF Transaction, Outside, PCs
  <2>3. job.constitution => "state" \in job.touched  BY <1>a, <2>1, <2>2 DEF UInv, TransactionInv
  <2>4. disk' \in [Paths -> Content] /\ \A p \in Restorable \ job.touched : disk'[p] = disk[p]
    BY <1>0, <2>1, <2>3 DEF Restorable, Content
  <2> QED  BY <1>0, <2>1, <2>2, <2>4, TransactionStep
<1>8. CASE WriteManifest
  <2>1. job.pc = "manifest" /\ job' = [job EXCEPT !.pc = "record"] /\ manifest' \in Version
        /\ UNCHANGED <<disk, record, before, outcome>>
    BY <1>8 DEF WriteManifest, To, ghosts, Version
  <2>2. {"manifest", "record"} \subseteq Transaction  BY DEF Transaction, Outside, PCs
  <2> QED  BY <1>0, <2>1, <2>2, TransactionStep
<1>9. CASE WriteRecord
  <2>1. job.pc = "record" /\ UNCHANGED <<disk, manifest, before, outcome>>
        /\ job' = [job EXCEPT !.pc = IF job.kind = "install" THEN "event" ELSE "validate"]
        /\ record' = [schema |-> 3, version |-> "new", digest |-> [p \in Managed |-> disk[p]]]
    BY <1>9 DEF WriteRecord, To, ghosts
  <2>2. {"record", "validate"} \subseteq Transaction /\ "event" \in PCs \cap Outside
    BY DEF Transaction, Outside, PCs
  <2>3. [p \in Managed |-> disk[p]] \in [Managed -> Digest]  BY <1>0 DEF Digest
  <2>4. record' \in Recorded  BY <2>1, <2>3 DEF Recorded, Version
  <2>5. CASE job.kind = "install"
    <3>1. job' = [job EXCEPT !.pc = "event"]  BY <2>1, <2>5
    <3>2. job' \in Job /\ job'.pc = "event" /\ job'.todo = job.todo /\ job'.changed = job.changed
          /\ job'.touched = job.touched
      BY <1>0, <2>2, <3>1 DEF Job
    <3>3. TargetTyped'  BY <1>0, <2>1, <2>4, <3>2 DEF UInv, TargetTyped
    <3> QED  BY <2>2, <3>2, <3>3, NothingToRestore
  <2>6. CASE job.kind # "install"
    <3>1. job' = [job EXCEPT !.pc = "validate"]  BY <2>1, <2>6
    <3> QED  BY <1>0, <2>1, <2>2, <2>4, <3>1, TransactionStep
  <2> QED  BY <2>5, <2>6
<1> QED  BY <1>1, <1>2, <1>3, <1>4, <1>5, <1>6, <1>7, <1>8, <1>9
LEMMA FailStep == ASSUME UInv, Fail PROVE UInv'
<1> DEFINE todo == job.touched
           j == [job EXCEPT !.pc = "rollback", !.todo = todo]
<1>0. job \in Job /\ InTransaction  BY DEF UInv, TargetTyped, Fail
<1>1. job' = j /\ UNCHANGED <<disk, record, manifest, before, outcome>>
  BY DEF Fail, target, ghosts
<1>2. todo \subseteq Paths \cup Manifests  BY <1>0 DEF Job
<1>3. /\ j \in Job /\ j.pc = "rollback" /\ j.touched = job.touched /\ j.todo = job.touched
      /\ j.layout = job.layout
  BY <1>0, <1>2 DEF Job, PCs
<1> HIDE DEF j, todo
<1>4. TargetTyped'  BY <1>1, <1>3 DEF UInv, TargetTyped
<1>5. RollbackInv'
  BY <1>0, <1>1, <1>3 DEF UInv, TransactionInv, RollbackInv, Manifests
<1>6. LayoutInv'  BY <1>0, <1>1, <1>3 DEF UInv, LayoutInv
<1>7. TransactionInv'  BY <1>1, <1>3 DEF TransactionInv, InTransaction
<1> QED  BY <1>4, <1>5, <1>6, <1>7 DEF UInv

\* One file after another is restored, and the rest is still to be.
LEMMA RollbackFileStep ==
  ASSUME UInv, NEW p \in Paths \cup {"record", "manifest"}, RollbackFile(p) PROVE UInv'
<1> DEFINE todo == job.todo \ {p}
           j == [job EXCEPT !.todo = todo]
<1>0. job \in Job /\ before \in Snapshot  BY DEF UInv, TargetTyped
<1>1. /\ job.pc = "rollback" /\ job' = j
      /\ record' = IF p = "record" THEN before.record ELSE record
      /\ manifest' = IF p = "manifest" THEN before.manifest ELSE manifest
      /\ disk' = IF p \in Paths THEN [disk EXCEPT ![p] = before.disk[p]] ELSE disk
      /\ UNCHANGED <<before, outcome>>
  BY DEF RollbackFile, ghosts
<1>2. todo \subseteq Paths \cup Manifests  BY <1>0 DEF Job
<1>3. /\ j \in Job /\ j.pc = "rollback" /\ j.touched = job.touched /\ j.todo = todo
      /\ j.layout = job.layout /\ j.changed = job.changed
  BY <1>0, <1>1, <1>2 DEF Job
<1> HIDE DEF j
<1>4. /\ before.disk \in [Paths -> Content] /\ before.record \in Recorded
      /\ before.manifest \in Version
  BY <1>0 DEF Snapshot
<1>5. TargetTyped'  BY <1>1, <1>3, <1>4 DEF UInv, TargetTyped
<1>6. RollbackInv'
  <2>1. \A q \in Restorable \ todo : disk'[q] = before.disk[q]
    BY <1>1 DEF UInv, TargetTyped, RollbackInv, Restorable
  <2>2. /\ "record" \notin todo => record' = before.record
        /\ "manifest" \notin todo => manifest' = before.manifest
    BY <1>1 DEF UInv, RollbackInv
  <2> QED  BY <1>1, <1>3, <2>1, <2>2 DEF RollbackInv
<1>7. LayoutInv'  BY <1>1, <1>3 DEF UInv, LayoutInv
<1>8. TransactionInv'  BY <1>1, <1>3 DEF TransactionInv, InTransaction
<1> QED  BY <1>5, <1>6, <1>7, <1>8 DEF UInv

LEMMA RollbackDoneStep == ASSUME UInv, RollbackDone PROVE UInv'
<1>0. job \in Job  BY DEF UInv, TargetTyped
<1>1. /\ job.pc = "rollback" /\ job.todo = {} /\ job' = [job EXCEPT !.pc = "undo_layout"]
      /\ UNCHANGED <<disk, record, manifest, before, outcome>>
  BY DEF RollbackDone, To, target, ghosts
<1>2. /\ job' \in Job /\ job'.pc = "undo_layout" /\ job'.todo = job.todo
      /\ job'.touched = job.touched /\ job'.changed = job.changed /\ job'.layout = job.layout
  BY <1>0, <1>1 DEF Job, PCs
<1>3. TargetTyped'  BY <1>1, <1>2 DEF UInv, TargetTyped
<1>4. RollbackInv'  BY <1>1, <1>2 DEF UInv, RollbackInv
<1>5. LayoutInv'  BY <1>1, <1>2 DEF UInv, LayoutInv
<1>6. TransactionInv'  BY <1>2 DEF TransactionInv, InTransaction
<1> QED  BY <1>3, <1>4, <1>5, <1>6 DEF UInv

LEMMA InstallerInductive == UInv /\ [Next]_vars => UInv'
<1> SUFFICES ASSUME UInv, [Next]_vars PROVE UInv'  OBVIOUS
<1>1. CASE UNCHANGED vars
  <2>1. UNCHANGED <<disk, record, manifest, job, before, outcome>>
    BY <1>1 DEF vars, target, ghosts
  <2> QED  BY <2>1 DEF UInv, TargetTyped, TransactionInv, RollbackInv, LayoutInv, InTransaction
<1>2. CASE \/ MigrateRecordV2 \/ MigrateRecordV3 \/ RefuseLate \/ ValidationPasses
           \/ RemoveLegacy \/ Finish \/ UndoLayout \/ Crash \/ \E p \in Managed : Edit(p)
  BY <1>2, OutsideSteps
<1>3. CASE \/ WriteSeeds \/ MoveLayout \/ CopyDone \/ ClearAdapter \/ CompileAdapter
           \/ MigrateAcceptance \/ ActivateConstitution \/ WriteManifest \/ WriteRecord
  BY <1>3, WritingSteps
<1> QED
  BY <1>1, <1>2, <1>3, BeginUpdateStep, BeginInstallStep, TakeSnapshotStep, CopyStep, FailStep,
     RollbackFileStep, RollbackDoneStep DEF Next

LEMMA InstallerInvariant == Spec => []UInv
<1> QED  BY InstallerInitially, InstallerInductive, PTL DEF Spec

\* What the files and manifests of a target hold is of a kind the code writes, and
\* a run copies and restores nothing but what it plans or has taken a snapshot of.
THEOREM InstallerTypeCorrect == Spec => []InstallerTypeOK
<1>1. UInv => InstallerTypeOK
  BY DEF UInv, TargetTyped, InstallerTypeOK, Recorded, Job, Manifests
<1> QED  BY <1>1, InstallerInvariant, PTL

\* Whichever step of an update fails, once it was rolled back the manifests, the
\* project's documents and every managed file outside the adapter directory are as
\* they were when the transaction began (rollback_paths: what the plan changes,
\* the documents it migrates and the layout it moves are all in the snapshot).
THEOREM UpdateIsUndone == Spec => FailedUpdateRestores
<1> DEFINE A == Ends("rolled_back") => /\ AsBefore(Paths \ (Compiled \cup {Own}))
                                       /\ record' = before.record /\ manifest' = before.manifest
<1>1. ASSUME UInv, [Next]_vars PROVE A
  <2> SUFFICES ASSUME Ends("rolled_back")
               PROVE  /\ AsBefore(Paths \ (Compiled \cup {Own}))
                      /\ record' = before.record /\ manifest' = before.manifest
    OBVIOUS
  <2>0. job \in Job /\ job.pc # "idle" /\ job'.pc = "idle" /\ outcome' = "rolled_back"
    BY <1>1 DEF Ends, UInv, TargetTyped
  <2>1. ASSUME NEW c, c # "idle", job' = [job EXCEPT !.pc = c] PROVE FALSE
    BY <2>0, <2>1 DEF Job
  <2>2. ~Refuse /\ ~Crash /\ ~Finish  BY <2>0 DEF Refuse, Crash, Finish
  <2>3. UndoLayout
    <3>1. ~BeginUpdate /\ ~BeginInstall /\ \A p \in Managed : ~Edit(p)
      BY <2>0 DEF BeginUpdate, BeginInstall, Edit
    <3>2. ~MigrateRecordV2 /\ ~MigrateRecordV3 /\ ~RefuseLate
      BY <2>1, <2>2 DEF MigrateRecordV2, MigrateRecordV3, RefuseLate
    <3>3. ~TakeSnapshot /\ ~Fail
      BY <2>0 DEF TakeSnapshot, Fail, Job
    <3>4. \A p : ~CopyFile(p) /\ ~RollbackFile(p)
      BY <2>0 DEF CopyFile, RollbackFile, Job
    <3>5. ~WriteSeeds /\ ~MoveLayout /\ ~ClearAdapter /\ ~MigrateAcceptance
          /\ ~ActivateConstitution /\ ~WriteManifest /\ ~ValidationPasses /\ ~RemoveLegacy
          /\ ~RollbackDone
      BY <2>1 DEF WriteSeeds, MoveLayout, ClearAdapter, MigrateAcceptance, ActivateConstitution,
         WriteManifest, ValidationPasses, RemoveLegacy, RollbackDone, To
    <3>6. ~CopyDone /\ ~CompileAdapter /\ ~WriteRecord
      <4>1. AfterCopy # "idle" /\ (IF job.kind = "install" THEN "event" ELSE "validate") # "idle"
            /\ (IF job.changed \cap Compiled # {} THEN "clear" ELSE AfterCopy) # "idle"
        BY DEF AfterCopy
      <4> QED  BY <2>1, <4>1 DEF CopyDone, CompileAdapter, WriteRecord, To
    <3>7. ~UNCHANGED vars  BY <2>0 DEF vars
    <3> QED  BY <1>1, <2>2, <3>1, <3>2, <3>3, <3>4, <3>5, <3>6, <3>7 DEF Next
  <2>4. /\ job.pc = "undo_layout" /\ UNCHANGED <<record, manifest, before>>
        /\ disk' = IF job.layout THEN [disk EXCEPT ![Templates] = "none"] ELSE disk
    BY <2>3 DEF UndoLayout
  <2>5. /\ \A p \in Restorable : disk[p] = before.disk[p]
        /\ record = before.record /\ manifest = before.manifest
        /\ job.layout => before.disk[Templates] = "none"
    BY <1>1, <2>4 DEF UInv, RollbackInv, LayoutInv
  <2>6. \A p \in Restorable : disk'[p] = before.disk[p]
    BY <1>1, <2>4, <2>5 DEF UInv, TargetTyped, Restorable
  <2> QED  BY <2>4, <2>5, <2>6 DEF AsBefore, Restorable
<1> HIDE DEF A
<1>2. Spec => [][A]_vars  BY <1>1, InstallerInvariant, PTL DEF Spec
<1> QED  BY <1>2 DEF FailedUpdateRestores, A
=============================================================================
