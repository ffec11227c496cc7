------------------------- MODULE InstanceMigration -------------------------
(***************************************************************************)
(* tools/migrate_to_instance.py: an install that lives inside a product    *)
(* repository (the source) is moved to a directory of its own (the         *)
(* instance), and the source keeps a thin link.  The source is backed up   *)
(* beside itself first; an exception restores it and clears the instance.  *)
(* A tree is its content only: none, whole (as the source had it), link    *)
(* (the overlay), moved (configured in the instance) or part of it.        *)
(***************************************************************************)
EXTENDS Naturals

CONSTANTS
  Trees,        \* .ai-team, scripts, .cursor, .claude, AGENTS.md
  AiTeam,       \* .ai-team, which holds the profile and the record
  Agents,       \* AGENTS.md, which is copied and not moved
  MaxStarts, MaxFailures,
  LateFailures  \* TRUE: also after the backup began to be removed

ASSUME MigrationAssumption ==
  /\ {AiTeam, Agents} \subseteq Trees /\ AiTeam # Agents
  /\ MaxStarts \in Nat /\ MaxFailures \in Nat /\ LateFailures \in BOOLEAN

VARIABLES
  source,    \* source[x]: the tree x of the product repository
  instance,  \* instance[x]: that of the instance
  backup,    \* backup[x]: that of the backup beside the source
  archive,   \* there is a zip of the backup in the instance
  step,      \* where the migration is
  starts, failures

migVars == <<source, instance, backup, archive, step, starts, failures>>

Steps == {"idle", "backup", "create", "move", "configure", "strip", "overlay",
          "archive", "remove_backup", "receipt", "restore", "drop_backup",
          "clear_instance", "migrated"}

(* No tree at all. *)
Nothing == [x \in Trees |-> "none"]

MigrationTypeOK ==
  /\ source \in [Trees -> {"none", "whole", "part", "link"}]
  /\ instance \in [Trees -> {"none", "whole", "part", "moved"}]
  /\ backup \in [Trees -> {"none", "whole", "part"}]
  /\ archive \in BOOLEAN /\ step \in Steps

SameCounts == UNCHANGED <<starts, failures>>

-----------------------------------------------------------------------------
(* plan_migration: a profile and a record in the source, no link, and an   *)
(* instance that does not exist or is empty.  A person names a new one     *)
(* after a failure.  dry_run stops here.                                   *)
StartMigration ==
  /\ step = "idle" /\ starts < MaxStarts
  /\ source[AiTeam] = "whole"
  /\ instance = Nothing
  /\ step' = "backup" /\ starts' = starts + 1 /\ backup' = Nothing
  /\ UNCHANGED <<source, instance, archive, failures>>

(* An instance that a crash has left behind is not empty and is refused: a *)
(* person whose source is whole names another.                             *)
NameAnotherInstance ==
  /\ step = "idle" /\ instance # Nothing /\ source[AiTeam] = "whole"
  /\ \A x \in Trees : source[x] = "whole"
  /\ instance' = Nothing
  /\ UNCHANGED <<source, backup, archive, step, starts, failures>>

(* The backup is made before anything is caught. *)
BackUpTree(x) ==
  /\ step = "backup" /\ backup[x] = "none" /\ source[x] # "none"
  /\ backup' = [backup EXCEPT ![x] = source[x]]
  /\ UNCHANGED <<source, instance, archive, step>> /\ SameCounts

(* Mutant: the move begins when the first tree is saved. *)
BackedUpSome == \E x \in Trees : backup[x] # "none"

BackedUp == \A x \in Trees : backup[x] # "none" \/ source[x] = "none"

Prepare ==
  /\ step = "backup" /\ BackedUp
  /\ step' = "create"
  /\ UNCHANGED <<source, instance, backup, archive>> /\ SameCounts

(* mkdir, git init, and AGENTS.md copied. *)
CreateInstance ==
  /\ step = "create" /\ step' = "move"
  /\ instance' = [instance EXCEPT ![Agents] = source[Agents]]
  /\ UNCHANGED <<source, backup, archive>> /\ SameCounts

(* shutil.move: a rename, or a copy and a removal across file systems. *)
MoveTree(x) ==
  /\ step = "move" /\ x # Agents /\ source[x] = "whole" /\ instance[x] = "none"
  /\ source' = [source EXCEPT ![x] = "none"]
  /\ instance' = [instance EXCEPT ![x] = "whole"]
  /\ UNCHANGED <<backup, archive, step>> /\ SameCounts

MoveDone ==
  /\ step = "move" /\ \A x \in Trees \ {Agents} : source[x] = "none"
  /\ step' = "configure"
  /\ UNCHANGED <<source, instance, backup, archive>> /\ SameCounts

(* The profile, the ensemble, its members and the catalog are written and  *)
(* the project's documents relocated into the ensemble.                    *)
Configure ==
  /\ step = "configure" /\ step' = "strip"
  /\ instance' = [instance EXCEPT ![AiTeam] = "moved"]
  /\ UNCHANGED <<source, backup, archive>> /\ SameCounts

(* What a move has left of the trees is removed. *)
StripSource ==
  /\ step = "strip" /\ step' = "overlay"
  /\ source' = [x \in Trees |-> IF x = Agents THEN source[x] ELSE "none"]
  /\ UNCHANGED <<instance, backup, archive>> /\ SameCounts

WriteOverlay ==
  /\ step = "overlay" /\ step' = "archive"
  /\ source' = [source EXCEPT ![AiTeam] = "link", ![Agents] = "link"]
  /\ UNCHANGED <<instance, backup, archive>> /\ SameCounts

(* The workspace file of the ensemble, and the zip of the backup. *)
MakeArchive ==
  /\ step = "archive" /\ step' = "remove_backup"
  /\ archive' = TRUE
  /\ UNCHANGED <<source, instance, backup>> /\ SameCounts

RemoveBackup ==
  /\ step = "remove_backup" /\ step' = "receipt"
  /\ backup' = Nothing
  /\ UNCHANGED <<source, instance, archive>> /\ SameCounts

WriteReceipt ==
  /\ step = "receipt" /\ step' = "migrated"
  /\ UNCHANGED <<source, instance, backup, archive>> /\ SameCounts

-----------------------------------------------------------------------------
(* Failures *)

Caught == {"create", "move", "configure", "strip", "overlay", "archive"}
Late   == {"remove_backup", "receipt"}

(* How far a step had come when it was cut short. *)
CutShort ==
  \/ UNCHANGED <<source, instance, backup>>
  \/ \E x \in Trees \ {Agents} :
       /\ step = "move" /\ source[x] = "whole"
       /\ \/ instance' = [instance EXCEPT ![x] = "part"] /\ UNCHANGED source
          \/ /\ instance' = [instance EXCEPT ![x] = "whole"]
             /\ source' = [source EXCEPT ![x] = "part"]
       /\ UNCHANGED backup
  \/ \E x \in Trees :
       /\ step = "remove_backup" /\ backup[x] = "whole"
       /\ backup' = [backup EXCEPT ![x] = "part"]
       /\ UNCHANGED <<source, instance>>

(* Mutant: the source is not restored after an early failure. *)
AfterFailureClear ==
  IF step \in {"create", "move", "receipt"} THEN "clear_instance" ELSE "restore"

(* The handler looks whether the backup is (still) a directory: it names   *)
(* the archive when only the receipt is left to write.                     *)
AfterFailure == IF step = "receipt" THEN "clear_instance" ELSE "restore"

RaiseError ==
  /\ failures < MaxFailures
  /\ step \in Caught \cup (IF LateFailures THEN Late ELSE {})
  /\ failures' = failures + 1 /\ step' = AfterFailure
  /\ CutShort
  /\ UNCHANGED <<archive, starts>>

(* An error while the backup is made is not caught: it stays, and the      *)
(* source is as it was.                                                    *)
BackupFails ==
  /\ step = "backup" /\ failures < MaxFailures
  /\ failures' = failures + 1 /\ step' = "idle"
  /\ UNCHANGED <<source, instance, backup, archive, starts>>

(* The source's tree is removed, then copied from the backup. *)
RestoreTree(x) ==
  /\ step = "restore" /\ source[x] # backup[x]
  /\ source' = [source EXCEPT ![x] = backup[x]]
  /\ UNCHANGED <<instance, backup, archive, step>> /\ SameCounts

RestoreDone ==
  /\ step = "restore" /\ source = backup
  /\ step' = "drop_backup"
  /\ UNCHANGED <<source, instance, backup, archive>> /\ SameCounts

DropBackup ==
  /\ step = "drop_backup" /\ step' = "clear_instance"
  /\ backup' = Nothing
  /\ UNCHANGED <<source, instance, archive>> /\ SameCounts

(* A directory the migration made is removed, of one that was there the    *)
(* five trees: the archive lies in the first of them.                      *)
ClearInstance ==
  /\ step = "clear_instance" /\ step' = "idle"
  /\ instance' = Nothing /\ archive' = FALSE
  /\ UNCHANGED <<source, backup>> /\ SameCounts

(* The process is killed: between two steps, inside a move, inside a       *)
(* restoration or while a backup is removed.                               *)
MigrationCrash ==
  /\ step \notin {"idle", "migrated"} /\ failures < MaxFailures
  /\ failures' = failures + 1 /\ step' = "idle"
  /\ \/ CutShort
     \/ \E x \in Trees :
          /\ step = "restore" /\ source[x] # backup[x]
          /\ \E c \in {"none", "part"} : source' = [source EXCEPT ![x] = c]
          /\ UNCHANGED <<instance, backup>>
     \/ \E x \in Trees :
          /\ step = "drop_backup"
          /\ backup' = [backup EXCEPT ![x] = "part"]
          /\ UNCHANGED <<source, instance>>
  /\ UNCHANGED <<archive, starts>>

-----------------------------------------------------------------------------
MigrationInit ==
  /\ source = [x \in Trees |-> "whole"]
  /\ instance = Nothing /\ backup = Nothing /\ archive = FALSE
  /\ step = "idle" /\ starts = 0 /\ failures = 0

MigrationNext ==
  \/ StartMigration \/ NameAnotherInstance
  \/ (\E x \in Trees : BackUpTree(x) \/ MoveTree(x) \/ RestoreTree(x))
  \/ Prepare \/ CreateInstance \/ MoveDone \/ Configure \/ StripSource
  \/ WriteOverlay \/ MakeArchive \/ RemoveBackup \/ WriteReceipt
  \/ RaiseError \/ BackupFails \/ RestoreDone \/ DropBackup \/ ClearInstance
  \/ MigrationCrash

MigrationSpec == MigrationInit /\ [][MigrationNext]_migVars

-----------------------------------------------------------------------------
(* Properties *)

Kept(x) == \/ source[x] = "whole" \/ instance[x] \in {"whole", "moved"}
           \/ backup[x] = "whole" \/ archive

(* Whatever fails or crashes, every tree of the source is complete in some *)
(* place: the source, the instance, the backup or the archive.  With       *)
(* LateFailures an error in the last two steps leaves none.                *)
NothingIsLost == \A x \in Trees : Kept(x)

(* A migration that fails and says so leaves the source as it was and      *)
(* nothing in the instance.                                                *)
FailedMigrationRestores ==
  [][step = "clear_instance" /\ step' = "idle" /\ failures' = failures =>
       \A x \in Trees : source'[x] = "whole" /\ instance'[x] = "none"]_migVars

=============================================================================
