----------------------------- MODULE Installer -----------------------------
(***************************************************************************)
(* tools/install.py: a fresh install and the transactional update of a     *)
(* target (distribution/installer).  A file is its content only: none,     *)
(* what the old release installed, what the new one installs, edited (by a *)
(* person), torn (half a copy) or derived (compiled from edited templates). *)
(* The release that is installed is new.                                    *)
(*                                                                         *)
(* An update migrates the installation record, takes a snapshot of what it *)
(* is about to touch, moves the files of the 0.6 layout, copies, compiles  *)
(* the directory of the adapter, migrates project data, writes the         *)
(* manifests and validates; an exception rolls back from the snapshot.     *)
(***************************************************************************)
EXTENDS Naturals, FiniteSets

CONSTANTS
  Core,          \* managed files that are copied as they are
  Templates,     \* the managed file the adapter directory is compiled from
  Compiled,      \* the managed files of the adapter directory (.cursor)
  Hooks,         \* its hooks.json
  Posix,         \* hooks.json is rewritten for the machine (not on Windows)
  MaxUpdates, MaxEdits, MaxFaults

ASSUME InstallerAssumption ==
  /\ Hooks \in Compiled /\ Posix \in BOOLEAN
  /\ Templates \notin Core \cup Compiled /\ Core \cap Compiled = {}
  /\ MaxUpdates \in Nat /\ MaxEdits \in Nat /\ MaxFaults \in Nat

Copied  == Core \cup {Templates}
Managed == Copied \cup Compiled
Own     == "own"           \* a file of the project in the adapter directory
Legacy  == "legacy"        \* the templates where 0.6 installed them
Seeds   == {"profile", "state", "registry"}
Paths   == Managed \cup Seeds \cup {Own, Legacy, "acceptance"}
Content == {"none", "old", "new", "edited", "torn", "derived"}
Version == {"none", "old", "new"}
Digest  == Content \cup {"unrecorded"}

VARIABLES
  disk,      \* disk[p]: the content of p in the target
  record,    \* installation-record.json: schema (0: no file), version, digests
  manifest,  \* framework-version.json: its version
  job,       \* the run of the installer that is going on
  before,    \* what the target held when the last transaction began
  outcome,   \* how the last run ended
  event,     \* a CONTRACT_CHANGE event was written since the last run began
  updates, edits, faults

target == <<disk, record, manifest>>
ghosts == <<before, outcome, event>>
bounds == <<updates, edits, faults>>
vars   == <<target, job, ghosts, bounds>>

Idle == [pc |-> "idle", kind |-> "update", force |-> FALSE, forced |-> FALSE,
         changed |-> {}, touched |-> {}, accept |-> FALSE, constitution |-> FALSE,
         layout |-> FALSE, todo |-> {}]

PCs == {"idle", "record_v2", "record_v3", "snapshot", "seeds", "layout", "copy",
        "clear", "compile", "acceptance", "constitution", "manifest", "record",
        "validate", "cleanup", "event", "rollback", "undo_layout"}

InTransaction == job.pc \in PCs \ {"idle", "record_v2", "record_v3", "snapshot",
                                   "cleanup", "event", "rollback", "undo_layout"}

NoRecord == [schema |-> 0, version |-> "none", digest |-> [p \in Managed |-> "unrecorded"]]

(* Type invariant. *)
InstallerTypeOK ==
  /\ disk \in [Paths -> Content]
  /\ record.schema \in {0, 2, 3} /\ record.version \in Version
  /\ record.digest \in [Managed -> Digest] /\ manifest \in Version
  /\ job.pc \in PCs /\ job.changed \subseteq Managed
  /\ job.touched \subseteq Paths \cup {"record", "manifest"}
  /\ job.todo \subseteq job.changed \cup job.touched
  /\ outcome \in {"none", "complete", "rolled_back", "refused", "crashed"}

-----------------------------------------------------------------------------
(* Planning *)

(* The compiler takes the templates of the target as soon as it has any;   *)
(* what it makes of templates that somebody edited is nobody's edit.        *)
CompiledFrom(templates) ==
  CASE templates = "none" -> "new"
    [] templates \in {"old", "new"} -> templates
    [] OTHER -> "derived"

PlannedContent(p) == IF p \in Compiled THEN CompiledFrom(disk[Templates]) ELSE "new"

(* A compiled hooks.json never equals the one that was rewritten. *)
ToChange == {p \in Managed : \/ disk[p] # PlannedContent(p)
                             \/ p = Hooks /\ Posix}

(* Only a record of schema 3 has digests, and only for what it lists. *)
Drifted == {p \in ToChange : /\ disk[p] # "none" /\ record.schema = 3
                             /\ record.digest[p] \notin {"unrecorded", disk[p]}}

InstalledVersion == IF record.schema > 0 THEN record.version ELSE manifest

(* A path is moved when the old directory exists and the new one does not. *)
NeedsLayoutMigration == disk[Legacy] # "none" /\ disk[Templates] = "none"

(* What an update takes a snapshot of. *)
Touched ==
  job.changed \cup {"record", "manifest"}
    \cup (IF job.accept THEN {"acceptance"} ELSE {})
    \cup (IF job.constitution THEN {"state"} ELSE {})
    \cup (IF NeedsLayoutMigration THEN {Templates} ELSE {})

(* Mutant: the files of the plan were left to the record that lists them. *)
TouchedDocuments == Touched \ job.changed

TouchedSet == Touched

(* A fresh install refuses to overwrite what no record makes the framework's. *)
Collisions ==
  {p \in Managed \cup Seeds : /\ disk[p] # "none"
                              /\ p = "registry" \/ record.schema = 0}

-----------------------------------------------------------------------------
(* Starting *)

Refuse == outcome' = "refused" /\ job' = Idle
          /\ UNCHANGED <<target, before, event, bounds>>

(* Everything run_update decides from one reading of the target: the frozen *)
(* constitution and the drift end it here, with nothing written.            *)
BeginUpdate ==
  /\ job.pc = "idle" /\ updates < MaxUpdates
  /\ disk["profile"] # "none"
  /\ \E force, frozen, override \in BOOLEAN :
       LET constitution == disk["state"] = "old"
       IN /\ constitution /\ frozen => override
          /\ Drifted # {} => force
          /\ job' = [Idle EXCEPT !.pc = "record_v2", !.force = force,
                       !.changed = ToChange, !.constitution = constitution,
                       !.forced = constitution /\ frozen,
                       !.accept = disk["acceptance"] = "old"]
  /\ updates' = updates + 1 /\ event' = FALSE
  /\ UNCHANGED <<target, before, outcome, edits, faults>>

BeginInstall ==
  /\ job.pc = "idle" /\ updates < MaxUpdates
  /\ \E force \in BOOLEAN :
       /\ Collisions # {} \/ disk[Legacy] # "none" => force
       /\ job' = [Idle EXCEPT !.pc = "seeds", !.kind = "install", !.force = force,
                    !.changed = ToChange, !.todo = ToChange \ Compiled,
                    !.touched = ToChange \cup Seeds \cup {"record", "manifest"}]
  /\ before' = [disk |-> disk, record |-> record, manifest |-> manifest]
  /\ updates' = updates + 1 /\ event' = FALSE
  /\ UNCHANGED <<target, outcome, edits, faults>>

(* The v1 manifest becomes a record of the version about to be installed, *)
(* with the profile naming its adapter; a file no owner can be found for  *)
(* refuses the update.                                                    *)
MigrateRecordV2 ==
  /\ job.pc = "record_v2"
  /\ IF record.schema = 0 /\ manifest # "none"
       THEN \/ Refuse
            \/ /\ record' = [NoRecord EXCEPT !.schema = 2, !.version = "new"]
               /\ disk' = [disk EXCEPT !["profile"] = "new"]
               /\ job' = [job EXCEPT !.pc = "record_v3"]
               /\ UNCHANGED <<manifest, ghosts, bounds>>
       ELSE /\ job' = [job EXCEPT !.pc = "record_v3"]
            /\ UNCHANGED <<target, ghosts, bounds>>

(* A record of schema 2 receives the digests of what is on disk now. *)
MigrateRecordV3 ==
  /\ job.pc = "record_v3"
  /\ record' = IF record.schema # 2 THEN record
               ELSE [record EXCEPT !.schema = 3,
                       !.digest = [p \in Managed |->
                         IF p = Templates /\ disk[p] = "none" THEN "unrecorded" ELSE disk[p]]]
  /\ job' = [job EXCEPT !.pc = "snapshot"]
  /\ UNCHANGED <<disk, manifest, ghosts, bounds>>

(* A worktree that is not clean, or no interpreter to validate with, refuses *)
(* the update unless a flag allows it: after the record was migrated.        *)
RefuseLate == job.pc = "snapshot" /\ Refuse

TakeSnapshot ==
  /\ job.pc = "snapshot"
  /\ before' = [disk |-> disk, record |-> record, manifest |-> manifest]
  /\ job' = [job EXCEPT !.pc = "layout", !.touched = TouchedSet,
               !.layout = NeedsLayoutMigration, !.todo = job.changed \ Compiled]
  /\ UNCHANGED <<target, outcome, event, bounds>>

-----------------------------------------------------------------------------
(* The transaction *)

To(pc) == job' = [job EXCEPT !.pc = pc]

(* Fresh install only: profile, state and registry are copied over. *)
WriteSeeds ==
  /\ job.pc = "seeds" /\ To("copy")
  /\ disk' = [p \in Paths |-> IF p \in Seeds THEN "new" ELSE disk[p]]
  /\ UNCHANGED <<record, manifest, ghosts, bounds>>

(* The old directory is copied, and kept until the update has succeeded. *)
MoveLayout ==
  /\ job.pc = "layout" /\ To("copy")
  /\ disk' = IF job.layout THEN [disk EXCEPT ![Templates] = disk[Legacy]] ELSE disk
  /\ UNCHANGED <<record, manifest, ghosts, bounds>>

CopyFile(p) ==
  /\ job.pc = "copy" /\ job.todo # {} /\ p = CHOOSE q \in job.todo : TRUE
  /\ disk' = [disk EXCEPT ![p] = "new"]
  /\ job' = [job EXCEPT !.todo = @ \ {p}]
  /\ UNCHANGED <<record, manifest, before, outcome, event, bounds>>

AfterCopy == IF job.kind = "install" THEN "manifest" ELSE "acceptance"

CopyDone ==
  /\ job.pc = "copy" /\ job.todo = {}
  /\ To(IF job.changed \cap Compiled # {} THEN "clear" ELSE AfterCopy)
  /\ UNCHANGED <<target, ghosts, bounds>>

(* The whole adapter directory is removed, with what the project put there. *)
ClearAdapter ==
  /\ job.pc = "clear" /\ To("compile")
  /\ disk' = [p \in Paths |-> IF p \in Compiled \cup {Own} THEN "none" ELSE disk[p]]
  /\ UNCHANGED <<record, manifest, before, outcome, event, bounds>>

CompileAdapter ==
  /\ job.pc = "compile" /\ To(AfterCopy)
  /\ disk' = [p \in Paths |-> IF p \in Compiled
                         THEN CompiledFrom(disk[Templates]) ELSE disk[p]]
  /\ UNCHANGED <<record, manifest, ghosts, bounds>>

MigrateAcceptance ==
  /\ job.pc = "acceptance" /\ To("constitution")
  /\ disk' = IF job.accept THEN [disk EXCEPT !["acceptance"] = "new"] ELSE disk
  /\ UNCHANGED <<record, manifest, ghosts, bounds>>

ActivateConstitution ==
  /\ job.pc = "constitution" /\ To("manifest")
  /\ disk' = IF job.constitution THEN [disk EXCEPT !["state"] = "new"] ELSE disk
  /\ UNCHANGED <<record, manifest, ghosts, bounds>>

(* finalize_installation_manifests: the v1 manifest, and the record last. *)
WriteManifest ==
  /\ job.pc = "manifest" /\ To("record") /\ manifest' = "new"
  /\ UNCHANGED <<disk, record, ghosts, bounds>>

WriteRecord ==
  /\ job.pc = "record"
  /\ record' = [schema |-> 3, version |-> "new", digest |-> [p \in Managed |-> disk[p]]]
  /\ To(IF job.kind = "install" THEN "event" ELSE "validate")
  /\ UNCHANGED <<disk, manifest, ghosts, bounds>>

(* validate.py, a minute at most; it may not agree (Fail). *)
ValidationPasses ==
  /\ job.pc = "validate" /\ To("cleanup")
  /\ UNCHANGED <<target, ghosts, bounds>>

-----------------------------------------------------------------------------
(* The end of a transaction *)

(* The transaction is over: what follows is not rolled back. *)
RemoveLegacy ==
  /\ job.pc = "cleanup" /\ To("event")
  /\ disk' = IF job.layout THEN [disk EXCEPT ![Legacy] = "none"] ELSE disk
  /\ UNCHANGED <<record, manifest, ghosts, bounds>>

Finish ==
  /\ job.pc = "event" /\ job' = Idle
  /\ event' = job.forced /\ outcome' = "complete"
  /\ UNCHANGED <<target, before, bounds>>

(* Any step of the transaction may raise; a failed validation does. *)
Fail ==
  /\ InTransaction
  /\ job.pc = "validate" \/ faults < MaxFaults
  /\ faults' = IF job.pc = "validate" THEN faults ELSE faults + 1
  /\ job' = [job EXCEPT !.pc = "rollback", !.todo = job.touched]
  /\ UNCHANGED <<target, ghosts, updates, edits>>

(* rollback_paths, in one order: what the snapshot has is copied back, what *)
(* it lacks is removed.                                                     *)
RollbackFile(p) ==
  /\ job.pc = "rollback" /\ job.todo # {} /\ p = CHOOSE q \in job.todo : TRUE
  /\ job' = [job EXCEPT !.todo = @ \ {p}]
  /\ record' = IF p = "record" THEN before.record ELSE record
  /\ manifest' = IF p = "manifest" THEN before.manifest ELSE manifest
  /\ disk' = IF p \in Paths THEN [disk EXCEPT ![p] = before.disk[p]] ELSE disk
  /\ UNCHANGED <<ghosts, bounds>>

RollbackDone ==
  /\ job.pc = "rollback" /\ job.todo = {} /\ To("undo_layout")
  /\ UNCHANGED <<target, ghosts, bounds>>

(* The new directories of the layout are removed as a whole. *)
UndoLayout ==
  /\ job.pc = "undo_layout" /\ job' = Idle /\ outcome' = "rolled_back"
  /\ disk' = IF job.layout THEN [disk EXCEPT ![Templates] = "none"] ELSE disk
  /\ UNCHANGED <<record, manifest, before, event, bounds>>

(* The process stops, by a signal or an interrupt, which no handler takes. *)
(* The snapshot is gone with its temporary directory; a file that was      *)
(* being copied is cut short.                                              *)
Crash ==
  /\ job.pc # "idle" /\ faults < MaxFaults
  /\ faults' = faults + 1 /\ job' = Idle /\ outcome' = "crashed"
  /\ \/ UNCHANGED disk
     \/ \E p \in job.todo \cap Copied :
          /\ job.pc \in {"copy", "rollback"}
          /\ disk' = [disk EXCEPT ![p] = "torn"]
  /\ UNCHANGED <<record, manifest, before, event, updates, edits>>

(* Between two runs a person edits a managed file.  There is one content   *)
(* edited, so a file whose digest is that of an edit is not edited again.  *)
Edit(p) ==
  /\ job.pc = "idle" /\ edits < MaxEdits
  /\ disk[p] \notin {"none", "edited"} /\ record.digest[p] # "edited"
  /\ disk' = [disk EXCEPT ![p] = "edited"] /\ edits' = edits + 1
  /\ UNCHANGED <<record, manifest, job, before, outcome, event, updates, faults>>

-----------------------------------------------------------------------------
(* What a target may be found as: empty, a 0.6 layout with a v1 manifest,  *)
(* the present layout with a record of schema 2 or 3; with or without      *)
(* project data of the old release.                                        *)
Installed(layout06, acceptance) ==
  [p \in Paths |->
     IF p = Legacy THEN IF layout06 THEN "old" ELSE "none"
     ELSE IF p = Templates THEN IF layout06 THEN "none" ELSE "old"
     ELSE IF p = Own THEN "edited"
     ELSE IF p = "acceptance" THEN IF acceptance THEN "old" ELSE "none"
     ELSE "old"]

Init ==
  /\ \/ /\ disk = [p \in Paths |-> "none"] /\ record = NoRecord /\ manifest = "none"
     \/ /\ \E a \in BOOLEAN : disk = Installed(TRUE, a)
        /\ record = NoRecord /\ manifest = "old"
     \/ /\ \E a \in BOOLEAN : disk = Installed(FALSE, a)
        /\ record = [NoRecord EXCEPT !.schema = 2, !.version = "old"] /\ manifest = "old"
     \/ /\ \E a \in BOOLEAN : disk = Installed(FALSE, a)
        /\ record = [schema |-> 3, version |-> "old", digest |-> [p \in Managed |-> "old"]]
        /\ manifest = "old"
  /\ job = Idle /\ outcome = "none" /\ event = FALSE
  /\ before = [disk |-> disk, record |-> record, manifest |-> manifest]
  /\ updates = 0 /\ edits = 0 /\ faults = 0

Next ==
  \/ BeginUpdate \/ BeginInstall
  \/ MigrateRecordV2 \/ MigrateRecordV3 \/ RefuseLate \/ TakeSnapshot
  \/ WriteSeeds \/ MoveLayout \/ (\E p \in Copied : CopyFile(p)) \/ CopyDone
  \/ ClearAdapter \/ CompileAdapter \/ MigrateAcceptance \/ ActivateConstitution
  \/ WriteManifest \/ WriteRecord \/ ValidationPasses
  \/ RemoveLegacy \/ Finish
  \/ Fail \/ (\E p \in Paths \cup {"record", "manifest"} : RollbackFile(p))
  \/ RollbackDone \/ UndoLayout \/ Crash
  \/ \E p \in Managed : Edit(p)

Spec == Init /\ [][Next]_vars

-----------------------------------------------------------------------------
(* Properties *)

Ends(how) == job.pc # "idle" /\ job'.pc = "idle" /\ outcome' = how

AsBefore(ps) == \A p \in ps : disk'[p] = before.disk[p]

(* A run that was rolled back leaves the manifests, the project's own      *)
(* documents and every managed file outside the adapter directory as they *)
(* were when its transaction began, whichever step failed.                *)
FailedUpdateRestores ==
  [][Ends("rolled_back") => /\ AsBefore(Paths \ (Compiled \cup {Own}))
                            /\ record' = before.record /\ manifest' = before.manifest]_vars

(* operations.py says "target files and installation manifests were       *)
(* restored": so should the files of the adapter directory be.            *)
RollbackIsComplete == [][Ends("rolled_back") => AsBefore(Paths)]_vars
=============================================================================
