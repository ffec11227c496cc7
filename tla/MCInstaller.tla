---------------------------- MODULE MCInstaller ----------------------------
(***************************************************************************)
(* Constants for TLC, and the two tools of the distribution side by side:  *)
(* an install inside a product repository, which --update refuses, is      *)
(* migrated; every other target is installed or updated.                   *)
(***************************************************************************)
EXTENDS Installer, InstanceMigration

MCCore      == {"constitution"}
MCTemplates == "templates"
MCCompiled  == {"agents", "hooks"}
MCHooks     == "hooks"
MCTrees     == {".ai-team", "scripts", "AGENTS.md"}
MCAiTeam    == ".ai-team"
MCAgents    == "AGENTS.md"

VARIABLE standalone    \* the target is an install inside a product repository

ToolsInit ==
  \/ standalone = FALSE /\ Init /\ MigrationInit
  \/ standalone = TRUE /\ Init /\ MigrationInit /\ record.schema = 3
       /\ disk["acceptance"] = "none"

ToolsNext ==
  /\ UNCHANGED standalone
  /\ \/ ~standalone /\ Next /\ UNCHANGED migVars
     \/ standalone /\ MigrationNext /\ UNCHANGED vars

ToolsSpec == ToolsInit /\ [][ToolsNext]_<<vars, migVars, standalone>>
=============================================================================
