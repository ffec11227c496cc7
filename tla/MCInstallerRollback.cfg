SPECIFICATION ToolsSpec
CONSTANTS
  Core <- MCCore
  Templates <- MCTemplates
  Compiled <- MCCompiled
  Hooks <- MCHooks
  Posix = TRUE
  MaxUpdates = 3
  MaxEdits = 1
  MaxFaults = 1
  Trees <- MCTrees
  AiTeam <- MCAiTeam
  Agents <- MCAgents
  MaxStarts = 2
  MaxFailures = 2
  LateFailures = FALSE
PROPERTIES RollbackIsComplete
CHECK_DEADLOCK FALSE
