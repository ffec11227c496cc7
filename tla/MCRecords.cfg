SPECIFICATION RecordsSpec
CONSTANTS
  u1 = u1
  u2 = u2
  a1 = a1
  a2 = a2
  x1 = x1
  x2 = x2
  v1 = v1
  Units = {u1, u2}
  UiUnits = {u1}
  Artifacts = {a1, a2}
  Images = {a1, a2}
  TargetOf <- OneTarget
  NoTarget = "none"
  Contents = {1, 2}
  RefSets = {s1}
  Contracts = {c1}
  Reports = {r1, r2}
  Commits = {x1, x2}
  Modes = {"conform", "create"}
  None = None
  NoAuth = NoAuth
  HasBackend = TRUE
  MaxReports = 2
  Auths = {t1, t2}
  Targets <- AllTargets
  Decisions = {d1}
  Findings = {f1}
  Feedbacks = {h1, h2}
  Checkpoints = {k1, k2}
  Evidences = {e1}
  Acceptances = {p1}
  CheckpointOf <- Asked
  Revisions = {v1, v2}
  env = env
  menu = menu
  other = other
  writer = writer
  Roles = {writer, critic}
  MissionArtifacts = {env, menu, other}
  GrantIds = {g1}
  RunIds = {n1}
  KindOf <- Kinds
  RequiredKinds <- Asks
  Drafts = {"full", "cheap"}
  CeilingsOf <- Ceilings
  CoverageOf <- Coverages
  AreaOf <- Areas
  Project = "project"
  MaxUses = 1
  MaxReviews = 2
  MaxRevision = 4
  Core <- MCCore
  Templates <- MCTemplates
  Compiled <- MCCompiled
  Hooks <- MCHooks
  Posix = TRUE
  MaxUpdates = 2
  MaxEdits = 1
  MaxFaults = 1
  Trees <- MCTrees
  AiTeam <- MCAiTeam
  Agents <- MCAgents
  MaxStarts = 2
  MaxFailures = 2
  LateFailures = FALSE
  Topics = {"gates", "feedback", "design", "mission", "ensemble", "reconciliation", "scope", "tools"}
  Ensembles = {"shop", "back"}
  Members = {"ui", "api"}
  Repos = {"web", "site", "server"}
  Compositions = {"first", "second"}
  Shas = {1, 2}
  Clients = {p1}
  Absent = Absent
  MaxProduct = 1
  Sources = {"brief"}
  Fillings <- Filings
  MaxWrites = 3
  WrittenPaths <- AgentPaths
  ControlPlane <- RunsDir
  Outputs <- EvidenceDir
  BuildDirs = {"target"}
  RoleTemplates <- Writers
  Mandates <- Allotted
  Anything = Anything
  MaxChanged = 2
SYMMETRY Alike
CONSTRAINT Within
INVARIANTS AuthorizationUsedOnce CheckpointAnsweredOnce RunRestsOnReview MembersAreLinked 
 
PROPERTIES  ProductIsPinned  
CHECK_DEADLOCK FALSE
