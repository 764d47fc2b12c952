SPECIFICATION Spec
CONSTANTS
  n1 = n1
  n2 = n2
  test = test
  spaced = spaced
  script = script
  setup = setup
  lint = lint
  p1 = p1
  p2 = p2
  Words <- MCWords
  Toolchains = {"+1.85.0"}
  Parts <- MCParts
  Base <- MCBase
  SaysCheck = {"check", "--check"}
  Scripts <- MCScripts
  ScriptRank <- MCScriptRank
  JsId <- MCJsId
  LongJsId <- MCLongJsId
  Plugins = {"pytest-cov"}
  Coverage <- MCCoverage
  Names = {n1, n2}
  Texts = {test, spaced, script, setup, lint}
  Dirs = {".", "sub", "expr", "gone"}
  InvalidDirs = {"gone"}
  DynamicDirs = {"expr"}
  NeedsShell = {script}
  Split <- MCSplit
  Looks <- MCLooks
  EndsWith <- LongId
  Ids <- MCIds
  IdRank <- MCIdRank
  InvalidIds = {"js-too-long"}
  CiId <- MCCiId
  Paths = {p1, p2}
  CiCovers <- MCCiCovers
  Steps <- MCSteps
  Projects <- MCProjects
  Configs <- MCConfigs
  Requests <- MCRequests
  MaxSteps = 3
CONSTRAINT TwoStepsInOthers
INVARIANTS TypeOK StepsBecomeChecks OneCheckPerCommand GapsMatchObservations ReplacementsExact PlanAssumed ChangesAccounted RejectsOnlyCollisions IdsChangeHandsByName
