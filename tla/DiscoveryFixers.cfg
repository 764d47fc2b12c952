SPECIFICATION Spec
CONSTANTS
  n1 = n1
  n2 = n2
  test = test
  spaced = spaced
  script = script
  setup = setup
  lint = lint
  p1 = p1
  p2 = p2
  Words <- MCWords
  Toolchains = {"+1.85.0"}
  Parts <- MCParts
  Base <- MCBase
  SaysCheck = {"check", "--check"}
  Scripts <- MCScripts
  ScriptRank <- MCScriptRank
  JsId <- MCJsId
  LongJsId <- MCLongJsId
  Plugins = {"pytest-cov"}
  Coverage <- MCCoverage
  Names = {n1, n2}
  Texts = {test, spaced, script, setup, lint}
  Dirs = {".", "sub", "expr", "gone"}
  InvalidDirs = {"gone"}
  DynamicDirs = {"expr"}
  NeedsShell = {script}
  Split <- MCSplit
  Looks <- MCLooks
  EndsWith <- SameId
  Ids <- MCIds
  IdRank <- MCIdRank
  InvalidIds = {"js-too-long"}
  CiId <- MCCiId
  Paths = {p1, p2}
  CiCovers <- MCCiCovers
  Steps <- FixerSteps
  Projects <- FixerProjects
  Configs <- MCConfigs
  Requests <- OneRequest
  MaxSteps = 2
INVARIANTS FixersNotSelected
