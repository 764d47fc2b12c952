SPECIFICATION Spec
CONSTANTS
  c1 = c1
  c2 = c2
  c3 = c3
  Checks = {c1, c2, c3}
  Plans <- ThreePlans
  Contents = {w1, w2}
  OutsideEdits = TRUE
  ClockStepsBack = TRUE
  MaxClock = 1
INVARIANTS TypeOK FailFast StoredReceiptVerifies ProgressIsHistory ExitCodeTells PrimaryFirst
PROPERTIES CancellationSticks
CONSTRAINT ClockInShortRuns
