SPECIFICATION Spec
CONSTANTS
  c1 = c1
  r1 = r1
  r2 = r2
  p1 = p1
  Runs = {r1, r2}
  Publishers = {r1, r2}
  Pids = {p1}
  Contents = {c1}
  Stamps = {t1}
  Existing <- ExistingNames
  MaxAttempts = 2
  MayLosePower = TRUE
  MaxStarted = 1
SYMMETRY RunSymmetry
CONSTRAINT LossIsTheEnd
INVARIANTS TypeOK NamesTellTruth ReceiptsHaveLogs ResultTells NoLogLeftBehind
PROPERTIES CommittedStays WriteOnceSpec
