SPECIFICATION Spec
CONSTANTS
  c1 = c1
  r1 = r1
  r2 = r2
  p1 = p1
  Runs = {r1}
  Publishers = {}
  Pids = {p1}
  Contents = {c1}
  Stamps = {t1}
  Existing <- NoNames
  MaxAttempts = 2
  MayLosePower = TRUE
  MaxStarted = 1
INVARIANTS StoredIsDurable
