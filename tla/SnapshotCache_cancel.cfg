SPECIFICATION Spec
CONSTANTS
  c1 = c1
  c2 = c2
  db = db
  Callers = {c1, c2}
  Checks = {db}
  ReadinessChecks = {db}
  CheckStatuses = {0}
  TTLs = {1, 2}
  InitialTTL = 2
  DefaultTTL = 2
  MaxEpoch = 0
INVARIANT PointInTimeView
