SPECIFICATION FairSpec
CONSTANTS
  c1 = c1
  c2 = c2
  db = db
  Callers = {c1, c2}
  Checks = {db}
  ReadinessChecks = {}
  CheckStatuses = {0}
  TTLs = {0, 2}
  InitialTTL = 0
  DefaultTTL = 2
  MaxEpoch = 1
INVARIANTS TypeOK
PROPERTIES InvalidateHolds ActsAtOnce SnapshotsCatchUp
