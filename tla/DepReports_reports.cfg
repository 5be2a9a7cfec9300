SPECIFICATION ReportsSpec
CONSTANTS
  StoreFailureThreshold = 3
  DegradedThreshold = 0
  Deps = {db, cache, mail}
  MaxFails = 5
  db = db
  cache = cache
  mail = mail
INVARIANT StatusFollowsFailures
