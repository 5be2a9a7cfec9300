SPECIFICATION FairSpec
CONSTANTS
  StoreFailureThreshold = 2
  DegradedThreshold = 1
  Callers = {c1, c2}
  MaxCacheTTL = 1
  CheckStatuses = {0, 1}
  c1 = c1
  c2 = c2
INVARIANTS TypeOK CacheAndStoreAgree CountsMatchStatus
PROPERTIES Converges CallsEnd
