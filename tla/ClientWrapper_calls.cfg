SPECIFICATION FairSpec
CONSTANTS
  c1 = c1
  c2 = c2
  r1 = r1
  Clients = {c1, c2}
  Reporters = {r1}
  MaxRetries = 1
  FailureThreshold = 3
  SuccessThreshold = 2
  Timeout = 1
  HalfOpenMaxCalls = 2
  StoreFailureThreshold = 2
  DegradedThreshold = 1
INVARIANTS TypeOK WritesInOrder DownHasCause OnlyPanicsWedge
PROPERTIES DoReturns BothRecover OutageShows
