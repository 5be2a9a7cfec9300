SPECIFICATION FairSpec
CONSTANTS
  c1 = c1
  c2 = c2
  c3 = c3
  Callers = {c1, c2, c3}
  FailureThreshold = 3
  SuccessThreshold = 2
  Timeout = 2
  HalfOpenMaxCalls = 2
INVARIANTS TypeOK FreshCounters SlotAccounting ProbesWithinQuota NoWedge
PROPERTIES OpenIsPatient Recovers KeepsPromise
