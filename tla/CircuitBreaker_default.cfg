SPECIFICATION Spec
CONSTANTS
  c1 = c1
  c2 = c2
  c3 = c3
  Callers = {c1, c2, c3}
  FailureThreshold = 5
  SuccessThreshold = 2
  Timeout = 1
  HalfOpenMaxCalls = 1
INVARIANT NoWedge
