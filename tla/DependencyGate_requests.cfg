SPECIFICATION Spec
CONSTANTS
  Deps = {p, q}
  Requests = {r1}
  PassiveDeps = {q}
  Routes <- MixedRoutes
  Statuses <- NotDegraded
  TreatUnknownAs = 1
  SnapshotTTL = 1
  MaxCacheTTL = 1
  p = p
  q = q
  r1 = r1
INVARIANTS TypeOK NoServeInOutage NoRefusalInHealth HandlerIsTold
