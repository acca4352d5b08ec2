SPECIFICATION Spec
CHECK_DEADLOCK FALSE
CONSTANTS
  Scopes = {s1}
  AnyScopes = {s1, s2}
  Keys = {k1, k2, k3}
  Workers = {w1, w2}
  NoWorker = NoWorker
  RaisingKeys = {k3}
  MaxAttempts = 3
INVARIANTS AuditExplainsJobs DeliveredAtMostOnce StopIsComplete AuditBoundsDeliveries
PROPERTY KeepsPromise
SYMMETRY Symmetry
