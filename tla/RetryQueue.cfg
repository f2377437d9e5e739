CONSTANTS
  Keys = {k1, k2}
  Handled = {k1}
  Producers = {p1}
  Backstops = {b1}
  HealthSweeps = {h1}
  MAX_ATTEMPTS = 2
  DEAD_AFTER = 1
  Backoff <- MCBackoff
  Limit = 2
  EnqueueUntil = 0
  MaxTime = 2
  MaxCrashes = 1
SPECIFICATION Spec
INVARIANTS TypeOK ResolvedIsMarked DeadIsDeserved DeathIsReported
CHECK_DEADLOCK FALSE
