CONSTANTS
  Keys = {k1, k2}
  Handled = {k1}
  Producers = {p1}
  Backstops = {b1}
  HealthSweeps = {}
  MAX_ATTEMPTS = 2
  DEAD_AFTER = 1
  Backoff <- MCBackoff
  Limit = 1
  EnqueueUntil = 1
  MaxTime = 3
  MaxCrashes = 1
SPECIFICATION FairSpec
PROPERTY WaitingEnds
CHECK_DEADLOCK FALSE
