CONSTANTS
  Clients = {ca, cb}
  Visits = {v1, v2, v3}
  Bodies = {b1, b2}
  MaxThreads = 2
  MaxCards = 2
  MaxCrashes = 1
SPECIFICATION Spec
SYMMETRY Symmetric
INVARIANTS TypeOK SeenIsApproved ApprovedIsDelivered
CHECK_DEADLOCK FALSE
