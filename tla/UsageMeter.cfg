CONSTANTS
  wa = wa
  wb = wb
  b1 = b1
  Workspaces = {wa, wb}
  Records = {a1, a2, b1}
  OwnerOf <- MCOwnerOf
  Sweeps = {s1, s2}
  MaxDays = 3
  MaxFaults = 2
SPECIFICATION Spec
SYMMETRY SameSweeps
INVARIANTS TypeOK BilledIsMarked BilledOnce
CHECK_DEADLOCK FALSE
