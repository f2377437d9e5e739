CONSTANTS
  wa = wa
  wb = wb
  a1 = a1
  a2 = a2
  Workspaces = {wa, wb}
  Actions = {a1, a2}
  Calls = {c1, c2, c3, c4}
  MaxRequests = 3
  MaxCrashes = 1
SPECIFICATION Spec
SYMMETRY Symmetric
INVARIANTS TypeOK WriteIsApproved
PROPERTY DecisionStands
CHECK_DEADLOCK FALSE
