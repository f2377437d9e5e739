CONSTANTS
  wa = wa
  wb = wb
  a1 = a1
  b1 = b1
  Workspaces = {wa, wb}
  Notifications = {a1, b1}
  Keyed = {a1}
  OwnerOf <- MCOwnerOf
  MaxRows = 2
  Drains = {d1, d2}
  BACKOFFS = 1
  Limit = 2
  MaxCrashes = 1
  MaxDrops = 0
SPECIFICATION Spec
SYMMETRY SameDrains
INVARIANTS TypeOK CompletedKeepsDraft DeadIsDeserved ProcessedIsExplained
CHECK_DEADLOCK FALSE
