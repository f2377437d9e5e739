CONSTANTS
  wa = wa
  wb = wb
  a1 = a1
  b1 = b1
  Workspaces = {wa, wb}
  Notifications = {a1, b1}
  Keyed = {a1}
  OwnerOf <- MCOwnerOf
  MaxRows = 2
  Drains = {d1}
  BACKOFFS = 2
  Limit = 2
  MaxCrashes = 1
  MaxDrops = 2
SPECIFICATION FairSpec
PROPERTY EventEnds
CHECK_DEADLOCK FALSE
