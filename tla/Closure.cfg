CONSTANTS
  Runs = {l1, w1}
  Walks = {w1}
  Purgers = {p1, p2}
  MaxCharges = 2
  Amount <- MCAmount
  Cap = 2
  MaxFaults = 2
SPECIFICATION ClosureFairSpec
INVARIANTS ClosureTypeOK OwedIsTold
PROPERTY ClosureEnds
CHECK_DEADLOCK FALSE
