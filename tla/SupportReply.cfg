CONSTANTS
  Requests = {r1}
  Items = {i1, i2}
  Tasks = {t1, t2, t3}
  NoRequest = NoRequest
SPECIFICATION Spec
INVARIANTS TypeOK OneClosing ClosedIsSent InReviewIsDue
PROPERTY TouchedIsKept
SYMMETRY Symmetry
CHECK_DEADLOCK FALSE
