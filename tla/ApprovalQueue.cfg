CONSTANTS
  Items = {i1, i2, i3}
  Instructions = {i2}
  Writes = {i3}
  Tasks = {t1, t2, t3}
  Texts = {x1, x2}
  NoText = NoText
  NoTask = NoTask
SPECIFICATION Spec
INVARIANTS TypeOK DecidedOnce OneExecutor ArtifactOfApproved SignalsAreEarned
PROPERTIES DecidedTextFrozen ArtifactKept ImplementsRecord
CHECK_DEADLOCK FALSE
SYMMETRY Symmetry
