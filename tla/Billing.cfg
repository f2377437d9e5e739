CONSTANTS
  Requests = {q1, q2}
  MaxEvents = 3
  MaxCrashes = 1
SPECIFICATION FairSpec
INVARIANTS TypeOK FollowsStripe SuspendedIsWarned
PROPERTY AccountsResolve
CHECK_DEADLOCK FALSE
