\* Three requests: two trip the breaker, the third spans the trip and a reset.
CONSTANTS
    r1 = r1
    r2 = r2
    r3 = r3
    Requests = {r1, r2, r3}
    MinObs = 2
    TripPercent = 49
    MaxResets = 1
CHECK_DEADLOCK FALSE
SPECIFICATION FairSpec
INVARIANT SnapshotDecides
PROPERTY ImplementsCanonicalRead
PROPERTY EveryRequestAnswered
INVARIANT BreakerSafety
