\* Three threads, two event ids, one fault of any kind.
CONSTANTS
    t1 = t1
    t2 = t2
    t3 = t3
    e1 = e1
    e2 = e2
    o1 = o1
    o2 = o2
    o3 = o3
    NoLock = NoLock
    NoThread = NoThread
    Threads = {t1, t2, t3}
    EventIds = {e1, e2}
    Locks = {o1, o2}
    FaultKinds = {"read", "write", "raise", "restart"}
    AckRows = TRUE
    MaxRequests = 3
    MaxFaults = 1
CHECK_DEADLOCK FALSE
SPECIFICATION FairSpec
INVARIANT RunsExplainedByFaults
PROPERTY PersistedResponseStays
PROPERTY EveryRequestReturns
INVARIANT LockSafety
