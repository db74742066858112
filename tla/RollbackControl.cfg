\* Observers, evaluators, an operator, losses, failing writes and a restart.
CONSTANTS
    t1 = t1
    t2 = t2
    w1 = w1
    Threads = {t1, t2}
    Triggers = {w1}
    Window <- WindowTicks
    GateWindow = 2
    MinHits = 2
    Cooldown = 2
    OldAge = 4
    MaxLag = 1
    MaxSamples = 2
    MaxLoss = 1
    MaxRestarts = 1
    WritesFail = TRUE
CHECK_DEADLOCK FALSE
SPECIFICATION FairSpec
INVARIANT TripNeedsFreshEvidence
INVARIANT DashboardAgrees
PROPERTY StaleEvidenceIsBounded
PROPERTY TrippedAwaitsAck
