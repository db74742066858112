\* The process restarts once, without any other fault.
CONSTANTS
    t1 = t1
    t2 = t2
    w1 = w1
    Threads = {t1, t2}
    Triggers = {w1}
    Window <- WindowTicks
    GateWindow = 2
    MinHits = 1
    Cooldown = 2
    OldAge = 4
    MaxLag = 1
    MaxSamples = 2
    MaxLoss = 0
    MaxRestarts = 1
    WritesFail = FALSE
CHECK_DEADLOCK FALSE
SPECIFICATION Spec
PROPERTY OnlyAckRecovers
