\* Two tenants; or clients of one user that race, review, backfill and die, with a
\* rebuild at every moment.
CONSTANTS
    c1 = c1
    c2 = c2
    c3 = c3
    u1 = u1
    u2 = u2
    x1 = x1
    s1 = s1
    NoUser = NoUser
    Clients = {c1, c2, c3}
    Users = {u1, u2}
    Contents = {x1}
    ExternalSources = {s1}
    Calls = {"ingest", "reaffirm", "hook", "transition", "review", "backfill"}
    IngestStates = {"auto", "pending", "rejected", "unknown"}
    MayCrash = TRUE
    MaxCalls = 4
    FewCalls = 3
SPECIFICATION MCSpec
SYMMETRY Symmetry
INVARIANTS
    StoreSafety NoOrphanEvents LogTellsChanges ChainStartsAtBirth
    OnlyCrashLosesCreated RebuildIsFaithful
PROPERTIES RejectedIsFinal BackfillIsComplete
CHECK_DEADLOCK FALSE
