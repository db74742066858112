\* The promise of replay.py, without crashes.
CONSTANTS
    c1 = c1
    c2 = c2
    c3 = c3
    u1 = u1
    u2 = u2
    x1 = x1
    s1 = s1
    NoUser = NoUser
    Clients = {c1, c2}
    Users = {u1}
    Contents = {x1}
    ExternalSources = {}
    Calls = {"ingest", "transition"}
    IngestStates = {"auto"}
    MayCrash = FALSE
    MaxCalls = 2
    FewCalls = 0
SPECIFICATION Spec
SYMMETRY Symmetry
CHECK_DEADLOCK FALSE
INVARIANT LogIsSufficient
