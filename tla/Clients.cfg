SPECIFICATION MCSpec
CONSTANTS
  t1 = t1  t2 = t2  t3 = t3  p1 = p1  p2 = p2
  h1 = h1  h2 = h2
  Processes = {p1, p2}
  Threads = {t1, t2, t3}
  ProcessOf <- MCProcessOf
  Prompts = {q1}
  Primary = primary
  Fallback = fallback
  Attempts = 2
  Answers = {"stop", "length", "empty", "rate_limit", "permanent"}
  MaxCalls = 3
  Jobs = {j1, j2}
  Claims = {k1, k2}
  Noise = {noise}
  Importers = {i1, i2}
  Files = {f1, f2}
  Bodies = {b1, b2}
  Unreadable = {"missing", "secret"}
  MaxItems = 2
  MaxStarts = 2
  Hashes = {h1, h2}
  PrefixOf <- MCPrefixOf
  Users = {u1, u2}
  Clients = {a1}
  Operators = {o1, o2}
  MaxRequests = 2
  MaxRows = 3
  MaxTime = 3
  Limit = 2
  Second = 2
  Day = 4
  Items = {c1, c2, c3}
  K = 60
INVARIANTS CallSafety ExtractionSafety AccessSafety RetrievalSafety
PROPERTY CallEnds
CHECK_DEADLOCK FALSE
