SPECIFICATION ObsSpec
CONSTANTS
  Queries = {q1, q2}
  Refs = {r1}
  Hour = 0
  MaxTime = 0
  MaxTorn = 0
INVARIANT FactoryIsPreserved
CHECK_DEADLOCK FALSE
