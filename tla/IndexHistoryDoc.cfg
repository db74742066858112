SPECIFICATION GateSpec
CONSTANTS
  Gates = {g1}
  Threads = {t1}
  Builders = {b1, b2, b3}
  BatchLimit = 2
  MaxRows = 1
INVARIANT EachRebuildAppends
CHECK_DEADLOCK FALSE
