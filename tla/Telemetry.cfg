SPECIFICATION MCSpec
CONSTANTS
  Producers = {t1, t2}
  Events = {e1, e2}
  Stages = {s1}
  Kinds = {"ok", "data_loss"}
  MinHits = 1
  Percent = 60
  MaxSpans = 2
  Observers = {t1, t2}
  MinFloor = 2
  RatePercent = 50
  MaxAttempts = 4
  Queries = {t1, t2}
  Refs = {r1}
  Hour = 0
  MaxTime = 1
  MaxTorn = 1
  Recorders = {t1, t2}
  Readers = {r1}
  MaxClock = 3
  Width = 1
  MaxEntries = 3
INVARIANTS CanarySafety ShadowSafety ObserverSafety WindowSafety
PROPERTY CountersFallOnlyOnRerecord
SYMMETRY Symmetry
CHECK_DEADLOCK FALSE
