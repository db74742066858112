SPECIFICATION MCSpec
CONSTANTS
  Commands = {c1, c2}
  EventIds = {e1, e2}
  Targets = {0, 5, 10, 13}
  Drains = {d1, d2}
  MaxSeq = 2
  DRAIN_BATCH = 1
  MaxAttempts = 2
  Pages = {page1, page2}
  MaxTxns = 2
  Gates = {g1, g2}
  Threads = {t1, t2}
  Builders = {b1, b2, b3}
  BatchLimit = 2
  MaxRows = 3
  f1 = f1
  f2 = f2
  good1 = good1
  good2 = good2
  bad = bad
  untrusted = untrusted
  s1 = s1
  s2 = s2
  p1 = p1
  p2 = p2
  Files = {f1, f2}
  Contents = {good1, good2, bad, untrusted}
  Subjects = {s1, s2}
  ClaimSubjects <- MCClaimSubjects
  Verified = {good1, good2, untrusted}
  Trusted = {good1, good2}
  Readers = {p1, p2}
  MaxChanges = 3
INVARIANTS
  MigrationSafety QueueSafety BackupSafety ConnectionUsedAlone BuilderSafety PackageSafety
SYMMETRY Symmetry
CHECK_DEADLOCK FALSE
