SPECIFICATION MCSpec
CONSTANTS
  i1 = i1
  i2 = i2
  q1 = q1
  q2 = q2
  r1 = r1
  r2 = r2
  r3 = r3
  Instances = {i1, i2}
  Requests = {q1, q2}
  Workers = {q1, q2}
  Batches <- MCBatches
  MaxTimeouts = 2
INVARIANTS AuditSafety JournalSafety
PROPERTIES ImplementsAuditLog ServerSettles
CHECK_DEADLOCK FALSE
