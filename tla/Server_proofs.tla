----------------------------- MODULE Server_proofs -----------------------------
(***************************************************************************)
(* Theorems about Server, for any number of instances, requests, batches   *)
(* and timeouts: the audit table, its abstract log, and the drain journal. *)
(***************************************************************************)
EXTENDS Server, FiniteSetTheorems, TLAPS

------------------------------------------------------------------------------
(* The audit database.                                                     *)

\* Every step of the server is one of these to the audit database: a worker's
\* step, a repair of the schema, threads that end, or nothing.
AuditStep ==
  \/ \E r \in Requests : \E b \in Batches : Ask(r, b)
  \/ \E r \in Requests : WriteStep(r)
  \/ \E W \in SUBSET Requests : CloseThreads(W)
  \/ /\ schema' \in {"fresh", "current", "other"}
     /\ UNCHANGED <<log, conn, staged, batch, step, status>>

LEMMA AuditStepShape == AuditTypeOK /\ [Next]_vars => AuditStep
<1> SUFFICES ASSUME AuditTypeOK, [Next]_vars PROVE AuditStep
  OBVIOUS
<1>1. CASE UNCHANGED auditVars
  BY <1>1 DEF auditVars, AuditTypeOK, AuditStep
<1>2. CASE \E i \in Instances : Boot(i)
  BY <1>2 DEF Boot, ApplySchema, AuditStep
<1>3. CASE Repair
  BY <1>3 DEF Repair, AuditStep
<1>4. CASE \E i \in Instances : ProcessEnds(i)
  BY <1>4 DEF ProcessEnds, AuditStep
<1>5. CASE \E i \in Instances, r \in Requests : ThreadLeaves(i, r)
  BY <1>5 DEF ThreadLeaves, ThreadEnds, AuditStep
<1>6. CASE \E i \in Instances, r \in Requests, b \in Batches : Write(i, r, b)
  BY <1>6 DEF Write, AuditStep
<1>7. CASE \E r \in Requests : Work(r)
  BY <1>7 DEF Work, AuditStep
<1> QED
  BY <1>1, <1>2, <1>3, <1>4, <1>5, <1>6, <1>7
     DEF Next, vars, BootRefused, Lifecycle, Receive, Respond, Damage

\* A worker's call and its batch belong together.
CallsOwnBatches ==
  /\ \A w \in Workers : step[w] # "idle" =>
       batch[w] \in Batches /\ status[batch[w]] = "running"
  /\ \A v, w \in Workers :
       step[v] # "idle" /\ step[w] # "idle" /\ batch[v] = batch[w] => v = w

\* A transaction holds rows of its call only, and rows only while it is open.
\* One that a failed ROLLBACK left open belongs to no call any more.
StagedIsOpen ==
  \A w \in Workers :
    /\ staged[w] # {} => conn[w] = "inTxn"
    /\ step[w] \in {"inserting", "failing"} => conn[w] = "inTxn" /\ staged[w] \subseteq batch[w]

\* What the table holds of a batch follows from how far its call came.
TableMatchesCalls ==
  /\ \A w \in Workers : step[w] \in {"asked", "inserting", "failing"} => batch[w] \intersect log = {}
  /\ \A w \in Workers : step[w] = "written" => batch[w] \subseteq log
  /\ \A b \in Batches : status[b] = "new" => b \intersect log = {}

AuditInv == AuditSafety /\ CallsOwnBatches /\ StagedIsOpen /\ TableMatchesCalls

LEMMA AuditInvInit == Init => AuditInv
  BY DEF Init, AuditInit, AuditInv, AuditSafety, AuditTypeOK, BatchesAreWhole, EnvelopeHasRow,
         FailedWriteLeavesNothing, CallsOwnBatches, StagedIsOpen, TableMatchesCalls

\* The steps that leave the table alone keep what it holds of each batch, as
\* long as a call's outcome agrees with it.
LEMMA AuditInvStep == AuditInv /\ [Next]_vars => AuditInv'
<1> SUFFICES ASSUME AuditInv, AuditStep PROVE AuditInv'
  <2>1. AuditInv => AuditTypeOK
    BY DEF AuditInv, AuditSafety
  <2>2. CASE [Next]_vars
    BY <2>1, <2>2, AuditStepShape
  <2> QED BY <2>1, AuditStepShape
<1> USE WorkersAreRequests
<1> USE DEF AuditInv, AuditSafety
<1>1. ASSUME NEW w \in Workers, NEW b \in Batches, Ask(w, b) PROVE AuditInv'
  BY <1>1 DEF Ask, At, Outcome, AuditTypeOK, BatchesAreWhole, EnvelopeHasRow,
     FailedWriteLeavesNothing, CallsOwnBatches, StagedIsOpen, TableMatchesCalls
<1>2. ASSUME NEW w \in Workers, OpenConnection(w) PROVE AuditInv'
  BY <1>2 DEF OpenConnection, ApplySchema, Use, AuditTypeOK, BatchesAreWhole, EnvelopeHasRow,
     FailedWriteLeavesNothing, CallsOwnBatches, StagedIsOpen, TableMatchesCalls
<1>3. ASSUME NEW w \in Workers, Refuse(w) PROVE AuditInv'
  BY <1>3 DEF Refuse, Fail, Done, At, Outcome, AuditTypeOK, BatchesAreWhole, EnvelopeHasRow,
     FailedWriteLeavesNothing, CallsOwnBatches, StagedIsOpen, TableMatchesCalls
<1>4. ASSUME NEW w \in Workers, Begin(w) PROVE AuditInv'
  BY <1>4 DEF Begin, LockFree, At, Use, AuditTypeOK, BatchesAreWhole, EnvelopeHasRow,
     FailedWriteLeavesNothing, CallsOwnBatches, StagedIsOpen, TableMatchesCalls
<1>5. ASSUME NEW w \in Workers, Insert(w) PROVE AuditInv'
  BY <1>5 DEF Insert, Rows, AuditTypeOK, BatchesAreWhole, EnvelopeHasRow,
     FailedWriteLeavesNothing, CallsOwnBatches, StagedIsOpen, TableMatchesCalls
<1>6. ASSUME NEW w \in Workers, WriteFails(w) PROVE AuditInv'
  BY <1>6 DEF WriteFails, At, AuditTypeOK, BatchesAreWhole, EnvelopeHasRow,
     FailedWriteLeavesNothing, CallsOwnBatches, StagedIsOpen, TableMatchesCalls
<1>7. ASSUME NEW w \in Workers, Commit(w) PROVE AuditInv'
  BY <1>7, BatchesAreFresh DEF Commit, At, Use, Rows, AuditTypeOK, BatchesAreWhole, EnvelopeHasRow,
     FailedWriteLeavesNothing, CallsOwnBatches, StagedIsOpen, TableMatchesCalls
<1>8. ASSUME NEW w \in Workers, Rollback(w) PROVE AuditInv'
  BY <1>8 DEF Rollback, Use, Fail, Done, At, Outcome, AuditTypeOK, BatchesAreWhole, EnvelopeHasRow,
     FailedWriteLeavesNothing, CallsOwnBatches, StagedIsOpen, TableMatchesCalls
<1>9. ASSUME NEW w \in Workers, RollbackFails(w) PROVE AuditInv'
  BY <1>9 DEF RollbackFails, Fail, Done, At, Outcome, AuditTypeOK, BatchesAreWhole, EnvelopeHasRow,
     FailedWriteLeavesNothing, CallsOwnBatches, StagedIsOpen, TableMatchesCalls
<1>10. ASSUME NEW w \in Workers, Emit(w) PROVE AuditInv'
  BY <1>10 DEF Emit, Done, At, Outcome, AuditTypeOK, BatchesAreWhole, EnvelopeHasRow,
     FailedWriteLeavesNothing, CallsOwnBatches, StagedIsOpen, TableMatchesCalls
<1>11. ASSUME NEW W \in SUBSET Workers, CloseThreads(W) PROVE AuditInv'
  BY <1>11 DEF CloseThreads, AuditTypeOK, BatchesAreWhole, EnvelopeHasRow,
     FailedWriteLeavesNothing, CallsOwnBatches, StagedIsOpen, TableMatchesCalls
<1>12. ASSUME schema' \in {"fresh", "current", "other"},
              UNCHANGED <<log, conn, staged, batch, step, status>>
       PROVE  AuditInv'
  BY <1>12 DEF AuditTypeOK, BatchesAreWhole, EnvelopeHasRow,
     FailedWriteLeavesNothing, CallsOwnBatches, StagedIsOpen, TableMatchesCalls
<1> QED
  BY <1>1, <1>2, <1>3, <1>4, <1>5, <1>6, <1>7, <1>8, <1>9, <1>10, <1>11, <1>12
     DEF AuditStep, WriteStep

\* The audit table never holds a part of a batch, an emitted envelope has its
\* row, and a write reported as failed left none: for any workers and batches.
THEOREM AuditIsSafe == Spec => []AuditSafety
<1>1. AuditInv => AuditSafety
  BY DEF AuditInv
<1>2. AuditInv /\ UNCHANGED vars => AuditInv'
  BY AuditInvStep
<1> QED
  BY <1>1, <1>2, AuditInvInit, AuditInvStep, PTL DEF Spec

\* A COMMIT appends the whole batch of its call, which no other call wrote;
\* nothing else changes the table.
LEMMA AuditStepAppends == AuditInv /\ [Next]_vars => [Abstract!Next]_log
<1> SUFFICES ASSUME AuditInv, AuditStep PROVE [Abstract!Next]_log
  BY AuditStepShape DEF AuditInv, AuditSafety
<1> USE WorkersAreRequests DEF Abstract!Next, Abstract!AppendBatch
<1>1. ASSUME NEW w \in Workers, Commit(w) PROVE [Abstract!Next]_log
  <2>1. /\ batch[w] \in Batches /\ batch[w] \intersect log = {}
        /\ log' = log \union batch[w]
    BY <1>1 DEF AuditInv, CallsOwnBatches, TableMatchesCalls, Commit
  <2> QED BY <2>1
<1>2. ASSUME NEW w \in Workers, WriteStep(w), ~Commit(w) PROVE UNCHANGED log
  BY <1>2 DEF WriteStep, OpenConnection, Refuse, Begin, Insert, WriteFails, Rollback,
              RollbackFails, Emit
<1> QED
  BY <1>1, <1>2 DEF AuditStep, Ask, CloseThreads

\* The detailed database implements the abstract log of AuditLog.
THEOREM AuditImplementsLog == Spec => ImplementsAuditLog
<1>1. Init => Abstract!Init
  BY DEF Init, AuditInit, Abstract!Init
<1>2. AuditInv /\ UNCHANGED vars => AuditInv'
  BY AuditInvStep
<1> QED
  BY <1>1, <1>2, AuditInvInit, AuditInvStep, AuditStepAppends, PTL
     DEF Spec, ImplementsAuditLog, Abstract!Spec

------------------------------------------------------------------------------
(* The drain journal.                                                      *)

\* Instances whose timeout is counted but not yet in the file.
Pending == {i \in Instances : phase[i] \in {"timedOut", "drafted"}}

\* The file and the timeouts on their way to it never add up to more than
\* happened; a total drafted for the temp file is at most one above the file's
\* share; no counter runs ahead.
JournalIsBounded ==
  /\ journal.total + Cardinality(Pending) <= timeouts
  /\ \A i \in Instances : phase[i] = "drafted" => draft[i] + Cardinality(Pending) <= timeouts + 1
  /\ \A i \in Instances : counter[i] <= timeouts

\* Without a fault one instance at a time records, on top of the file as it is.
FaultlessIsExact ==
  ~lossy =>
    /\ journal.total + Cardinality(Pending) = timeouts
    /\ journal.readable
    /\ \A i \in Instances : phase[i] = "drafted" => draft[i] = journal.total + 1
    /\ \A i, j \in Instances : phase[i] = "drafted" /\ phase[j] = "drafted" => i = j

JournalInv == DrainTypeOK /\ JournalIsBounded /\ FaultlessIsExact

LEMMA PendingFinite ==
  ASSUME NEW P \in SUBSET Instances
  PROVE  IsFiniteSet(P) /\ Cardinality(P) \in Nat
BY DrainAssumption, FS_Subset, FS_CardinalityType

\* An instance that leaves Pending lowers its size by one, one that enters
\* raises it by one.
LEMMA PendingChanges ==
  ASSUME NEW P \in SUBSET Instances, NEW i \in Instances
  PROVE  /\ i \in P => Cardinality(P \ {i}) = Cardinality(P) - 1
         /\ i \notin P => Cardinality(P \union {i}) = Cardinality(P) + 1
BY PendingFinite, FS_AddElement, FS_RemoveElement

LEMMA JournalInvInit == Init => JournalInv
<1> SUFFICES ASSUME Init PROVE JournalInv
  OBVIOUS
<1>1. Pending = {}
  BY DEF Init, DrainInit, Pending
<1>2. Cardinality(Pending) = 0
  BY <1>1, FS_EmptySet
<1>3. DrainTypeOK
  BY DEF Init, DrainInit, DrainTypeOK, Phases
<1>4. JournalIsBounded
  BY <1>2 DEF Init, DrainInit, JournalIsBounded
<1>5. FaultlessIsExact
  BY <1>2 DEF Init, DrainInit, FaultlessIsExact
<1> QED
  BY <1>3, <1>4, <1>5 DEF JournalInv

LEMMA JournalInvStep == JournalInv /\ [Next]_vars => JournalInv'
<1> SUFFICES ASSUME JournalInv, [Next]_vars PROVE JournalInv'
  OBVIOUS
<1> USE DEF JournalInv
<1>t. DrainTypeOK /\ JournalIsBounded /\ FaultlessIsExact
  OBVIOUS
<1>n. Cardinality(Pending) \in Nat
  BY PendingFinite DEF Pending
<1>1. CASE UNCHANGED drainVars
  <2>1. Pending' = Pending
    BY <1>1 DEF drainVars, Pending
  <2> QED
    BY <1>1, <2>1 DEF drainVars, DrainTypeOK, JournalIsBounded, FaultlessIsExact
<1>2. ASSUME NEW i \in Instances, Start(i) PROVE JournalInv'
  <2>1. Pending' = Pending
    BY <1>2 DEF Start, To, Pending, DrainTypeOK
  <2>2. Restored(counter[i], ReadDrainJournal(journal)) \in Nat
        /\ Restored(counter[i], ReadDrainJournal(journal)) <= timeouts
    BY <1>n DEF Restored, ReadDrainJournal, DrainTypeOK, JournalIsBounded
  <2>3. DrainTypeOK'
    BY <1>2, <2>2 DEF Start, To, DrainTypeOK, Phases
  <2>4. JournalIsBounded'
    BY <1>2, <1>n, <2>1, <2>2 DEF Start, To, DrainTypeOK, JournalIsBounded
  <2>5. FaultlessIsExact'
    BY <1>2, <1>n, <2>1 DEF Start, To, DrainTypeOK, FaultlessIsExact
  <2> QED BY <2>3, <2>4, <2>5
<1>3. ASSUME NEW i \in Instances, NEW r \in Requests, Arrive(i, r) \/ Leave(i, r) PROVE JournalInv'
  <2>1. Pending' = Pending
    BY <1>3 DEF Arrive, Leave, Pending
  <2> QED
    BY <1>3, <1>n, <2>1 DEF Arrive, Leave, DrainTypeOK, JournalIsBounded, FaultlessIsExact
<1>4. ASSUME NEW i \in Instances, Shutdown(i) \/ DrainComplete(i) PROVE JournalInv'
  <2>1. Pending' = Pending
    BY <1>4 DEF Shutdown, DrainComplete, To, Pending, DrainTypeOK
  <2> QED
    BY <1>4, <1>n, <2>1
       DEF Shutdown, DrainComplete, To, DrainTypeOK, Phases, JournalIsBounded, FaultlessIsExact
<1>5. ASSUME NEW i \in Instances, DrainTimeout(i) PROVE JournalInv'
  <2>1. i \notin Pending /\ Pending' = Pending \union {i}
    BY <1>5 DEF DrainTimeout, To, Pending, DrainTypeOK
  <2>2. Cardinality(Pending') = Cardinality(Pending) + 1
    BY <2>1, PendingChanges DEF Pending
  <2>3. DrainTypeOK'
    BY <1>5 DEF DrainTimeout, To, DrainTypeOK, Phases
  <2>4. JournalIsBounded'
    BY <1>5, <1>n, <2>2 DEF DrainTimeout, To, DrainTypeOK, JournalIsBounded
  <2>5. FaultlessIsExact'
    BY <1>5, <1>n, <2>2 DEF DrainTimeout, To, DrainTypeOK, FaultlessIsExact
  <2> QED BY <2>3, <2>4, <2>5
<1>6. ASSUME NEW i \in Instances, DraftRecord(i) PROVE JournalInv'
  <2>1. Pending' = Pending
    BY <1>6 DEF DraftRecord, To, Pending, DrainTypeOK
  <2>2. PICK failed \in BOOLEAN :
          /\ draft' = [draft EXCEPT ![i] = 1 + (IF failed THEN 0 ELSE ReadDrainJournal(journal))]
          /\ lossy' = (lossy \/ failed \/ Recording # {})
    BY <1>6 DEF DraftRecord
  <2>3. DrainTypeOK'
    BY <1>6, <2>2 DEF DraftRecord, To, ReadDrainJournal, DrainTypeOK, Phases
  <2>4. JournalIsBounded'
    <3>1. Cardinality(Pending) <= timeouts
      BY <1>n DEF JournalIsBounded, DrainTypeOK
    <3> QED
      BY <1>6, <1>n, <2>1, <2>2, <3>1
         DEF DraftRecord, To, ReadDrainJournal, DrainTypeOK, JournalIsBounded
  <2>5. FaultlessIsExact'
    BY <1>6, <1>n, <2>1, <2>2
       DEF DraftRecord, To, Recording, ReadDrainJournal, DrainTypeOK, FaultlessIsExact
  <2> QED BY <2>3, <2>4, <2>5
<1>7. ASSUME NEW i \in Instances, ReplaceJournal(i) PROVE JournalInv'
  <2>1. i \in Pending /\ Pending' = Pending \ {i}
    BY <1>7 DEF ReplaceJournal, To, Pending, DrainTypeOK
  <2>2. Cardinality(Pending') = Cardinality(Pending) - 1
    BY <2>1, PendingChanges DEF Pending
  <2>3. DrainTypeOK'
    BY <1>7 DEF ReplaceJournal, To, DrainTypeOK, Phases
  <2>4. JournalIsBounded'
    BY <1>7, <1>n, <2>2 DEF ReplaceJournal, To, DrainTypeOK, JournalIsBounded
  <2>5. FaultlessIsExact'
    BY <1>7, <1>n, <2>2 DEF ReplaceJournal, To, DrainTypeOK, FaultlessIsExact
  <2> QED BY <2>3, <2>4, <2>5
<1>8. ASSUME NEW i \in Instances, RecordFails(i) \/ Exit(i) PROVE JournalInv'
  <2>1. Pending' = Pending \ {i}
    BY <1>8 DEF RecordFails, Exit, To, Pending, DrainTypeOK
  <2>2. Cardinality(Pending') <= Cardinality(Pending) /\ Cardinality(Pending') \in Nat
    <3>1. CASE i \in Pending
      BY <2>1, <3>1, <1>n, PendingChanges, PendingFinite DEF Pending
    <3>2. CASE i \notin Pending
      <4>1. Pending' = Pending
        BY <2>1, <3>2
      <4> QED BY <4>1, <1>n
    <3> QED BY <3>1, <3>2
  <2>3. DrainTypeOK'
    <3>1. CASE RecordFails(i)
      BY <3>1 DEF RecordFails, To, DrainTypeOK, Phases
    <3>2. CASE Exit(i)
      BY <3>2 DEF Exit, To, DrainTypeOK, Phases
    <3> QED BY <1>8, <3>1, <3>2
  <2>4. JournalIsBounded'
    BY <1>8, <1>n, <2>2 DEF RecordFails, Exit, To, DrainTypeOK, JournalIsBounded
  <2>5. FaultlessIsExact'
    <3>1. CASE ~lossy'
      <4>1. Exit(i) /\ i \notin Pending /\ ~lossy
        BY <1>8, <3>1 DEF RecordFails, Exit, Pending
      <4>2. Pending' = Pending
        BY <2>1, <4>1
      <4> QED
        BY <4>1, <4>2 DEF Exit, To, DrainTypeOK, FaultlessIsExact, Pending
    <3> QED BY <3>1 DEF FaultlessIsExact
  <2> QED BY <2>3, <2>4, <2>5
<1>9. CASE DamageJournal
  <2>1. Pending' = Pending
    BY <1>9 DEF DamageJournal, Pending
  <2> QED
    BY <1>9, <1>n, <2>1 DEF DamageJournal, DrainTypeOK, JournalIsBounded, FaultlessIsExact
<1> QED
  BY <1>1, <1>2, <1>3, <1>4, <1>5, <1>6, <1>7, <1>8, <1>9
     DEF Next, vars, Boot, BootRefused, Lifecycle, DrainStep, ProcessEnds, Receive, Respond,
         ThreadLeaves, Write, Work, Repair, Damage

\* The journal invents no timeout, and loses one only to a fault: for any
\* number of instances and restarts.
THEOREM JournalIsSafe == Spec => []JournalSafety
<1>1. JournalInv => JournalSafety
  <2> SUFFICES ASSUME JournalInv PROVE JournalSafety
    OBVIOUS
  <2>1. Cardinality(Pending) \in Nat
    BY PendingFinite DEF Pending
  <2> QED
    BY <2>1 DEF JournalInv, JournalSafety, DrainTypeOK, JournalIsBounded, FaultlessIsExact,
                NoPhantomTimeouts, OnlyFaultsLoseTimeouts, Pending
<1> QED
  BY <1>1, JournalInvInit, JournalInvStep, PTL DEF Spec

=============================================================================
