-------------------------- MODULE Idempotency_proofs --------------------------
(***************************************************************************)
(* Mutual exclusion of the workers of one event id, the bound on the lock  *)
(* table and the account of the runs, for any number of threads, event     *)
(* ids, requests and faults.                                               *)
(***************************************************************************)
EXTENDS Idempotency, FiniteSetTheorems, TLAPS

\* Where a thread stands decides whether it has a reference to a lock.
PcMatchesLock ==
    \A t \in Threads :
        /\ pc[t] \in {"enter", "worker", "working", "record", "unlock", "release"} => Locked(t)
        /\ pc[t] \in {"idle", "acquire"} => ~Locked(t)

\* A thread inside "with lock:" is the holder of its lock.
InsideHolds == \A t \in Threads : Inside(t) => held[call[t].lock] = t

\* The inductive invariant.
LockInv == TypeOK /\ LockTableBounded /\ PcMatchesLock /\ InsideHolds

\* The references of every thread stay as they are.
SameLocks ==
    /\ table' = table
    /\ \A u \in Threads : /\ call'[u].lock = call[u].lock
                          /\ Locked(u) => call'[u].event = call[u].event

\* A step that changes no reference keeps the lock table bounded.
LEMMA TableKept ==
    ASSUME TypeOK, LockTableBounded, SameLocks
    PROVE  LockTableBounded'
<1> SUFFICES ASSUME NEW e \in EventIds
             PROVE  /\ table'[e].refs = Cardinality(Referents(e)')
                    /\ Referents(e)' = {} => table'[e] = NoEntry
                    /\ \A t \in Referents(e)' : call'[t].lock = table'[e].lock
  BY DEF LockTableBounded
<1>1. Referents(e)' = Referents(e)
  BY DEF SameLocks, Referents, Locked
<1> QED BY <1>1 DEF LockTableBounded, SameLocks, Referents, NoEntry

\* The initial states satisfy the invariant.
LEMMA LockInit == Init => LockInv
<1> SUFFICES ASSUME Init PROVE LockInv OBVIOUS
<1>1. \A e \in EventIds : Referents(e) = {}
  BY DEF Init, Referents, Locked, NoCall
<1>2. TypeOK
  <2>1. (CHOOSE e \in EventIds : TRUE) \in EventIds
    BY IdempotencyAssumption
  <2> QED BY <2>1, IdempotencyAssumption DEF Init, TypeOK, NoRow, NoEntry, NoCall
<1>3. LockTableBounded
  BY <1>1, FS_EmptySet DEF LockTableBounded, Init, NoEntry
<1>4. PcMatchesLock /\ InsideHolds
  BY DEF PcMatchesLock, InsideHolds, Init, Locked, Inside, NoCall
<1> QED BY <1>2, <1>3, <1>4 DEF LockInv

\* The type of the calls alone.
LEMMA CallTyped ==
    TypeOK => call \in [Threads -> [event : EventIds, status : Nat, body : Nat,
                                    lock : Locks \cup {NoLock}]]
<1> QED BY DEF TypeOK

\* Every step keeps the types.
LEMMA LockTypes == TypeOK /\ PcMatchesLock /\ [Next]_vars => TypeOK'
<1> SUFFICES ASSUME TypeOK, PcMatchesLock, [Next]_vars PROVE TypeOK' OBVIOUS
<1> USE DEF TypeOK, Goto, counters, locking, history
<1>1. ASSUME NEW t \in Threads, NEW e \in EventIds, Request(t, e) PROVE TypeOK'
  BY <1>1 DEF Request, NoCall
<1>2. ASSUME NEW t \in Threads, LookupRow(t) PROVE TypeOK'
  <2>1. audit[call[t].event].status \in Nat
    OBVIOUS
  <2>2. PICK n \in Nat : call' = call \/ call' = [call EXCEPT ![t].status = n]
    BY <1>2, <2>1 DEF LookupRow
  <2>3. call' \in [Threads -> [event : EventIds, status : Nat, body : Nat, lock : Locks \cup {NoLock}]]
    <3>1. CASE call' = call
      BY <3>1
    <3>2. CASE call' = [call EXCEPT ![t].status = n]
      BY <3>2
    <3> QED BY <2>2, <3>1, <3>2
  <2> QED BY <1>2, <2>3 DEF LookupRow, AfterMiss
<1>3. ASSUME NEW t \in Threads, LookupBody(t) PROVE TypeOK'
  <2>1. audit[call[t].event].body \in Nat
    OBVIOUS
  <2>2. PICK n \in Nat : call' = call \/ call' = [call EXCEPT ![t].body = n]
    BY <1>3, <2>1 DEF LookupBody
  <2>3. call' \in [Threads -> [event : EventIds, status : Nat, body : Nat, lock : Locks \cup {NoLock}]]
    <3>1. CASE call' = call
      BY <3>1
    <3>2. CASE call' = [call EXCEPT ![t].body = n]
      BY <3>2
    <3> QED BY <2>2, <3>1, <3>2
  <2> QED BY <1>3, <2>3 DEF LookupBody, AfterMiss
<1>4. ASSUME NEW t \in Threads, Acquire(t) PROVE TypeOK'
  <2>1. PICK o \in Locks :
            /\ table' = [table EXCEPT ![call[t].event] = [lock |-> o, refs |-> @.refs + 1]]
            /\ call' = [call EXCEPT ![t].lock = o]
    BY <1>4 DEF Acquire
  <2>2. table' \in [EventIds -> [lock : Locks \cup {NoLock}, refs : Nat]]
    BY <2>1
  <2>3. call' \in [Threads -> [event : EventIds, status : Nat, body : Nat, lock : Locks \cup {NoLock}]]
    BY <2>1
  <2> QED BY <1>4, <2>2, <2>3 DEF Acquire
<1>5. ASSUME NEW t \in Threads, Enter(t) PROVE TypeOK'
  BY <1>5 DEF Enter
<1>6. ASSUME NEW t \in Threads, CallWorker(t) PROVE TypeOK'
  <2>1. runs' \in [EventIds -> Nat]
    BY <1>6 DEF CallWorker
  <2>2. PICK n \in Nat : call' = [call EXCEPT ![t].status = n, ![t].body = n]
    BY <1>6, <2>1 DEF CallWorker
  <2>3. call' \in [Threads -> [event : EventIds, status : Nat, body : Nat, lock : Locks \cup {NoLock}]]
    BY <2>2, ZenonT(30)
  <2> QED BY <1>6, <2>1, <2>3 DEF CallWorker
<1>7. ASSUME NEW t \in Threads, WorkerReturns(t) PROVE TypeOK'
  BY <1>7 DEF WorkerReturns
<1>8. ASSUME NEW t \in Threads, Record(t) PROVE TypeOK'
  BY <1>8 DEF Record, AfterRecord, Row
<1>9. ASSUME NEW t \in Threads, Unlock(t) PROVE TypeOK'
  BY <1>9 DEF Unlock
<1>10. ASSUME NEW t \in Threads, Release(t) PROVE TypeOK'
  <2>1. Dropped(table[call[t].event]) \in [lock : Locks \cup {NoLock}, refs : Nat]
    BY SMTT(30) DEF Dropped, NoEntry
  <2>2. table' \in [EventIds -> [lock : Locks \cup {NoLock}, refs : Nat]]
    BY <1>10, <2>1 DEF Release
  <2>3. call' \in [Threads -> [event : EventIds, status : Nat, body : Nat,
                               lock : Locks \cup {NoLock}]]
    BY <1>10, CallTyped DEF Release
  <2>4. pc' \in [Threads -> {"idle", "lookup", "body", "hit", "acquire", "enter", "worker",
                             "working", "record", "unlock", "release"}]
    BY <1>10 DEF Release
  <2> QED BY <1>10, <2>2, <2>3, <2>4 DEF Release
<1>11. ASSUME NEW t \in Threads, LookupFails(t) PROVE TypeOK'
  BY <1>11 DEF LookupFails, Fault, AfterMiss
<1>12. ASSUME NEW t \in Threads, WorkerRaises(t) PROVE TypeOK'
  BY <1>12 DEF WorkerRaises, Fault
<1>13. ASSUME NEW t \in Threads, RecordFails(t) PROVE TypeOK'
  BY <1>13 DEF RecordFails, Fault, AfterRecord
<1>14. CASE Restart
  <2>1. call' \in [Threads -> [event : EventIds, status : Nat, body : Nat, lock : Locks \cup {NoLock}]]
    BY <1>14, CallTyped DEF Restart
  <2>2. faults' \in [EventIds -> Nat]
    BY <1>14 DEF Restart
  <2>3. table' \in [EventIds -> [lock : Locks \cup {NoLock}, refs : Nat]] /\ budget' \in Nat
    BY <1>14 DEF Restart, NoEntry
  <2> QED BY <1>14, <2>1, <2>2, <2>3 DEF Restart
<1>15. ASSUME NEW e \in EventIds, RecordAck(e) PROVE TypeOK'
  BY <1>15 DEF RecordAck, Row
<1>16. CASE UNCHANGED vars
  BY <1>16 DEF vars
<1> QED
  BY <1>1, <1>2, <1>3, <1>4, <1>5, <1>6, <1>7, <1>8, <1>9, <1>10, <1>11, <1>12, <1>13,
     <1>14, <1>15, <1>16 DEF Next, Proceed, Disturb

\* Every step that neither takes nor drops a reference.
QuietStep ==
    \/ \E t \in Threads :
        \/ \E e \in EventIds : Request(t, e)
        \/ LookupRow(t) \/ LookupBody(t) \/ Enter(t) \/ CallWorker(t) \/ WorkerReturns(t)
        \/ Record(t) \/ Unlock(t) \/ LookupFails(t) \/ WorkerRaises(t) \/ RecordFails(t)
    \/ \E e \in EventIds : RecordAck(e)
    \/ UNCHANGED vars

\* Such a step moves threads about, and keeps the references.
LEMMA QuietKeepsLocks == TypeOK /\ PcMatchesLock /\ QuietStep => SameLocks
<1> SUFFICES ASSUME TypeOK, PcMatchesLock, QuietStep PROVE SameLocks OBVIOUS
<1> USE DEF SameLocks, locking, counters
<1>1. ASSUME NEW t \in Threads, NEW e \in EventIds, Request(t, e) PROVE SameLocks
  <2>1. ~Locked(t) /\ call[t].lock = NoLock
    BY <1>1 DEF PcMatchesLock, Request, Locked
  <2> QED BY <1>1, <2>1 DEF Request, NoCall, TypeOK
<1>2. ASSUME NEW t \in Threads, LookupRow(t) PROVE SameLocks
  <2>1. \A u \in Threads : call'[u].event = call[u].event /\ call'[u].lock = call[u].lock
    BY <1>2, CallTyped DEF LookupRow
  <2> QED BY <1>2, <2>1 DEF LookupRow
<1>3. ASSUME NEW t \in Threads, LookupBody(t) PROVE SameLocks
  <2>1. \A u \in Threads : call'[u].event = call[u].event /\ call'[u].lock = call[u].lock
    BY <1>3, CallTyped DEF LookupBody
  <2> QED BY <1>3, <2>1 DEF LookupBody
<1>4. ASSUME NEW t \in Threads, CallWorker(t) PROVE SameLocks
  BY <1>4 DEF CallWorker, TypeOK
<1>5. ASSUME NEW t \in Threads,
             \/ Enter(t) \/ WorkerReturns(t) \/ Record(t) \/ Unlock(t)
             \/ LookupFails(t) \/ WorkerRaises(t) \/ RecordFails(t)
      PROVE SameLocks
  BY <1>5 DEF Enter, WorkerReturns, Record, Unlock, LookupFails, WorkerRaises, RecordFails
<1>6. ASSUME NEW e \in EventIds, RecordAck(e) PROVE SameLocks
  BY <1>6 DEF RecordAck
<1>7. CASE UNCHANGED vars
  BY <1>7 DEF vars
<1> QED BY <1>1, <1>2, <1>3, <1>4, <1>5, <1>6, <1>7 DEF QuietStep

\* A thread that moves within the same side of "with lock:" keeps the two
\* facts about positions, because the locks and their holders stay.
LEMMA MoveKeepsPositions ==
    ASSUME TypeOK, PcMatchesLock, InsideHolds, SameLocks, held' = held,
           NEW t \in Threads, NEW s, pc' = [pc EXCEPT ![t] = s],
           IF Locked(t) THEN Inside(t) /\ s \in {"lookup", "body", "hit", "worker", "working", "record", "unlock"}
                        ELSE s \in {"idle", "lookup", "body", "hit", "acquire"}
    PROVE  PcMatchesLock' /\ InsideHolds'
<1>1. \A u \in Threads : Locked(u)' <=> Locked(u)
  BY DEF SameLocks, Locked
<1>2. \A u \in Threads : Inside(u)' => Inside(u)
  BY <1>1 DEF Inside, TypeOK
<1>3. InsideHolds'
  BY <1>2 DEF InsideHolds, SameLocks
<1>4. PcMatchesLock'
  BY <1>1 DEF PcMatchesLock, TypeOK
<1> QED BY <1>3, <1>4

\* A quiet step keeps the two facts about positions.
LEMMA QuietKeepsPositions ==
    TypeOK /\ PcMatchesLock /\ InsideHolds /\ QuietStep => PcMatchesLock' /\ InsideHolds'
<1> SUFFICES ASSUME TypeOK, PcMatchesLock, InsideHolds, QuietStep
             PROVE  PcMatchesLock' /\ InsideHolds'
  OBVIOUS
<1> DEFINE Kept == PcMatchesLock' /\ InsideHolds'
<1>0. SameLocks
  BY QuietKeepsLocks
<1>1. ASSUME NEW t \in Threads, NEW e \in EventIds, Request(t, e) PROVE Kept
  <2>1. ~Locked(t)
    BY <1>1 DEF PcMatchesLock, Request
  <2> QED BY <1>0, <1>1, <2>1, MoveKeepsPositions DEF Request, Goto, locking
<1>2. ASSUME NEW t \in Threads, LookupRow(t) PROVE Kept
  BY <1>0, <1>2, MoveKeepsPositions DEF LookupRow, Goto, locking, AfterMiss, Inside
<1>3. ASSUME NEW t \in Threads, LookupBody(t) PROVE Kept
  BY <1>0, <1>3, MoveKeepsPositions DEF LookupBody, Goto, locking, AfterMiss, Inside
<1>4. ASSUME NEW t \in Threads, LookupFails(t) PROVE Kept
  BY <1>0, <1>4, MoveKeepsPositions DEF LookupFails, Goto, locking, AfterMiss, Inside
<1>5. ASSUME NEW t \in Threads, CallWorker(t) PROVE Kept
  <2>1. Locked(t)
    BY <1>5 DEF PcMatchesLock, CallWorker
  <2> QED BY <1>0, <1>5, <2>1, MoveKeepsPositions DEF CallWorker, Goto, locking, Inside
<1>6. ASSUME NEW t \in Threads, WorkerReturns(t) \/ WorkerRaises(t) PROVE Kept
  <2>1. Locked(t)
    BY <1>6 DEF PcMatchesLock, WorkerReturns, WorkerRaises
  <2> QED BY <1>0, <1>6, <2>1, MoveKeepsPositions DEF WorkerReturns, WorkerRaises, Goto, locking, Inside
<1>7. ASSUME NEW t \in Threads, Record(t) \/ RecordFails(t) PROVE Kept
  BY <1>0, <1>7, MoveKeepsPositions DEF Record, RecordFails, Goto, locking, AfterRecord, Inside
<1>8. ASSUME NEW t \in Threads, Enter(t) PROVE Kept
  <2>1. Locked(t) /\ call' = call
    BY <1>8 DEF PcMatchesLock, Enter
  <2>2. \A u \in Threads : u # t /\ Inside(u) => call[u].lock # call[t].lock
    BY <1>8, IdempotencyAssumption DEF InsideHolds, Enter
  <2>3. InsideHolds'
    BY <1>8, <2>1, <2>2 DEF InsideHolds, Inside, Locked, Enter, Goto, TypeOK
  <2>4. PcMatchesLock'
    BY <1>8, <2>1 DEF PcMatchesLock, Locked, Enter, Goto, TypeOK
  <2> QED BY <2>3, <2>4
<1>9. ASSUME NEW t \in Threads, Unlock(t) PROVE Kept
  <2>1. Locked(t) /\ Inside(t) /\ call' = call
    BY <1>9 DEF PcMatchesLock, Unlock, Inside
  <2>2. \A u \in Threads : u # t /\ Inside(u) => call[u].lock # call[t].lock
    BY <2>1 DEF InsideHolds
  <2>3. InsideHolds'
    BY <1>9, <2>1, <2>2 DEF InsideHolds, Inside, Locked, Unlock, Goto, TypeOK
  <2>4. PcMatchesLock'
    BY <1>9, <2>1 DEF PcMatchesLock, Locked, Unlock, Goto, TypeOK
  <2> QED BY <2>3, <2>4
<1>10. ASSUME NEW e \in EventIds, RecordAck(e) PROVE Kept
  BY <1>10 DEF RecordAck, PcMatchesLock, InsideHolds, Inside, Locked, locking
<1>11. CASE UNCHANGED vars
  BY <1>11 DEF vars, PcMatchesLock, InsideHolds, Inside, Locked
<1> QED
  BY <1>1, <1>2, <1>3, <1>4, <1>5, <1>6, <1>7, <1>8, <1>9, <1>10, <1>11 DEF QuietStep

\* _acquire_lock adds one reference to the entry of its event.
LEMMA AcquireKeeps ==
    ASSUME LockInv, TypeOK', NEW t \in Threads, Acquire(t)
    PROVE  LockTableBounded' /\ PcMatchesLock' /\ InsideHolds'
<1> PICK e \in EventIds : e = call[t].event
  BY DEF LockInv, TypeOK
<1> USE DEF LockInv, Goto
<1>1. PICK o \in Locks :
          /\ table[e].refs # 0 => o = table[e].lock
          /\ table' = [table EXCEPT ![e] = [lock |-> o, refs |-> @.refs + 1]]
          /\ call' = [call EXCEPT ![t].lock = o]
  BY DEF Acquire
<1>2. ~Locked(t) /\ o # NoLock /\ e \in EventIds
  BY IdempotencyAssumption DEF PcMatchesLock, Acquire, TypeOK
<1>3. \A u \in Threads : u # t => call'[u] = call[u]
  BY <1>1 DEF TypeOK
<1>4. call'[t].lock = o /\ call'[t].event = e
  BY <1>1 DEF TypeOK
<1>5. Referents(e)' = Referents(e) \cup {t}
  BY <1>2, <1>3, <1>4 DEF Referents, Locked
<1>6. \A f \in EventIds : f # e => Referents(f)' = Referents(f)
  BY <1>2, <1>3, <1>4 DEF Referents, Locked
<1>7. IsFiniteSet(Referents(e)) /\ t \notin Referents(e)
  BY <1>2, IdempotencyAssumption, FS_Subset DEF Referents
<1>8. Cardinality(Referents(e)') = table[e].refs + 1
  BY <1>2, <1>5, <1>7, FS_AddElement, ZenonT(30) DEF LockTableBounded
<1>9. table'[e] = [lock |-> o, refs |-> table[e].refs + 1]
  BY <1>1, <1>2 DEF TypeOK
<1>10. \A u \in Referents(e)' : call'[u].lock = table'[e].lock
  <2>1. SUFFICES ASSUME NEW u \in Referents(e), u # t PROVE call'[u].lock = o
    BY <1>4, <1>5, <1>9
  <2>2. Referents(e) # {} /\ table[e].refs # 0
    BY <1>2, <1>7, <2>1, FS_EmptySet DEF LockTableBounded
  <2>3. o = table[e].lock
    BY <1>1, <2>2
  <2>4. call[u].lock = table[e].lock
    BY <1>2, <2>1 DEF LockTableBounded
  <2> QED BY <1>3, <2>1, <2>3, <2>4 DEF Referents
<1>11. LockTableBounded'
  <2> SUFFICES ASSUME NEW f \in EventIds
               PROVE  /\ table'[f].refs = Cardinality(Referents(f)')
                      /\ Referents(f)' = {} => table'[f] = NoEntry
                      /\ \A u \in Referents(f)' : call'[u].lock = table'[f].lock
    BY DEF LockTableBounded
  <2>1. CASE f = e
    <3>1. table'[e].refs = table[e].refs + 1
      BY <1>9
    <3>2. t \in Referents(e)'
      BY <1>5
    <3> QED BY <1>8, <1>10, <2>1, <3>1, <3>2
  <2>2. CASE f # e
    <3>1. table'[f] = table[f]
      BY <1>1, <2>2 DEF TypeOK
    <3>2. \A u \in Referents(f) : u # t
      BY <2>2 DEF Referents
    <3>3. \A u \in Referents(f) : call'[u].lock = table[f].lock
      BY <1>3, <3>2, ZenonT(30) DEF LockTableBounded, Referents
    <3>4. /\ table[f].refs = Cardinality(Referents(f))
          /\ Referents(f) = {} => table[f] = NoEntry
      BY DEF LockTableBounded
    <3>5. Referents(f)' = Referents(f)
      BY <1>6, <2>2
    <3> QED BY <3>1, <3>3, <3>4, <3>5
  <2> QED BY <2>1, <2>2
<1>12. PcMatchesLock'
  BY <1>2, <1>3, <1>4 DEF PcMatchesLock, Locked, Acquire, TypeOK
<1>13. InsideHolds'
  BY <1>3, <1>4 DEF InsideHolds, Inside, Locked, Acquire, TypeOK
<1> QED BY <1>11, <1>12, <1>13

\* _release_lock drops one reference, and the entry with the last one.
LEMMA ReleaseKeeps ==
    ASSUME LockInv, TypeOK', NEW t \in Threads, Release(t)
    PROVE  LockTableBounded' /\ PcMatchesLock' /\ InsideHolds'
<1> PICK e \in EventIds : e = call[t].event
  BY DEF LockInv, TypeOK
<1> USE DEF LockInv, Goto
<1>1. /\ table' = [table EXCEPT ![e] = Dropped(@)]
      /\ call' = [call EXCEPT ![t].lock = NoLock]
  BY DEF Release
<1>2. Locked(t) /\ e \in EventIds
  BY DEF PcMatchesLock, Release, TypeOK
<1>3. \A u \in Threads : u # t => call'[u] = call[u]
  BY <1>1 DEF TypeOK
<1>4. call'[t].lock = NoLock /\ call'[t].event = e
  BY <1>1 DEF TypeOK
<1>5. Referents(e)' = Referents(e) \ {t}
  BY <1>2, <1>3, <1>4 DEF Referents, Locked
<1>6. \A f \in EventIds : f # e => Referents(f)' = Referents(f)
  BY <1>2, <1>3, <1>4 DEF Referents, Locked
<1>7. IsFiniteSet(Referents(e)) /\ t \in Referents(e)
  BY <1>2, IdempotencyAssumption, FS_Subset DEF Referents
<1>8. table[e].refs = Cardinality(Referents(e)) /\ table[e].refs \in Nat
  BY <1>2 DEF LockTableBounded, TypeOK
<1>9. Cardinality(Referents(e)') = table[e].refs - 1 /\ table[e].refs >= 1
  <2>1. Cardinality(Referents(e) \ {t}) = table[e].refs - 1
    BY <1>7, <1>8, FS_RemoveElement
  <2>2. table[e].refs # 0
    BY <1>7, <1>8, FS_EmptySet
  <2> QED BY <1>5, <1>8, <2>1, <2>2
<1>10. table'[e] = Dropped(table[e])
  BY <1>1, <1>2 DEF TypeOK
<1>11. /\ table'[e].refs = Cardinality(Referents(e)')
       /\ Referents(e)' = {} => table'[e] = NoEntry
       /\ \A u \in Referents(e)' : call'[u].lock = table'[e].lock
  <2>1. CASE table[e].refs = 1
    <3>1. Cardinality(Referents(e)') = 0 /\ IsFiniteSet(Referents(e)')
      BY <1>5, <1>7, <1>9, <2>1, FS_RemoveElement
    <3>2. Referents(e)' = {}
      BY <3>1, FS_EmptySet
    <3> QED BY <1>10, <2>1, <3>1, <3>2 DEF Dropped, NoEntry
  <2>2. CASE table[e].refs # 1
    <3>1. table'[e].refs = table[e].refs - 1 /\ table'[e].lock = table[e].lock
      BY <1>2, <1>9, <1>10, <2>2 DEF Dropped, TypeOK
    <3>2. Referents(e)' # {}
      BY <1>8, <1>9, <2>2, FS_EmptySet
    <3>3. \A u \in Referents(e)' : call'[u].lock = call[u].lock /\ u \in Referents(e)
      BY <1>3, <1>5 DEF Referents
    <3> QED BY <1>2, <1>9, <3>1, <3>2, <3>3 DEF LockTableBounded
  <2> QED BY <2>1, <2>2
<1>12. LockTableBounded'
  <2> SUFFICES ASSUME NEW f \in EventIds
               PROVE  /\ table'[f].refs = Cardinality(Referents(f)')
                      /\ Referents(f)' = {} => table'[f] = NoEntry
                      /\ \A u \in Referents(f)' : call'[u].lock = table'[f].lock
    BY DEF LockTableBounded
  <2>1. CASE f = e
    BY <1>11, <2>1
  <2>2. CASE f # e
    <3>1. table'[f] = table[f]
      BY <1>1, <2>2 DEF TypeOK
    <3>2. \A u \in Referents(f) : u # t
      BY <2>2 DEF Referents
    <3>3. \A u \in Referents(f) : call'[u].lock = table[f].lock
      BY <1>3, <3>2, ZenonT(30) DEF LockTableBounded, Referents
    <3>4. /\ table[f].refs = Cardinality(Referents(f))
          /\ Referents(f) = {} => table[f] = NoEntry
      BY DEF LockTableBounded
    <3>5. Referents(f)' = Referents(f)
      BY <1>6, <2>2
    <3> QED BY <3>1, <3>3, <3>4, <3>5
  <2> QED BY <2>1, <2>2
<1>13. PcMatchesLock'
  BY <1>3, <1>4 DEF PcMatchesLock, Locked, Release, TypeOK
<1>14. InsideHolds'
  BY <1>3, <1>4 DEF InsideHolds, Inside, Locked, Release, TypeOK
<1> QED BY <1>12, <1>13, <1>14

\* A restart leaves no thread with a reference.
LEMMA RestartKeeps ==
    ASSUME TypeOK, TypeOK', Restart
    PROVE  LockTableBounded' /\ PcMatchesLock' /\ InsideHolds'
<1>1. \A u \in Threads : call'[u].lock = NoLock /\ pc'[u] = "idle"
  BY DEF Restart, TypeOK
<1>2. \A e \in EventIds : Referents(e)' = {} /\ table'[e] = NoEntry
  BY <1>1 DEF Referents, Locked, Restart
<1>3. LockTableBounded'
  BY <1>2, FS_EmptySet DEF LockTableBounded, NoEntry
<1> QED BY <1>1, <1>3 DEF PcMatchesLock, InsideHolds, Inside, Locked

\* The invariant is inductive.
LEMMA LockStep == LockInv /\ [Next]_vars => LockInv'
<1> SUFFICES ASSUME LockInv, [Next]_vars PROVE LockInv' OBVIOUS
<1>1. TypeOK'
  BY LockTypes DEF LockInv
<1>2. CASE QuietStep
  <2>1. SameLocks
    BY <1>2, QuietKeepsLocks DEF LockInv
  <2>2. LockTableBounded'
    BY <2>1, TableKept DEF LockInv
  <2> QED BY <1>1, <1>2, <2>2, QuietKeepsPositions DEF LockInv
<1>3. ASSUME NEW t \in Threads, Acquire(t) PROVE LockInv'
  BY <1>1, <1>3, AcquireKeeps DEF LockInv
<1>4. ASSUME NEW t \in Threads, Release(t) PROVE LockInv'
  BY <1>1, <1>4, ReleaseKeeps DEF LockInv
<1>5. CASE Restart
  BY <1>1, <1>5, RestartKeeps DEF LockInv
<1> QED BY <1>2, <1>3, <1>4, <1>5 DEF Next, Proceed, Disturb, QuietStep

\* The invariant separates the workers of one event.
LEMMA LockInvExcludes == LockInv => OneRunAtATime
<1> SUFFICES ASSUME LockInv, NEW t \in Threads, NEW u \in Threads,
                    t # u, call[t].event = call[u].event, Inside(t), Inside(u)
             PROVE  FALSE
  BY DEF OneRunAtATime
<1>1. call[t].event \in EventIds
  BY DEF LockInv, TypeOK
<1>2. {t, u} \subseteq Referents(call[t].event)
  BY DEF Referents, Inside
<1>3. call[t].lock = call[u].lock
  BY <1>1, <1>2 DEF LockInv, LockTableBounded
<1> QED BY <1>3 DEF LockInv, InsideHolds

\* Two requests with one event id never run the worker at the same time
\* (handle's per-event lock, although _release_lock removes entries), and
\* _event_locks holds exactly the locks of the requests in flight, each with
\* its exact number of referents (issue #42).
THEOREM LocksAreSafe == Spec => []LockSafety
<1>1. LockInv => LockSafety
  BY LockInvExcludes DEF LockInv, LockSafety
<1> QED BY LockInit, LockStep, <1>1, PTL DEF Spec
------------------------------------------------------------------------------
\* A worker of e runs, or its response is still to be written.
Spending(e) == \E t \in Threads : call[t].event = e /\ pc[t] \in {"working", "record"}

\* The runs of e that its faults and its persisted response account for: as
\* long as no response is there or on its way, every run has cost a fault.
RunsMatch(e) ==
    /\ runs[e] <= faults[e] + 1
    /\ audit[e].body = 0 /\ ~Spending(e) => runs[e] <= faults[e]
    /\ \A t \in Threads : pc[t] = "worker" /\ call[t].event = e => runs[e] <= faults[e]
    /\ ~audit[e].there => audit[e].body = 0

\* A thread that will write a response has one.
ResponseAtHand ==
    \A t \in Threads : pc[t] \in {"hit", "working", "record"} => call[t].body # 0

RunInv == ResponseAtHand /\ \A e \in EventIds : RunsMatch(e)

\* Initially no worker has run.
LEMMA RunInit == Init => RunInv
<1> QED BY DEF Init, RunInv, ResponseAtHand, RunsMatch, NoRow

\* What is said of e stays true while its worker is not called, its response is
\* not lost and nobody comes to call its worker.
LEMMA RunsKept ==
    ASSUME TypeOK, NEW e \in EventIds, RunsMatch(e),
           runs'[e] = runs[e], faults'[e] = faults[e],
           audit'[e].body = 0 => audit[e].body = 0,
           ~audit'[e].there => audit'[e].body = 0,
           Spending(e) => Spending(e)' \/ audit'[e].body # 0,
           \A u \in Threads : pc'[u] = "worker" /\ call'[u].event = e =>
               pc[u] = "worker" /\ call[u].event = e
    PROVE  RunsMatch(e)'
<1> QED BY DEF RunsMatch

\* A fault pays for whatever run is under way.
LEMMA FaultPays ==
    ASSUME TypeOK, NEW e \in EventIds, RunsMatch(e),
           runs'[e] = runs[e], faults'[e] = faults[e] + 1, audit' = audit
    PROVE  RunsMatch(e)'
<1>1. runs[e] \in Nat /\ faults[e] \in Nat
  BY DEF TypeOK
<1>2. runs'[e] <= faults'[e]
  BY DEF RunsMatch
<1> QED BY <1>1, <1>2 DEF RunsMatch

\* A thread that looks up inside the lock, or is about to call the worker, is
\* alone: no other one calls the worker of that event or holds its response.
LEMMA AloneInside ==
    ASSUME LockInv, NEW t \in Threads, Locked(t), pc[t] \in {"lookup", "body", "worker"},
           NEW u \in Threads, u # t, call[u].event = call[t].event
    PROVE  pc[u] \notin {"worker", "working", "record"}
<1>1. Inside(t)
  BY DEF Inside
<1>2. pc[u] \in {"worker", "working", "record"} => Inside(u)
  BY DEF LockInv, PcMatchesLock, Inside
<1> QED BY <1>1, <1>2, LockInvExcludes DEF OneRunAtATime

\* The steps of thread t that go somewhere else than to the worker, or into it,
\* and suffer no fault.
Calm(t) ==
    \/ \E e \in EventIds : Request(t, e)
    \/ (LookupRow(t) \/ LookupBody(t)) /\ pc'[t] # "worker"
    \/ Acquire(t) \/ Enter(t) \/ WorkerReturns(t) \/ Unlock(t) \/ Release(t)

\* Such a step leaves the runs and their accounts alone.
LEMMA CalmKeepsRuns ==
    ASSUME LockInv, RunInv, NEW t \in Threads, Calm(t)
    PROVE  RunInv'
<1> USE DEF LockInv, TypeOK
<1>1. /\ runs' = runs /\ faults' = faults /\ audit' = audit
      /\ \A u \in Threads \ {t} : pc'[u] = pc[u] /\ call'[u] = call[u]
  BY DEF Calm, Request, LookupRow, LookupBody, Acquire, Enter, WorkerReturns, Unlock,
         Release, Goto, history
<1>2. /\ pc[t] # "record" /\ pc'[t] # "worker"
      /\ pc[t] = "working" => pc'[t] = "record" /\ call' = call
  BY DEF Calm, Request, LookupRow, LookupBody, Acquire, Enter, WorkerReturns, Unlock,
         Release, Goto, AfterMiss
<1>3. pc'[t] \in {"hit", "working", "record"} => call'[t].body # 0
  <2>1. CASE LookupBody(t)
    BY <2>1 DEF LookupBody, Goto, AfterMiss
  <2>2. CASE WorkerReturns(t)
    BY <2>2 DEF WorkerReturns, Goto, RunInv, ResponseAtHand
  <2>3. CASE LookupRow(t)
    BY <2>3 DEF LookupRow, Goto, AfterMiss
  <2>4. CASE (\E e \in EventIds : Request(t, e)) \/ Acquire(t) \/ Enter(t) \/ Unlock(t) \/ Release(t)
    BY <2>4 DEF Request, Acquire, Enter, Unlock, Release, Goto
  <2> QED BY <2>1, <2>2, <2>3, <2>4 DEF Calm
<1>4. ResponseAtHand'
  BY <1>1, <1>3 DEF RunInv, ResponseAtHand
<1>5. ASSUME NEW e \in EventIds PROVE RunsMatch(e)'
  <2>1. RunsMatch(e)
    BY DEF RunInv
  <2>2. Spending(e) => Spending(e)'
    BY <1>1, <1>2 DEF Spending
  <2>3. \A u \in Threads : pc'[u] = "worker" /\ call'[u].event = e =>
            pc[u] = "worker" /\ call[u].event = e
    BY <1>1, <1>2
  <2> QED BY <1>1, <2>1, <2>2, <2>3, RunsKept DEF RunsMatch
<1> QED BY <1>4, <1>5 DEF RunInv

\* A thread goes to the worker only from a lookup inside the lock that found no
\* response: no run of the event is unaccounted for.
LEMMA MissKeepsRuns ==
    ASSUME LockInv, RunInv, NEW t \in Threads, LookupRow(t) \/ LookupBody(t), pc'[t] = "worker"
    PROVE  RunInv'
<1> USE DEF LockInv, TypeOK
<1> PICK x \in EventIds : x = call[t].event
  OBVIOUS
<1>1. /\ runs' = runs /\ faults' = faults /\ audit' = audit /\ call' = call
      /\ \A u \in Threads \ {t} : pc'[u] = pc[u]
      /\ pc[t] \in {"lookup", "body"} /\ Locked(t) /\ x \in EventIds
  BY DEF LookupRow, LookupBody, Goto, AfterMiss, history
<1>2. audit[x].body = 0
  <2>1. CASE LookupRow(t)
    <3>1. ~audit[x].there
      BY <2>1 DEF LookupRow, Goto
    <3> QED BY <1>1, <3>1 DEF RunInv, RunsMatch
  <2>2. CASE LookupBody(t)
    BY <2>2 DEF LookupBody, Goto
  <2> QED BY <2>1, <2>2
<1>3. ~Spending(x)
  BY <1>1, AloneInside DEF Spending
<1>4. runs[x] <= faults[x]
  BY <1>1, <1>2, <1>3 DEF RunInv, RunsMatch
<1>5. ASSUME NEW e \in EventIds PROVE RunsMatch(e)'
  <2>1. Spending(e)' = Spending(e) /\ RunsMatch(e)
    BY <1>1 DEF Spending, RunInv
  <2> QED BY <1>1, <1>4, <2>1 DEF RunsMatch
<1>6. ResponseAtHand'
  BY <1>1 DEF RunInv, ResponseAtHand
<1> QED BY <1>5, <1>6 DEF RunInv

\* The worker is called by a thread that is alone, when every earlier run has
\* cost a fault.
LEMMA CallKeepsRuns ==
    ASSUME LockInv, RunInv, NEW t \in Threads, CallWorker(t)
    PROVE  RunInv'
<1> USE DEF LockInv, TypeOK
<1> PICK x \in EventIds : x = call[t].event
  OBVIOUS
<1>1. /\ faults' = faults /\ audit' = audit /\ pc[t] = "worker" /\ pc'[t] = "working"
      /\ x \in EventIds /\ runs' = [runs EXCEPT ![x] = @ + 1]
      /\ \A u \in Threads \ {t} : pc'[u] = pc[u] /\ call'[u] = call[u]
  BY DEF CallWorker, Goto
<1>2. call'[t].event = x /\ call'[t].body = runs'[x] /\ runs'[x] = runs[x] + 1
  BY DEF CallWorker
<1>3. runs[x] \in Nat /\ faults[x] \in Nat /\ runs[x] <= faults[x]
  BY <1>1 DEF RunInv, RunsMatch
<1>4. Locked(t)
  BY <1>1 DEF PcMatchesLock
<1>5. RunsMatch(x)'
  <2>1. Spending(x)'
    BY <1>1, <1>2 DEF Spending
  <2>2. \A u \in Threads : ~(pc'[u] = "worker" /\ call'[u].event = x)
    BY <1>1, <1>4, AloneInside
  <2>3. ~audit[x].there => audit[x].body = 0
    BY <1>1 DEF RunInv, RunsMatch
  <2> QED BY <1>1, <1>2, <1>3, <2>1, <2>2, <2>3 DEF RunsMatch
<1>6. ASSUME NEW e \in EventIds, e # x PROVE RunsMatch(e)'
  <2>1. RunsMatch(e) /\ runs'[e] = runs[e]
    BY <1>1, <1>6 DEF RunInv
  <2>2. Spending(e) => Spending(e)'
    BY <1>1, <1>6 DEF Spending
  <2>3. \A u \in Threads : pc'[u] = "worker" /\ call'[u].event = e =>
            pc[u] = "worker" /\ call[u].event = e
    BY <1>1
  <2> QED BY <1>1, <2>1, <2>2, <2>3, RunsKept DEF RunsMatch
<1>7. ResponseAtHand'
  <2>1. call'[t].body # 0 /\ \A u \in Threads \ {t} : pc'[u] = pc[u] /\ call'[u] = call[u]
    BY <1>1, <1>2
  <2> QED BY <1>1, <2>1 DEF RunInv, ResponseAtHand
<1> QED BY <1>5, <1>6, <1>7 DEF RunInv

\* A response is written.
LEMMA RecordKeepsRuns ==
    ASSUME LockInv, RunInv, NEW t \in Threads, Record(t)
    PROVE  RunInv'
<1> USE DEF LockInv, TypeOK
<1> PICK x \in EventIds : x = call[t].event
  OBVIOUS
<1>1. /\ runs' = runs /\ faults' = faults /\ call' = call /\ x \in EventIds
      /\ audit' = [audit EXCEPT ![x] = Row(call[t].status, call[t].body)]
      /\ pc'[t] \in {"unlock", "idle"} /\ call[t].body # 0
      /\ \A u \in Threads \ {t} : pc'[u] = pc[u]
  BY DEF Record, Goto, AfterRecord, history, RunInv, ResponseAtHand
<1>2. audit'[x].body # 0 /\ audit'[x].there
  BY <1>1 DEF Row
<1>3. ASSUME NEW e \in EventIds PROVE RunsMatch(e)'
  <2>1. RunsMatch(e)
    BY DEF RunInv
  <2>2. audit'[e] = audit[e] \/ e = x
    BY <1>1
  <2>3. Spending(e) => Spending(e)' \/ audit'[e].body # 0
    BY <1>1, <1>2 DEF Spending
  <2>4. \A u \in Threads : pc'[u] = "worker" /\ call'[u].event = e =>
            pc[u] = "worker" /\ call[u].event = e
    BY <1>1
  <2> QED BY <1>1, <1>2, <2>1, <2>2, <2>3, <2>4, RunsKept DEF RunsMatch
<1>4. ResponseAtHand'
  BY <1>1 DEF RunInv, ResponseAtHand
<1> QED BY <1>3, <1>4 DEF RunInv

\* A fault of a request is counted for its event.
LEMMA DisturbKeepsRuns ==
    ASSUME LockInv, RunInv, NEW t \in Threads, Disturb(t)
    PROVE  RunInv'
<1> USE DEF LockInv, TypeOK
<1> PICK x \in EventIds : x = call[t].event
  OBVIOUS
<1>1. /\ runs' = runs /\ audit' = audit /\ call' = call /\ x \in EventIds
      /\ faults' = [faults EXCEPT ![x] = @ + 1]
      /\ pc'[t] \in {"worker", "acquire", "unlock", "idle"}
      /\ \A u \in Threads \ {t} : pc'[u] = pc[u]
  BY DEF Disturb, LookupFails, WorkerRaises, RecordFails, Fault, Goto, AfterMiss, AfterRecord
<1>2. RunsMatch(x)'
  BY <1>1, FaultPays DEF RunInv
<1>3. ASSUME NEW e \in EventIds, e # x PROVE RunsMatch(e)'
  <2>1. RunsMatch(e) /\ faults'[e] = faults[e]
    BY <1>1, <1>3 DEF RunInv
  <2>2. Spending(e) => Spending(e)'
    BY <1>1, <1>3 DEF Spending
  <2>3. \A u \in Threads : pc'[u] = "worker" /\ call'[u].event = e =>
            pc[u] = "worker" /\ call[u].event = e
    BY <1>1, <1>3
  <2> QED BY <1>1, <2>1, <2>2, <2>3, RunsKept DEF RunsMatch
<1>4. ResponseAtHand'
  BY <1>1 DEF RunInv, ResponseAtHand
<1> QED BY <1>2, <1>3, <1>4 DEF RunInv

\* A restart loses the responses on their way, and counts them as faults.
LEMMA RestartKeepsRuns ==
    ASSUME LockInv, RunInv, Restart
    PROVE  RunInv'
<1> USE DEF LockInv, TypeOK
<1>1. /\ runs' = runs /\ audit' = audit /\ \A u \in Threads : pc'[u] = "idle"
  BY DEF Restart
<1>2. ASSUME NEW e \in EventIds PROVE RunsMatch(e)'
  <2>1. RunsMatch(e)
    BY DEF RunInv
  <2>2. CASE Spending(e)
    <3>1. faults'[e] = faults[e] + 1
      BY <2>2 DEF Restart, Spending
    <3> QED BY <1>1, <2>1, <3>1, FaultPays
  <2>3. CASE ~Spending(e)
    <3>1. faults'[e] = faults[e]
      BY <2>3 DEF Restart, Spending
    <3> QED BY <1>1, <2>1, <2>3, <3>1, RunsKept DEF RunsMatch
  <2> QED BY <2>2, <2>3
<1>3. ResponseAtHand'
  BY <1>1 DEF ResponseAtHand
<1> QED BY <1>2, <1>3 DEF RunInv

\* An acknowledgement writes no response and replaces none.
LEMMA AckKeepsRuns ==
    ASSUME LockInv, RunInv, NEW x \in EventIds, RecordAck(x)
    PROVE  RunInv'
<1> USE DEF LockInv, TypeOK
<1>1. /\ UNCHANGED <<runs, faults, pc, call>> /\ ~audit[x].there
      /\ audit' = [audit EXCEPT ![x] = Row(0, 0)]
  BY DEF RecordAck, history
<1>2. ASSUME NEW e \in EventIds PROVE RunsMatch(e)'
  <2>1. RunsMatch(e) /\ Spending(e)' = Spending(e)
    BY <1>1 DEF RunInv, Spending
  <2>2. audit'[e].body = audit[e].body /\ (~audit'[e].there => ~audit[e].there)
    BY <1>1, <2>1 DEF RunsMatch, Row
  <2> QED BY <1>1, <2>1, <2>2 DEF RunsMatch
<1>3. ResponseAtHand'
  BY <1>1 DEF RunInv, ResponseAtHand
<1> QED BY <1>2, <1>3 DEF RunInv

\* The account of the runs is inductive, given the lock's invariant.
LEMMA RunStep == LockInv /\ RunInv /\ [Next]_vars => RunInv'
<1> SUFFICES ASSUME LockInv, RunInv, [Next]_vars PROVE RunInv' OBVIOUS
<1>1. ASSUME NEW t \in Threads, (\E e \in EventIds : Request(t, e)) \/ Proceed(t) PROVE RunInv'
  <2>1. CASE Calm(t)
    BY <2>1, CalmKeepsRuns
  <2>2. CASE (LookupRow(t) \/ LookupBody(t)) /\ pc'[t] = "worker"
    BY <2>2, MissKeepsRuns
  <2>3. CASE CallWorker(t)
    BY <2>3, CallKeepsRuns
  <2>4. CASE Record(t)
    BY <2>4, RecordKeepsRuns
  <2> QED BY <1>1, <2>1, <2>2, <2>3, <2>4 DEF Proceed, Calm
<1>2. ASSUME NEW t \in Threads, Disturb(t) PROVE RunInv'
  BY <1>2, DisturbKeepsRuns
<1>3. CASE Restart
  BY <1>3, RestartKeepsRuns
<1>4. ASSUME NEW e \in EventIds, RecordAck(e) PROVE RunInv'
  BY <1>4, AckKeepsRuns
<1>5. CASE UNCHANGED vars
  BY <1>5 DEF vars, RunInv, RunsMatch, ResponseAtHand, Spending, history
<1> QED BY <1>1, <1>2, <1>3, <1>4, <1>5 DEF Next

\* A second run of a worker is always paid for by a fault of a request for the
\* same event (handle's lookup inside the lock).
THEOREM RunsArePaidFor == Spec => []RunsExplainedByFaults
<1>1. LockInv /\ RunInv => RunsExplainedByFaults
  <2> SUFFICES ASSUME LockInv, RunInv, NEW e \in EventIds PROVE runs[e] <= 1 + faults[e]
    BY DEF RunsExplainedByFaults
  <2>1. runs[e] \in Nat /\ faults[e] \in Nat /\ runs[e] <= faults[e] + 1
    BY DEF LockInv, TypeOK, RunInv, RunsMatch
  <2> QED BY <2>1
<1> QED BY LockInit, LockStep, RunInit, RunStep, <1>1, PTL DEF Spec
------------------------------------------------------------------------------
\* As long as no lookup of an event failed: whoever answers from the log holds
\* what the log holds, and whoever has to do with the worker found no response.
StayInv ==
    \A t \in Threads : ~misread[call[t].event] =>
        /\ pc[t] = "hit" => call[t].body = audit[call[t].event].body
        /\ pc[t] \in {"worker", "working", "record"} => audit[call[t].event].body = 0

LEMMA StayInit == Init => StayInv
<1> QED BY DEF Init, StayInv

\* A step that leaves the log as it is changes one thread's position.
LEMMA ReadsKeepStay ==
    ASSUME LockInv, RunInv, StayInv, NEW t \in Threads,
           \/ \E e \in EventIds : Request(t, e)
           \/ LookupRow(t) \/ LookupBody(t) \/ Acquire(t) \/ Enter(t) \/ CallWorker(t)
           \/ WorkerReturns(t) \/ Unlock(t) \/ Release(t) \/ Disturb(t)
    PROVE  StayInv'
<1> USE DEF LockInv, TypeOK
<1>1. /\ audit' = audit
      /\ \A u \in Threads \ {t} : pc'[u] = pc[u] /\ call'[u] = call[u]
  BY DEF Request, LookupRow, LookupBody, Acquire, Enter, CallWorker, WorkerReturns, Unlock,
         Release, Disturb, LookupFails, WorkerRaises, RecordFails, Goto
<1>2. \A e \in EventIds : ~misread'[e] => ~misread[e]
  BY DEF Request, LookupRow, LookupBody, Acquire, Enter, CallWorker, WorkerReturns, Unlock,
         Release, Disturb, LookupFails, WorkerRaises, RecordFails, history
<1>3. ASSUME NEW u \in Threads \ {t}, ~misread'[call'[u].event]
      PROVE  /\ pc'[u] = "hit" => call'[u].body = audit'[call'[u].event].body
             /\ pc'[u] \in {"worker", "working", "record"} => audit'[call'[u].event].body = 0
  <2>1. pc'[u] = pc[u] /\ call'[u] = call[u] /\ call[u].event \in EventIds
    BY <1>1
  <2> QED BY <1>1, <1>2, <1>3, <2>1 DEF StayInv
<1>4. ASSUME ~misread'[call'[t].event]
      PROVE  /\ pc'[t] = "hit" => call'[t].body = audit'[call'[t].event].body
             /\ pc'[t] \in {"worker", "working", "record"} => audit'[call'[t].event].body = 0
  <2>1. CASE LookupRow(t)
    <3>1. call'[t].event = call[t].event /\ pc'[t] # "hit"
      BY <2>1 DEF LookupRow, Goto, AfterMiss
    <3>2. pc'[t] \in {"worker", "working", "record"} => ~audit[call[t].event].there
      BY <2>1 DEF LookupRow, Goto
    <3> QED BY <1>1, <3>1, <3>2 DEF RunInv, RunsMatch
  <2>2. CASE LookupBody(t)
    <3> PICK x \in EventIds : x = call[t].event
      OBVIOUS
    <3>1. call'[t].event = x /\ pc'[t] \notin {"working", "record"}
      BY <2>2 DEF LookupBody, Goto, AfterMiss
    <3>2. pc'[t] = "hit" => call'[t].body = audit[x].body
      BY <2>2 DEF LookupBody, Goto, AfterMiss
    <3>3. pc'[t] = "worker" => audit[x].body = 0
      BY <2>2 DEF LookupBody, Goto
    <3> QED BY <1>1, <3>1, <3>2, <3>3
  <2>3. CASE LookupFails(t)
    <3>1. misread'[call[t].event] /\ call' = call
      BY <2>3 DEF LookupFails
    <3> QED BY <1>4, <3>1
  <2>4. CASE CallWorker(t)
    <3>1. call'[t].event = call[t].event /\ pc[t] = "worker" /\ pc'[t] = "working" /\ misread' = misread
      BY <2>4 DEF CallWorker, Goto
    <3> QED BY <1>1, <1>4, <3>1 DEF StayInv
  <2>5. CASE WorkerReturns(t)
    <3>1. call' = call /\ pc[t] = "working" /\ pc'[t] = "record" /\ misread' = misread
      BY <2>5 DEF WorkerReturns, Goto, history
    <3> QED BY <1>1, <1>4, <3>1 DEF StayInv
  <2>6. CASE \/ \E e \in EventIds : Request(t, e)
             \/ Acquire(t) \/ Enter(t) \/ Unlock(t) \/ Release(t)
             \/ WorkerRaises(t) \/ RecordFails(t)
    <3>1. pc'[t] \notin {"hit", "worker", "working", "record"}
      BY <2>6 DEF Request, Acquire, Enter, Unlock, Release, WorkerRaises, RecordFails, Goto,
                  AfterRecord
    <3> QED BY <3>1
  <2> QED BY <2>1, <2>2, <2>3, <2>4, <2>5, <2>6 DEF Disturb
<1> QED BY <1>3, <1>4 DEF StayInv

\* A response is written once, by a thread that is alone with it, or again as
\* it is.
LEMMA RecordKeepsStay ==
    ASSUME LockInv, RunInv, StayInv, NEW t \in Threads, Record(t)
    PROVE  /\ StayInv'
           /\ \A e \in EventIds :
                audit[e].body # 0 /\ ~misread[e] => audit'[e].body = audit[e].body
<1> USE DEF LockInv, TypeOK
<1> PICK x \in EventIds : x = call[t].event
  OBVIOUS
<1>1. /\ misread' = misread /\ call' = call /\ pc[t] \in {"record", "hit"}
      /\ audit' = [audit EXCEPT ![x] = Row(call[t].status, call[t].body)]
      /\ pc'[t] \in {"unlock", "idle"} /\ call[t].body # 0
      /\ \A u \in Threads \ {t} : pc'[u] = pc[u]
  BY DEF Record, Goto, AfterRecord, history, RunInv, ResponseAtHand
<1>2. audit'[x].body = call[t].body /\ \A e \in EventIds : e # x => audit'[e] = audit[e]
  BY <1>1 DEF Row
<1>3. ~misread[x] /\ audit[x].body # 0 => audit'[x].body = audit[x].body
  BY <1>1, <1>2 DEF StayInv
<1>4. ASSUME NEW u \in Threads \ {t}, ~misread[x], call[u].event = x
      PROVE  /\ pc[u] = "hit" => call[u].body = audit'[x].body
             /\ pc[u] \notin {"worker", "working", "record"}
  <2>1. CASE audit[x].body # 0
    BY <1>3, <1>4, <2>1 DEF StayInv
  <2>2. CASE audit[x].body = 0
    <3>1. pc[t] = "record"
      BY <1>1, <1>4, <2>2 DEF StayInv
    <3>2. pc[u] # "hit"
      BY <1>4, <2>2 DEF StayInv, RunInv, ResponseAtHand
    <3>3. Inside(t) /\ (pc[u] \in {"worker", "working", "record"} => Inside(u))
      BY <3>1 DEF PcMatchesLock, Inside
    <3> QED BY <1>4, <3>2, <3>3, LockInvExcludes DEF OneRunAtATime
  <2> QED BY <2>1, <2>2
<1>5. StayInv'
  <2> SUFFICES ASSUME NEW u \in Threads, ~misread[call[u].event]
               PROVE  /\ pc'[u] = "hit" => call[u].body = audit'[call[u].event].body
                      /\ pc'[u] \in {"worker", "working", "record"} =>
                            audit'[call[u].event].body = 0
    BY <1>1 DEF StayInv
  <2>1. CASE u = t
    BY <1>1, <2>1
  <2>2. CASE u # t /\ call[u].event = x
    BY <1>1, <1>4, <2>2
  <2>3. CASE u # t /\ call[u].event # x
    <3>1. audit'[call[u].event] = audit[call[u].event] /\ pc'[u] = pc[u]
      BY <1>1, <1>2, <2>3
    <3> QED BY <3>1 DEF StayInv
  <2> QED BY <2>1, <2>2, <2>3
<1> QED BY <1>2, <1>3, <1>5

\* The invariant is inductive, and keeps persisted responses.
LEMMA StayStep ==
    LockInv /\ RunInv /\ StayInv /\ [Next]_vars =>
        /\ StayInv'
        /\ \A e \in EventIds :
             audit[e].body # 0 /\ ~misread[e] => audit'[e].body = audit[e].body
<1> SUFFICES ASSUME LockInv, RunInv, StayInv, [Next]_vars
             PROVE  /\ StayInv'
                    /\ \A e \in EventIds :
                         audit[e].body # 0 /\ ~misread[e] => audit'[e].body = audit[e].body
  OBVIOUS
<1>1. ASSUME NEW t \in Threads,
             \/ \E e \in EventIds : Request(t, e)
             \/ LookupRow(t) \/ LookupBody(t) \/ Acquire(t) \/ Enter(t) \/ CallWorker(t)
             \/ WorkerReturns(t) \/ Unlock(t) \/ Release(t) \/ Disturb(t)
      PROVE  StayInv' /\ audit' = audit
  BY <1>1, ReadsKeepStay
     DEF Request, LookupRow, LookupBody, Acquire, Enter, CallWorker, WorkerReturns, Unlock,
         Release, Disturb, LookupFails, WorkerRaises, RecordFails
<1>2. CASE \E t \in Threads : Record(t)
  BY <1>2, RecordKeepsStay
<1>3. CASE Restart
  <2>1. /\ misread' = misread /\ audit' = audit /\ \A u \in Threads : pc'[u] = "idle"
    BY <1>3 DEF Restart
  <2> QED BY <2>1 DEF StayInv
<1>4. ASSUME NEW x \in EventIds, RecordAck(x)
      PROVE  StayInv' /\ \A e \in EventIds : audit'[e].body = audit[e].body
  <2>1. audit[x].body = 0
    BY <1>4 DEF RecordAck, RunInv, RunsMatch
  <2>2. \A e \in EventIds : audit'[e].body = audit[e].body
    BY <1>4, <2>1 DEF RecordAck, Row, LockInv, TypeOK
  <2> QED BY <1>4, <2>2 DEF RecordAck, StayInv, LockInv, TypeOK, history
<1>5. CASE UNCHANGED vars
  BY <1>5 DEF vars, StayInv, history
<1> QED BY <1>1, <1>2, <1>3, <1>4, <1>5 DEF Next, Proceed

\* A status that may stand beside the body of e's row: the body's own, or the 0
\* of an acknowledgement.
Pairs(e, s) ==
    IF stub[e] THEN s \in {0, audit[e].body} ELSE s = audit[e].body /\ s # 0

\* A status and a body belong together in the worker's hands; as long as no
\* lookup of an event failed, they do in the log and in a lookup's hands too.
PairInv ==
    /\ \A e \in EventIds : ~misread[e] /\ audit[e].there => Pairs(e, audit[e].status)
    /\ \A t \in Threads :
        /\ pc[t] \in {"working", "record"} => call[t].status = call[t].body
        /\ pc[t] \in {"body", "hit"} /\ ~misread[call[t].event] =>
              audit[call[t].event].there /\ Pairs(call[t].event, call[t].status)

LEMMA PairInit == Init => PairInv
<1> QED BY DEF Init, PairInv, NoRow

\* A step that leaves the log as it is changes one thread's hands.
LEMMA ReadsKeepPair ==
    ASSUME LockInv, PairInv, NEW t \in Threads,
           \/ \E e \in EventIds : Request(t, e)
           \/ LookupRow(t) \/ LookupBody(t) \/ Acquire(t) \/ Enter(t) \/ CallWorker(t)
           \/ WorkerReturns(t) \/ Unlock(t) \/ Release(t) \/ Disturb(t)
    PROVE  PairInv'
<1> USE DEF LockInv, TypeOK
<1>1. /\ audit' = audit /\ stub' = stub
      /\ \A u \in Threads \ {t} : pc'[u] = pc[u] /\ call'[u] = call[u]
  BY DEF Request, LookupRow, LookupBody, Acquire, Enter, CallWorker, WorkerReturns, Unlock,
         Release, Disturb, LookupFails, WorkerRaises, RecordFails, Goto, history
<1>2. \A e \in EventIds : ~misread'[e] => ~misread[e]
  BY DEF Request, LookupRow, LookupBody, Acquire, Enter, CallWorker, WorkerReturns, Unlock,
         Release, Disturb, LookupFails, WorkerRaises, RecordFails, history
<1>3. \A e \in EventIds : ~misread'[e] /\ audit'[e].there => Pairs(e, audit[e].status)'
  BY <1>1, <1>2 DEF PairInv, Pairs
<1>4. ASSUME NEW u \in Threads \ {t}
      PROVE  /\ pc'[u] \in {"working", "record"} => call'[u].status = call'[u].body
             /\ pc'[u] \in {"body", "hit"} /\ ~misread'[call'[u].event] =>
                   audit'[call'[u].event].there /\ Pairs(call[u].event, call[u].status)'
  <2>1. pc'[u] = pc[u] /\ call'[u] = call[u] /\ call[u].event \in EventIds
    BY <1>1
  <2> QED BY <1>1, <1>2, <2>1 DEF PairInv, Pairs
<1>5. /\ pc'[t] \in {"working", "record"} => call'[t].status = call'[t].body
      /\ pc'[t] \in {"body", "hit"} /\ ~misread'[call'[t].event] =>
            audit'[call'[t].event].there /\ Pairs(call[t].event, call[t].status)'
  <2> PICK x \in EventIds : x = call[t].event
    OBVIOUS
  <2>1. CASE LookupRow(t)
    <3>1. call'[t].event = x /\ pc'[t] \notin {"working", "record", "hit"} /\ misread' = misread
      BY <2>1 DEF LookupRow, Goto, AfterMiss, history
    <3>2. pc'[t] = "body" => audit[x].there /\ call'[t].status = audit[x].status
      BY <2>1 DEF LookupRow, Goto, AfterMiss
    <3> QED BY <1>1, <3>1, <3>2 DEF PairInv, Pairs
  <2>2. CASE LookupBody(t)
    <3>1. /\ call'[t].event = x /\ call'[t].status = call[t].status /\ misread' = misread
          /\ pc[t] = "body" /\ pc'[t] \notin {"working", "record", "body"}
      BY <2>2 DEF LookupBody, Goto, AfterMiss, history
    <3> QED BY <1>1, <3>1 DEF PairInv, Pairs
  <2>3. CASE LookupFails(t)
    <3>1. pc'[t] \notin {"working", "record", "body", "hit"}
      BY <2>3 DEF LookupFails, Goto, AfterMiss
    <3> QED BY <3>1
  <2>4. CASE CallWorker(t)
    <3>1. pc'[t] = "working" /\ call'[t].status = call'[t].body
      BY <2>4 DEF CallWorker, Goto
    <3> QED BY <3>1
  <2>5. CASE WorkerReturns(t)
    <3>1. pc[t] = "working" /\ pc'[t] = "record" /\ call'[t] = call[t]
      BY <2>5 DEF WorkerReturns, Goto
    <3> QED BY <3>1 DEF PairInv
  <2>6. CASE \/ \E e \in EventIds : Request(t, e)
             \/ Acquire(t) \/ Enter(t) \/ Unlock(t) \/ Release(t)
             \/ WorkerRaises(t) \/ RecordFails(t)
    <3>1. pc'[t] \notin {"working", "record", "body", "hit"}
      BY <2>6 DEF Request, Acquire, Enter, Unlock, Release, WorkerRaises, RecordFails, Goto,
                  AfterRecord
    <3> QED BY <3>1
  <2> QED BY <2>1, <2>2, <2>3, <2>4, <2>5, <2>6 DEF Disturb
<1> QED BY <1>3, <1>4, <1>5 DEF PairInv

\* A write puts a pair into the log that belongs together, or an
\* acknowledgement's 0, and leaves it so in the hands of others.
LEMMA RecordKeepsPair ==
    ASSUME LockInv, RunInv, StayInv, PairInv, NEW t \in Threads, Record(t)
    PROVE  /\ PairInv'
           /\ \A e \in EventIds : audit[e].body # 0 /\ ~misread[e] =>
                audit'[e].status \in
                   IF stub[e] THEN {0, audit[e].body} ELSE {audit[e].status}
<1> USE DEF LockInv, TypeOK
<1> PICK x \in EventIds : x = call[t].event
  OBVIOUS
<1>1. /\ misread' = misread /\ stub' = stub /\ call' = call /\ pc[t] \in {"record", "hit"}
      /\ audit' = [audit EXCEPT ![x] = Row(call[t].status, call[t].body)]
      /\ pc'[t] \in {"unlock", "idle"} /\ call[t].body # 0
      /\ \A u \in Threads \ {t} : pc'[u] = pc[u]
  BY DEF Record, Goto, AfterRecord, history, RunInv, ResponseAtHand
<1>2. /\ audit'[x].body = call[t].body /\ audit'[x].status = call[t].status /\ audit'[x].there
      /\ \A e \in EventIds : e # x => audit'[e] = audit[e]
  BY <1>1 DEF Row
<1>3. ~misread[x] => Pairs(x, call[t].status)'
  <2>1. CASE pc[t] = "record"
    BY <1>1, <1>2, <2>1 DEF PairInv, Pairs
  <2>2. CASE pc[t] = "hit"
    BY <1>1, <1>2, <2>2 DEF PairInv, StayInv, Pairs
  <2> QED BY <1>1, <2>1, <2>2
<1>4. \A e \in EventIds : ~misread'[e] /\ audit'[e].there => Pairs(e, audit[e].status)'
  <2> SUFFICES ASSUME NEW e \in EventIds, ~misread[e], audit'[e].there
               PROVE  Pairs(e, audit[e].status)'
    BY <1>1
  <2>1. CASE e = x
    BY <1>1, <1>2, <1>3, <2>1 DEF Pairs
  <2>2. CASE e # x
    BY <1>1, <1>2, <2>2 DEF Pairs, PairInv
  <2> QED BY <2>1, <2>2
<1>5. ~misread[x] => audit[x].body \in {0, call[t].body}
  BY <1>1 DEF StayInv
<1>6. ASSUME NEW u \in Threads
      PROVE  /\ pc'[u] \in {"working", "record"} => call'[u].status = call'[u].body
             /\ pc'[u] \in {"body", "hit"} /\ ~misread'[call'[u].event] =>
                   audit'[call'[u].event].there /\ Pairs(call[u].event, call[u].status)'
  <2> PICK e \in EventIds : e = call[u].event
    OBVIOUS
  <2>1. CASE u = t
    BY <1>1, <2>1
  <2>2. CASE u # t /\ e # x
    BY <1>1, <1>2, <2>2 DEF PairInv, Pairs
  <2>3. CASE u # t /\ e = x
    <3>1. pc'[u] = pc[u] /\ call'[u] = call[u] /\ call[u].event = x
      BY <1>1, <2>3
    <3>2. ASSUME pc[u] \in {"body", "hit"}, ~misread[x]
          PROVE  Pairs(x, call[u].status)'
      <4>1. Pairs(x, call[u].status) /\ audit[x].body \in {0, call[t].body}
        BY <1>5, <3>1, <3>2 DEF PairInv
      <4> QED BY <1>1, <1>2, <3>1, <4>1 DEF Pairs
    <3>3. pc[u] \in {"working", "record"} => call[u].status = call[u].body
      BY DEF PairInv
    <3> QED BY <1>1, <1>2, <3>1, <3>2, <3>3 DEF Pairs
  <2> QED BY <2>1, <2>2, <2>3
<1>7. ASSUME NEW e \in EventIds, audit[e].body # 0, ~misread[e]
      PROVE  audit'[e].status \in IF stub[e] THEN {0, audit[e].body} ELSE {audit[e].status}
  <2>1. audit[e].there
    BY <1>7 DEF RunInv, RunsMatch
  <2>2. Pairs(e, audit[e].status) /\ (~stub[e] => audit[e].status = audit[e].body)
    BY <1>7, <2>1 DEF PairInv, Pairs
  <2>3. CASE e = x
    <3>1. audit'[x].body = audit[x].body
      BY <1>2, <1>5, <1>7, <2>3
    <3> QED BY <1>1, <1>2, <1>3, <1>7, <2>2, <2>3, <3>1 DEF Pairs
  <2>4. CASE e # x
    BY <1>2, <2>2, <2>4 DEF Pairs
  <2> QED BY <2>3, <2>4
<1> QED BY <1>4, <1>6, <1>7 DEF PairInv

\* The invariant is inductive, and keeps persisted statuses.
LEMMA PairStep ==
    LockInv /\ RunInv /\ StayInv /\ PairInv /\ [Next]_vars =>
        /\ PairInv'
        /\ \A e \in EventIds : audit[e].body # 0 /\ ~misread[e] =>
             audit'[e].status \in IF stub[e] THEN {0, audit[e].body} ELSE {audit[e].status}
<1> SUFFICES ASSUME LockInv, RunInv, StayInv, PairInv, [Next]_vars
             PROVE  /\ PairInv'
                    /\ \A e \in EventIds : audit[e].body # 0 /\ ~misread[e] =>
                         audit'[e].status \in
                            IF stub[e] THEN {0, audit[e].body} ELSE {audit[e].status}
  OBVIOUS
<1>1. ASSUME \A e \in EventIds : audit'[e] = audit[e] \/ audit[e].body = 0
      PROVE  \A e \in EventIds : audit[e].body # 0 /\ ~misread[e] =>
                audit'[e].status \in
                   IF stub[e] THEN {0, audit[e].body} ELSE {audit[e].status}
  <2> SUFFICES ASSUME NEW e \in EventIds, audit[e].body # 0, ~misread[e]
               PROVE  audit[e].status \in
                         IF stub[e] THEN {0, audit[e].body} ELSE {audit[e].status}
    BY <1>1
  <2>1. audit[e].there
    BY DEF RunInv, RunsMatch
  <2> QED BY <2>1 DEF PairInv, Pairs
<1>2. ASSUME NEW t \in Threads,
             \/ \E e \in EventIds : Request(t, e)
             \/ LookupRow(t) \/ LookupBody(t) \/ Acquire(t) \/ Enter(t) \/ CallWorker(t)
             \/ WorkerReturns(t) \/ Unlock(t) \/ Release(t) \/ Disturb(t)
      PROVE  PairInv' /\ audit' = audit
  BY <1>2, ReadsKeepPair
     DEF Request, LookupRow, LookupBody, Acquire, Enter, CallWorker, WorkerReturns, Unlock,
         Release, Disturb, LookupFails, WorkerRaises, RecordFails
<1>3. CASE \E t \in Threads : Record(t)
  BY <1>3, RecordKeepsPair
<1>4. CASE Restart
  <2>1. /\ misread' = misread /\ stub' = stub /\ audit' = audit
        /\ \A u \in Threads : pc'[u] = "idle"
    BY <1>4 DEF Restart
  <2> QED BY <1>1, <2>1 DEF PairInv, Pairs
<1>5. ASSUME NEW x \in EventIds, RecordAck(x)
      PROVE  PairInv' /\ \A e \in EventIds : audit'[e] = audit[e] \/ audit[e].body = 0
  <2>1. /\ misread' = misread /\ pc' = pc /\ call' = call /\ ~audit[x].there
        /\ audit'[x].status = 0 /\ audit'[x].body = 0 /\ stub'[x] = TRUE
        /\ \A e \in EventIds \ {x} : audit'[e] = audit[e] /\ stub'[e] = stub[e]
    BY <1>5 DEF RecordAck, Row, LockInv, TypeOK
  <2>2. audit[x].body = 0
    BY <2>1 DEF RunInv, RunsMatch
  <2>3. \A e \in EventIds : ~misread'[e] /\ audit'[e].there => Pairs(e, audit[e].status)'
    BY <2>1 DEF PairInv, Pairs
  <2>4. ASSUME NEW t \in Threads
        PROVE  /\ pc'[t] \in {"working", "record"} => call'[t].status = call'[t].body
               /\ pc'[t] \in {"body", "hit"} /\ ~misread'[call'[t].event] =>
                     audit'[call'[t].event].there /\ Pairs(call[t].event, call[t].status)'
    <3>1. call[t].event \in EventIds
      BY DEF LockInv, TypeOK
    <3> QED BY <2>1, <3>1 DEF PairInv, Pairs
  <2> QED BY <2>1, <2>2, <2>3, <2>4 DEF PairInv
<1>6. CASE UNCHANGED vars
  BY <1>1, <1>6 DEF vars, PairInv, Pairs
<1> QED BY <1>1, <1>2, <1>3, <1>4, <1>5, <1>6 DEF Next, Proceed

\* The response of a request, status and body, once persisted, is what every
\* duplicate persists again (handle records on a hit too), whatever restarts,
\* failed writes and acknowledgements come between, unless a lookup of the
\* event failed; where an acknowledgement came first, its status 0 may take the
\* status's place, and nothing takes the body's.
THEOREM ResponseIsKept == Spec => PersistedResponseStays
<1> DEFINE Kept(e) == audit[e].body # 0 /\ ~misread[e] =>
                        /\ audit'[e].body = audit[e].body
                        /\ audit'[e].status \in
                              IF stub[e] THEN {0, audit[e].body} ELSE {audit[e].status}
<1>1. LockInv /\ RunInv /\ StayInv /\ PairInv /\ [Next]_vars => [\A e \in EventIds : Kept(e)]_vars
  BY StayStep, PairStep
<1> QED
  BY LockInit, LockStep, RunInit, RunStep, StayInit, StayStep, PairInit, PairStep, <1>1, PTL
     DEF Spec, PersistedResponseStays
=============================================================================
