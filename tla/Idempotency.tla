----------------------------- MODULE Idempotency -----------------------------
(***************************************************************************)
(* IdempotencyHandler.handle: threads of one process that serve requests   *)
(* keyed by an event id, answer duplicates from the audit log, and         *)
(* serialise the first ones on a reference-counted lock per event id.      *)
(*                                                                         *)
(* A step is one SQLite statement (the audit log autocommits), one block   *)
(* under the meta-lock, or one acquire or release of an event lock.  The   *)
(* n-th run of the worker for an event returns response n, so that a       *)
(* status and a body belong together exactly when they are equal; 0 is     *)
(* the status of an ACK-only row and the body of a row without one.        *)
(***************************************************************************)
EXTENDS Naturals, FiniteSets

CONSTANTS
    Threads,      \* threads of the server process
    EventIds,     \* valid UUID v7 keys
    Locks,        \* threading.Lock objects; a dead object's address is reused
    NoLock,       \* "no lock object"
    NoThread,     \* "held by nobody"
    FaultKinds,   \* the faults of this instance
    AckRows,      \* whether AuditLog.record_ack may meet a request's event id
    MaxRequests,  \* bound: requests in a behaviour
    MaxFaults     \* bound: faults in a behaviour

ASSUME IdempotencyAssumption ==
    /\ IsFiniteSet(Threads)
    /\ EventIds # {}
    /\ NoLock \notin Locks
    /\ NoThread \notin Threads
    /\ FaultKinds \subseteq {"read", "write", "raise", "restart"}
    /\ AckRows \in BOOLEAN
    /\ MaxRequests \in Nat
    /\ MaxFaults \in Nat

NoRow == [there |-> FALSE, status |-> 0, body |-> 0]
Row(s, b) == [there |-> TRUE, status |-> s, body |-> b]

VARIABLES
    audit,     \* event id -> row of audit_log, NoRow while there is none
    table,     \* event id -> its entry of _event_locks, refs = 0 while there is none
    held,      \* lock object -> the thread that holds it
    pc,        \* where each thread stands inside handle
    call,      \* the local variables of that call
    runs,      \* event id -> number of times its worker was called
    faults,    \* event id -> faults that its requests suffered
    misread,   \* event id -> whether one of those was a failed SELECT
    stub,      \* event id -> whether its row began as an acknowledgement's
    requests,  \* number of requests (bound)
    budget     \* faults still to come (bound)

vars == <<audit, table, held, pc, call, runs, faults, misread, stub,
          requests, budget>>
counters == <<requests, budget>>
locking == <<table, held>>
history == <<runs, faults, misread, stub>>

NoEntry == [lock |-> NoLock, refs |-> 0]
NoCall(e) == [event |-> e, status |-> 0, body |-> 0, lock |-> NoLock]

Init ==
    /\ audit = [e \in EventIds |-> NoRow]
    /\ table = [e \in EventIds |-> NoEntry]
    /\ held = [o \in Locks |-> NoThread]
    /\ pc = [t \in Threads |-> "idle"]
    /\ call = [t \in Threads |-> NoCall(CHOOSE e \in EventIds : TRUE)]
    /\ runs = [e \in EventIds |-> 0]
    /\ faults = [e \in EventIds |-> 0]
    /\ misread = [e \in EventIds |-> FALSE]
    /\ stub = [e \in EventIds |-> FALSE]
    /\ requests = 0
    /\ budget = MaxFaults

------------------------------------------------------------------------------
Goto(t, s) == pc' = [pc EXCEPT ![t] = s]

\* A fault of some kind that a request for e suffers; it draws on the budget.
Fault(kind, e) ==
    /\ kind \in FaultKinds
    /\ budget > 0
    /\ budget' = budget - 1
    /\ faults' = [faults EXCEPT ![e] = @ + 1]

\* The lock of t's call was acquired with "with lock:".
Locked(t) == call[t].lock # NoLock

Request(t, e) ==
    /\ pc[t] = "idle"
    /\ requests < MaxRequests
    /\ requests' = requests + 1
    /\ call' = [call EXCEPT ![t] = NoCall(e)]
    /\ Goto(t, "lookup")
    /\ UNCHANGED <<audit, locking, history, budget>>

\* _lookup found nothing: outside the lock the thread goes for the lock, inside
\* it the worker runs.
AfterMiss(t) == IF Locked(t) THEN "worker" ELSE "acquire"

\* AuditLog.lookup.
LookupRow(t) ==
    LET row == audit[call[t].event] IN
    /\ pc[t] = "lookup"
    /\ IF ~row.there
       THEN Goto(t, AfterMiss(t)) /\ UNCHANGED call
       ELSE Goto(t, "body") /\ call' = [call EXCEPT ![t].status = row.status]
    /\ UNCHANGED <<audit, locking, history, counters>>

\* AuditLog.lookup_response, a second SELECT.
LookupBody(t) ==
    LET row == audit[call[t].event] IN
    /\ pc[t] = "body"
    /\ IF row.body = 0
       THEN Goto(t, AfterMiss(t)) /\ UNCHANGED call
       ELSE Goto(t, "hit") /\ call' = [call EXCEPT ![t].body = row.body]
    /\ UNCHANGED <<audit, locking, history, counters>>

\* Either SELECT fails: both swallow the error and answer "nothing there".
LookupFails(t) ==
    /\ pc[t] \in {"lookup", "body"}
    /\ Fault("read", call[t].event)
    /\ misread' = [misread EXCEPT ![call[t].event] = TRUE]
    /\ Goto(t, AfterMiss(t))
    /\ UNCHANGED <<audit, locking, call, runs, stub, requests>>

\* _acquire_lock, under the meta-lock.
Acquire(t) ==
    LET e == call[t].event IN
    /\ pc[t] = "acquire"
    /\ \E o \in Locks :
        /\ IF table[e].refs = 0
           THEN (\A f \in EventIds : table[f].lock # o) /\ (\A u \in Threads : call[u].lock # o)
           ELSE o = table[e].lock
        /\ table' = [table EXCEPT ![e] = [lock |-> o, refs |-> @.refs + 1]]
        /\ call' = [call EXCEPT ![t].lock = o]
    /\ Goto(t, "enter")
    /\ UNCHANGED <<audit, held, history, counters>>

\* Mutant: no second lookup inside the lock.
EnterWithoutRecheck(t) ==
    /\ pc[t] = "enter"
    /\ held[call[t].lock] = NoThread
    /\ held' = [held EXCEPT ![call[t].lock] = t]
    /\ Goto(t, "worker")
    /\ UNCHANGED <<audit, table, call, history, counters>>

\* "with lock:", then the cache is looked up again.
Enter(t) ==
    /\ pc[t] = "enter"
    /\ held[call[t].lock] = NoThread
    /\ held' = [held EXCEPT ![call[t].lock] = t]
    /\ Goto(t, "lookup")
    /\ UNCHANGED <<audit, table, call, history, counters>>

CallWorker(t) ==
    /\ pc[t] = "worker"
    /\ runs' = [runs EXCEPT ![call[t].event] = @ + 1]
    /\ call' = [call EXCEPT ![t].status = runs'[call[t].event],
                            ![t].body = runs'[call[t].event]]
    /\ Goto(t, "working")
    /\ UNCHANGED <<audit, locking, faults, misread, stub, counters>>

WorkerReturns(t) ==
    /\ pc[t] = "working"
    /\ Goto(t, "record")
    /\ UNCHANGED <<audit, locking, call, history, counters>>

\* Mutant: the lock is not released when the worker raises.
WorkerRaisesHolding(t) ==
    /\ pc[t] = "working"
    /\ Fault("raise", call[t].event)
    /\ Goto(t, "idle")
    /\ UNCHANGED <<audit, locking, call, runs, misread, stub, requests>>

\* The exception propagates through "with lock:" and the finally clause.
WorkerRaises(t) ==
    /\ pc[t] = "working"
    /\ Fault("raise", call[t].event)
    /\ Goto(t, "unlock")
    /\ UNCHANGED <<audit, locking, call, runs, misread, stub, requests>>

\* handle returns, through the finally clause if it went into the try block.
AfterRecord(t) == IF Locked(t) THEN "unlock" ELSE "idle"

\* AuditLog.record after a run, and again on every hit.
Record(t) ==
    /\ pc[t] \in {"record", "hit"}
    /\ audit' = [audit EXCEPT ![call[t].event] = Row(call[t].status, call[t].body)]
    /\ Goto(t, AfterRecord(t))
    /\ UNCHANGED <<locking, call, history, counters>>

\* The write fails; the caller gets its response all the same.
RecordFails(t) ==
    /\ pc[t] \in {"record", "hit"}
    /\ Fault("write", call[t].event)
    /\ Goto(t, AfterRecord(t))
    /\ UNCHANGED <<audit, locking, call, runs, misread, stub, requests>>

Unlock(t) ==
    /\ pc[t] = "unlock"
    /\ held' = [held EXCEPT ![call[t].lock] = NoThread]
    /\ Goto(t, "release")
    /\ UNCHANGED <<audit, table, call, history, counters>>

\* Mutant: the entry is removed although other threads wait on its lock.
DroppedAlways(entry) == NoEntry

\* The entry after one reference is dropped: removed at zero.
Dropped(entry) == IF entry.refs <= 1 THEN NoEntry ELSE [entry EXCEPT !.refs = @ - 1]

\* _release_lock, under the meta-lock.
Release(t) ==
    LET e == call[t].event IN
    /\ pc[t] = "release"
    /\ table' = [table EXCEPT ![e] = Dropped(@)]
    /\ call' = [call EXCEPT ![t].lock = NoLock]
    /\ Goto(t, "idle")
    /\ UNCHANGED <<audit, held, history, counters>>

\* The process dies and starts again: the threads, the locks and their table
\* are gone, the audit log stays.
Restart ==
    /\ "restart" \in FaultKinds
    /\ budget > 0
    /\ budget' = budget - 1
    /\ \E t \in Threads : pc[t] # "idle"
    /\ table' = [e \in EventIds |-> NoEntry]
    /\ held' = [o \in Locks |-> NoThread]
    /\ pc' = [t \in Threads |-> "idle"]
    /\ call' = [t \in Threads |-> [call[t] EXCEPT !.lock = NoLock]]
    /\ faults' = [e \in EventIds |->
                    IF \E t \in Threads : call[t].event = e /\ pc[t] \in {"working", "record"}
                    THEN faults[e] + 1 ELSE faults[e]]
    /\ UNCHANGED <<audit, runs, misread, stub, requests>>

\* AuditLog.record_ack on the event id of a request: a new row has status 0 and
\* no body, an existing row keeps both.
RecordAck(e) ==
    /\ AckRows
    /\ ~audit[e].there
    /\ audit' = [audit EXCEPT ![e] = Row(0, 0)]
    /\ stub' = [stub EXCEPT ![e] = TRUE]
    /\ UNCHANGED <<locking, pc, call, runs, faults, misread, counters>>

\* The steps of handle that its thread takes by itself.
Proceed(t) ==
    \/ LookupRow(t)
    \/ LookupBody(t)
    \/ Acquire(t)
    \/ Enter(t)
    \/ CallWorker(t)
    \/ WorkerReturns(t)
    \/ Record(t)
    \/ Unlock(t)
    \/ Release(t)

Disturb(t) == LookupFails(t) \/ WorkerRaises(t) \/ RecordFails(t)

Next ==
    \/ \E t \in Threads : (\E e \in EventIds : Request(t, e)) \/ Proceed(t) \/ Disturb(t)
    \/ Restart
    \/ \E e \in EventIds : RecordAck(e)

Spec == Init /\ [][Next]_vars

\* Every runnable thread is scheduled, and workers terminate.
Fairness == \A t \in Threads : WF_vars(Proceed(t))

FairSpec == Spec /\ Fairness

------------------------------------------------------------------------------
\* Threads between _acquire_lock and _release_lock of event e.
Referents(e) == {t \in Threads : call[t].event = e /\ Locked(t)}

\* Threads inside "with lock:".
Inside(t) == Locked(t) /\ pc[t] \notin {"enter", "release"}

TypeOK ==
    /\ audit \in [EventIds -> [there : BOOLEAN, status : Nat, body : Nat]]
    /\ table \in [EventIds -> [lock : Locks \cup {NoLock}, refs : Nat]]
    /\ held \in [Locks -> Threads \cup {NoThread}]
    /\ pc \in [Threads -> {"idle", "lookup", "body", "hit", "acquire", "enter", "worker",
                           "working", "record", "unlock", "release"}]
    /\ call \in [Threads -> [event : EventIds, status : Nat, body : Nat,
                             lock : Locks \cup {NoLock}]]
    /\ runs \in [EventIds -> Nat] /\ faults \in [EventIds -> Nat]
    /\ misread \in [EventIds -> BOOLEAN] /\ stub \in [EventIds -> BOOLEAN]
    /\ requests \in Nat /\ budget \in Nat

\* Two requests with one event id never run the worker at the same time,
\* although lock entries are removed and created again meanwhile.
OneRunAtATime ==
    \A t, u \in Threads :
        t # u /\ call[t].event = call[u].event => ~(Inside(t) /\ Inside(u))

\* _event_locks is bounded by the requests in flight: an entry is there exactly
\* while threads hold or wait on its lock, counts them, and is the lock of all.
LockTableBounded ==
    \A e \in EventIds :
        /\ table[e].refs = Cardinality(Referents(e))
        /\ Referents(e) = {} => table[e] = NoEntry
        /\ \A t \in Referents(e) : call[t].lock = table[e].lock

\* What the per-event locks guarantee at all times.
LockSafety == TypeOK /\ OneRunAtATime /\ LockTableBounded

\* Every run of a worker beyond the first is paid for by a fault: a failed
\* audit write, a failed lookup, a raising worker or a dead process.
RunsExplainedByFaults == \A e \in EventIds : runs[e] <= 1 + faults[e]

\* The response that was persisted, status and body, is the one that later
\* duplicates persist again, unless a failed lookup let the worker run once
\* more.  Where the row began as an acknowledgement (record_ack stores status 0
\* and no body) a hit whose two SELECTs straddle the worker's record pairs that
\* 0 with the body and persists the pair: the status may fall to 0, and a hit
\* that read before may restore it.  The body stays even then.
PersistedResponseStays ==
    [][\A e \in EventIds : audit[e].body # 0 /\ ~misread[e] =>
        /\ audit'[e].body = audit[e].body
        /\ audit'[e].status \in
               IF stub[e] THEN {0, audit[e].body} ELSE {audit[e].status}]_vars

\* Every request returns or raises, whether it waits for a lock or not and
\* whatever its worker and the audit log do (the finally clause of handle).
EveryRequestReturns == \A t \in Threads : pc[t] # "idle" ~> pc[t] = "idle"
=============================================================================
