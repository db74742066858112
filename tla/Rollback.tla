------------------------------- MODULE Rollback -------------------------------
(***************************************************************************)
(* The canary's RollbackController: request threads record samples, a      *)
(* scheduler evaluates the triggers, an operator acknowledges, and the     *)
(* process may be restarted over the row that RollbackStateStore keeps.    *)
(*                                                                         *)
(* Every timestamp is kept as its age, the ticks since it was read, so     *)
(* that time has no end and the state space has one: ages beyond OldAge    *)
(* are alike.  The rates of T1-T3 are abstracted: a window breaches        *)
(* exactly when it holds a bad sample, which is what their thresholds      *)
(* (0.5%, 0.5%, the p99) say of a window of fewer than 100 samples.        *)
(***************************************************************************)
EXTENDS Naturals, Sequences, FiniteSets

CONSTANTS
    Threads,      \* threads that observe requests or evaluate
    Triggers,     \* the windowed triggers: T1, T2, T3
    Window,       \* the window of each trigger, in ticks
    GateWindow,   \* the window of the gate T5, in ticks
    MinHits,      \* T5_MIN_HITS
    Cooldown,     \* COOLDOWN_SECONDS, in ticks
    OldAge,       \* bound: ages from here on are alike
    MaxLag,       \* bound: ticks between reading the clock and taking the lock
    MaxSamples,   \* bound: samples held by the gate's window
    MaxLoss,      \* bound: data losses counted since the last reset
    MaxRestarts,  \* bound: restarts of the process
    WritesFail    \* whether an upsert of the durable row may fail

ASSUME RollbackAssumption ==
    /\ Window \in [Triggers -> Nat]
    /\ GateWindow \in Nat /\ Cooldown \in Nat /\ MinHits \in Nat
    /\ WritesFail \in BOOLEAN
    /\ OldAge \in Nat
    /\ \A g \in Triggers : MaxLag + Window[g] < OldAge
    /\ MaxLag + GateWindow < OldAge /\ MaxLag + Cooldown < OldAge
    /\ MaxLag \in Nat /\ MaxSamples \in Nat /\ MaxLoss \in Nat /\ MaxRestarts \in Nat

VARIABLES
    state,      \* CanaryState
    trippedAge, \* age of _tripped_at, 0 while there is none
    hits,       \* the deque of T5
    windows,    \* the deques of T1-T3: samples [age, bad]
    loss,       \* the counter of T4
    durable,    \* the state column of canary_rollback_state
    missed,     \* history: the last upsert of that row failed
    pc,         \* "idle", "observe" or "evaluate": read the clock, not the lock
    lag,        \* age of the timestamp the thread has read
    fresh,      \* history: bad samples or losses recorded since the last reset
    restarts    \* restarts so far (bound)

vars == <<state, trippedAge, hits, windows, loss, durable, missed, pc, lag, fresh, restarts>>

Cleared == [g \in Triggers |-> <<>>]

Init ==
    /\ state = "running"
    /\ trippedAge = 0
    /\ hits = <<>>
    /\ windows = Cleared
    /\ loss = 0
    /\ durable = "running"
    /\ missed = FALSE
    /\ pc = [t \in Threads |-> "idle"]
    /\ lag = [t \in Threads |-> 0]
    /\ fresh = FALSE
    /\ restarts = 0

------------------------------------------------------------------------------
\* clock() at the head of observe_request or evaluate, before "with self._lock".
ReadClock(t, s) ==
    /\ pc[t] = "idle"
    /\ s = "observe" => Len(hits) + Cardinality({u \in Threads : pc[u] = "observe"}) < MaxSamples
    /\ pc' = [pc EXCEPT ![t] = s]
    /\ UNCHANGED <<state, trippedAge, hits, windows, loss, durable, missed, lag, fresh, restarts>>

\* The thread is done; its timestamp is dropped.
Done(t) ==
    /\ pc' = [pc EXCEPT ![t] = "idle"]
    /\ lag' = [lag EXCEPT ![t] = 0]

\* observe_request: one sample for every window, in the order of the lock.
Observe(t, bad) ==
    /\ pc[t] = "observe"
    /\ hits' = Append(hits, [age |-> lag[t], bad |-> FALSE])
    /\ windows' = [w \in Triggers |-> Append(windows[w], [age |-> lag[t], bad |-> w \in bad])]
    /\ fresh' = (fresh \/ bad # {})
    /\ Done(t)
    /\ UNCHANGED <<state, trippedAge, loss, durable, missed, restarts>>

\* observe_data_loss.
ObserveLoss ==
    /\ loss < MaxLoss
    /\ loss' = loss + 1
    /\ fresh' = TRUE
    /\ UNCHANGED <<state, trippedAge, hits, windows, durable, missed, pc, lag, restarts>>

\* Mutant: nothing is evicted while the newest sample is inside the window.
EvictLazily(deque, width, g) ==
    IF deque # <<>> /\ deque[Len(deque)].age <= g + width THEN deque ELSE <<>>

\* _SlidingWindow._evict for a reader whose timestamp has age g: pops from the
\* left until the head is inside the window.
Evict(deque, width, g) ==
    LET Young == {i \in DOMAIN deque : deque[i].age <= g + width}
    IN  IF Young = {} THEN <<>>
        ELSE SubSeq(deque, CHOOSE i \in Young : \A j \in Young : i <= j, Len(deque))

\* T5 is active: verdicts are downgraded to "insufficient data".
Gated(kept) == Len(kept) < MinHits

\* Some trigger's verdict is BREACH.
Breach(kept) ==
    \/ \E w \in Triggers : \E i \in DOMAIN kept[w] : kept[w][i].bad
    \/ loss > 0

\* Mutant: a breach while tripped trips again, and the cooldown starts over.
TripsAgain(keptHits, kept) == state # "awaiting_ack" /\ ~Gated(keptHits) /\ Breach(kept)

Trips(keptHits, kept) == state = "running" /\ ~Gated(keptHits) /\ Breach(kept)

CooledDown(g) == state = "tripped" /\ trippedAge >= g + Cooldown

\* _persist_state: the single row is upserted; a failure is swallowed.
Persist(s) ==
    \/ durable' = s /\ missed' = FALSE
    \/ WritesFail /\ missed' = TRUE /\ UNCHANGED durable

\* evaluate.
Evaluate(t) ==
    LET g == lag[t]
        keptHits == Evict(hits, GateWindow, g)
        kept == [w \in Triggers |-> Evict(windows[w], Window[w], g)]
    IN
    /\ pc[t] = "evaluate"
    /\ hits' = keptHits
    /\ windows' = kept
    /\ \/ /\ Trips(keptHits, kept)
          /\ state' = "tripped" /\ trippedAge' = g /\ Persist("tripped")
       \/ /\ ~Trips(keptHits, kept) /\ CooledDown(g)
          /\ state' = "awaiting_ack" /\ Persist("awaiting_ack") /\ UNCHANGED trippedAge
       \/ /\ ~Trips(keptHits, kept) /\ ~CooledDown(g)
          /\ UNCHANGED <<state, trippedAge, durable, missed>>
    /\ Done(t)
    /\ UNCHANGED <<loss, fresh, restarts>>

\* Mutant: acknowledge does not reset the triggers.
ResetTriggersNot == windows' = windows /\ loss' = loss

\* T1-T4 forget their evidence; T5 keeps its samples.
ResetTriggers == windows' = Cleared /\ loss' = 0

\* Mutant: the dashboard row is not written on an acknowledgement.
PersistAckNot == UNCHANGED durable /\ missed' = FALSE

PersistAck == Persist("running")

\* acknowledge by a named operator.
Acknowledge ==
    /\ state = "awaiting_ack"
    /\ state' = "running"
    /\ trippedAge' = 0
    /\ PersistAck
    /\ ResetTriggers
    /\ fresh' = FALSE
    /\ UNCHANGED <<hits, pc, lag, restarts>>

\* A new process: __init__ starts in "running", without samples, and writes
\* that state over the durable row.
Restart ==
    /\ restarts < MaxRestarts
    /\ restarts' = restarts + 1
    /\ state' = "running"
    /\ trippedAge' = 0
    /\ hits' = <<>>
    /\ windows' = Cleared
    /\ loss' = 0
    /\ Persist("running")
    /\ pc' = [t \in Threads |-> "idle"]
    /\ lag' = [t \in Threads |-> 0]
    /\ fresh' = FALSE

Older(a) == IF a < OldAge THEN a + 1 ELSE a
Aged(deque) == [i \in DOMAIN deque |-> [deque[i] EXCEPT !.age = Older(@)]]

\* Time passes, for every timestamp alike.
Tick ==
    /\ \A t \in Threads : lag[t] < MaxLag
    /\ trippedAge' = IF state = "running" THEN 0 ELSE Older(trippedAge)
    /\ hits' = Aged(hits)
    /\ windows' = [w \in Triggers |-> Aged(windows[w])]
    /\ lag' = [t \in Threads |-> IF pc[t] = "idle" THEN 0 ELSE lag[t] + 1]
    /\ UNCHANGED <<state, loss, durable, missed, pc, fresh, restarts>>

Next ==
    \/ \E t \in Threads :
        \/ \E s \in {"observe", "evaluate"} : ReadClock(t, s)
        \/ \E bad \in SUBSET Triggers : Observe(t, bad)
        \/ Evaluate(t)
    \/ ObserveLoss
    \/ Acknowledge
    \/ Restart
    \/ Tick

Spec == Init /\ [][Next]_vars

\* The scheduler calls evaluate again and again, whoever else takes the lock;
\* threads that have read the clock get the lock; time passes.
Fairness ==
    /\ \A t \in Threads : /\ SF_vars(ReadClock(t, "evaluate"))
                          /\ WF_vars(Evaluate(t) \/ \E bad \in SUBSET Triggers : Observe(t, bad))
    /\ WF_vars(Tick)

FairSpec == Spec /\ Fairness

------------------------------------------------------------------------------
Deque == Seq([age : 0 .. OldAge, bad : BOOLEAN])

TypeOK ==
    /\ state \in {"running", "tripped", "awaiting_ack"}
    /\ durable \in {"running", "tripped", "awaiting_ack"}
    /\ trippedAge \in 0 .. OldAge
    /\ hits \in Deque
    /\ windows \in [Triggers -> Deque]
    /\ missed \in BOOLEAN
    /\ loss \in Nat /\ fresh \in BOOLEAN /\ restarts \in Nat
    /\ pc \in [Threads -> {"idle", "observe", "evaluate"}]
    /\ lag \in [Threads -> 0 .. MaxLag]

\* A controller that tripped did so on evidence recorded since the operator's
\* last acknowledgement: acknowledge leaves nothing behind that trips again,
\* although T5 keeps its samples and observers wait for the lock meanwhile.
TripNeedsFreshEvidence == state = "tripped" => fresh

\* The row that the dashboard reads names the controller's state at all times,
\* except after a failed write, until the next one (_persist_state under the
\* controller's lock).
DashboardAgrees == ~missed => durable = state

\* No evaluation counts a sample that was older than the window by more than
\* the time an observer may have waited for the lock, although the deque is
\* in the order of the lock and not of the timestamps.
StaleEvidenceIsBounded ==
    [][\A t \in Threads : pc[t] = "evaluate" /\ pc'[t] = "idle" /\ restarts' = restarts =>
         /\ \A i \in DOMAIN hits' : hits'[i].age <= GateWindow + lag[t] + MaxLag
         /\ \A w \in Triggers : \A i \in DOMAIN windows'[w] :
                windows'[w][i].age <= Window[w] + lag[t] + MaxLag]_vars

\* A tripped controller that is not restarted any more reaches "awaiting_ack",
\* whatever samples and losses arrive meanwhile (the cooldown runs from the
\* first breach).
TrippedAwaitsAck ==
    state = "tripped" /\ restarts = MaxRestarts ~> state = "awaiting_ack"

\* rollback.py: the controller must not auto-recover, the only path back to
\* running is acknowledge.  Here of the durable state, over a restart.
OnlyAckRecovers ==
    [][durable # "running" /\ durable' = "running" => Acknowledge]_vars
=============================================================================
