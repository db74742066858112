------------------------------- MODULE DualRead -------------------------------
(***************************************************************************)
(* Requests under dual read: DualReadSnapshotMiddleware on the event loop, *)
(* DualReadRouter.query on a handler thread, its two futures on the two    *)
(* workers of an executor of its own, the circuit breaker they all share,  *)
(* and the operator's reset, which the event loop runs.                    *)
(*                                                                         *)
(* Time is left out: an observation evicts any prefix of the breaker's     *)
(* window, which is what some course of the clocks makes it do, and        *)
(* waiting for the secondary may end while it still runs.  A secondary     *)
(* future that is cancelled before a worker takes it is one that runs and  *)
(* never ends, since nobody looks at it again.                             *)
(***************************************************************************)
EXTENDS Naturals, Sequences, FiniteSets

CONSTANTS
    Requests,     \* HTTP requests, each of one query
    MinObs,       \* MIN_OBSERVATIONS
    TripPercent,  \* TRIP_THRESHOLD, in percent
    MaxResets     \* bound: resets by the operator

ASSUME DualReadAssumption ==
    MinObs \in Nat \ {0} /\ TripPercent \in Nat /\ MaxResets \in Nat

VARIABLES
    enabled,    \* the DUAL_READ flag of the environment, which nothing writes
    tripped,    \* BreakerState.tripped
    window,     \* BreakerState._observations: whether each was unreachable
    trips,      \* circuit_breaker_tripped_total
    pc,         \* where each request is
    snapshot,   \* request.state.dual_read
    primary,    \* how the canonical query of each request ended
    secondary,  \* the secondary future of each request
    outcome,    \* DualReadOutcome
    answer,     \* what the caller got
    admin,      \* the reset handler: [pc, was], was being was_tripped
    resets,     \* resets so far (bound)
    cleared,    \* history: resets that found the breaker tripped
    recorded,   \* history: observations since the last reset
    entry,      \* history: the breaker when the request entered
    bugTrace    \* a CHANGE_TRACE of legacy kind "bug", once query has looked

vars == <<enabled, tripped, window, trips, pc, snapshot, primary, secondary,
          outcome, answer, admin, resets, cleared, recorded, entry, bugTrace>>

Init ==
    /\ enabled \in BOOLEAN
    /\ tripped = FALSE
    /\ window = <<>>
    /\ trips = 0
    /\ pc = [r \in Requests |-> "idle"]
    /\ snapshot = [r \in Requests |-> FALSE]
    /\ primary = [r \in Requests |-> "none"]
    /\ secondary = [r \in Requests |-> "none"]
    /\ outcome = [r \in Requests |-> "none"]
    /\ answer = [r \in Requests |-> "none"]
    /\ admin = [pc |-> "idle", was |-> FALSE]
    /\ resets = 0
    /\ cleared = 0
    /\ recorded = 0
    /\ entry = [r \in Requests |-> "none"]
    /\ bugTrace = [r \in Requests |-> FALSE]

breaker == <<tripped, window, trips, recorded>>
operator == <<admin, resets, cleared>>
inputs == <<entry, bugTrace>>

Goto(r, s) == pc' = [pc EXCEPT ![r] = s]

------------------------------------------------------------------------------
\* The middleware: the breaker is read once, at the boundary of the request.
\* The event loop is not inside the reset handler, which never awaits.
Enter(r) ==
    /\ pc[r] = "idle" /\ admin.pc = "idle"
    /\ snapshot' = [snapshot EXCEPT ![r] = enabled /\ ~tripped]
    /\ entry' = [entry EXCEPT ![r] = IF tripped THEN "open" ELSE "closed"]
    /\ Goto(r, "handler")
    /\ UNCHANGED <<enabled, primary, secondary, outcome, answer, breaker, operator, bugTrace>>

\* Mutant: the handler asks the breaker itself and not the snapshot.
AsksBreaker(r) == enabled /\ ~tripped

WantsDual(r) == snapshot[r]

\* query: the primary alone, inline, when dual read is off, and for a trace of a
\* bug (the Q5 short-circuit); else both queries on the executor.
Dispatch(r) ==
    /\ pc[r] = "handler"
    /\ \E bug \in BOOLEAN :
        \/ /\ WantsDual(r) /\ ~bug
           /\ secondary' = [secondary EXCEPT ![r] = "running"]
           /\ Goto(r, "primary")
           /\ UNCHANGED bugTrace
        \/ /\ WantsDual(r) /\ bug
           /\ bugTrace' = [bugTrace EXCEPT ![r] = TRUE]
           /\ Goto(r, "inline")
           /\ UNCHANGED secondary
        \/ /\ ~WantsDual(r)
           /\ Goto(r, "inline")
           /\ UNCHANGED <<secondary, bugTrace>>
    /\ UNCHANGED <<enabled, snapshot, primary, outcome, answer, breaker, operator, entry>>

\* The canonical query returns or raises.
PrimaryEnds(r, s) ==
    /\ pc[r] \in {"inline", "primary"} /\ primary[r] = "none"
    /\ primary' = [primary EXCEPT ![r] = s]
    /\ UNCHANGED <<enabled, pc, snapshot, secondary, outcome, answer, breaker, operator, inputs>>

\* How the secondary can end: hits that compare as equal or not, an
\* AphelionUnreachableError, or a fault: another exception, or hits that
\* cannot be compared.
SecondaryEnd == {"compared", "unreachable", "faulty"}

\* The secondary query ends, whoever still waits for it.
SecondaryEnds(r, e) ==
    /\ secondary[r] = "running"
    /\ secondary' = [secondary EXCEPT ![r] = e]
    /\ UNCHANGED <<enabled, pc, snapshot, primary, outcome, answer, breaker, operator, inputs>>

\* The canonical query raised: the error propagates, nothing is observed.
Propagate(r) ==
    /\ pc[r] \in {"inline", "primary"} /\ primary[r] = "error"
    /\ answer' = [answer EXCEPT ![r] = "error"]
    /\ Goto(r, "done")
    /\ UNCHANGED <<enabled, snapshot, primary, secondary, outcome, breaker, operator, inputs>>

\* The canonical query returned: the skipped path is over, the dual path waits.
AwaitPrimary(r) ==
    /\ primary[r] = "result"
    /\ \/ /\ pc[r] = "inline"
          /\ outcome' = [outcome EXCEPT ![r] = "skipped"]
          /\ answer' = [answer EXCEPT ![r] = "result"]
          /\ Goto(r, "done")
       \/ /\ pc[r] = "primary"
          /\ Goto(r, "secondary")
          /\ UNCHANGED <<outcome, answer>>
    /\ UNCHANGED <<enabled, snapshot, primary, secondary, breaker, operator, inputs>>

Outcome ==
    [compared |-> "match or diverge", faulty |-> "primary_only",
     unreachable |-> "aphelion_unreachable"]

\* Mutant: an exception of the comparison propagates.
ClassifyUnguarded(r) ==
    /\ outcome' = [outcome EXCEPT ![r] = Outcome[secondary[r]]]
    /\ IF secondary[r] = "faulty"
       THEN answer' = [answer EXCEPT ![r] = "error"] /\ Goto(r, "done")
       ELSE Goto(r, "record") /\ UNCHANGED answer

Classify(r) ==
    /\ outcome' = [outcome EXCEPT ![r] = Outcome[secondary[r]]]
    /\ Goto(r, "record")
    /\ UNCHANGED answer

\* The secondary ended in time.
SecondaryInTime(r) ==
    /\ pc[r] = "secondary" /\ secondary[r] \in SecondaryEnd
    /\ Classify(r)
    /\ UNCHANGED <<enabled, snapshot, primary, secondary, breaker, operator, inputs>>

\* Mutant: wait without a timeout.
NeverTimesOut(r) == FALSE

TimesOut(r) == secondary[r] = "running"

\* wait(secondary_timeout_s) ends first.
SecondaryTimeout(r) ==
    /\ pc[r] = "secondary" /\ TimesOut(r)
    /\ outcome' = [outcome EXCEPT ![r] = "aphelion_unreachable"]
    /\ Goto(r, "record")
    /\ UNCHANGED <<enabled, snapshot, primary, secondary, answer, breaker, operator, inputs>>

\* The rate of unreachable observations exceeds TRIP_THRESHOLD.
Exceeds(kept) ==
    /\ Len(kept) >= MinObs
    /\ 100 * Cardinality({i \in DOMAIN kept : kept[i]}) > TripPercent * Len(kept)

\* Mutant: a tripped breaker counts further breaches as further trips.
CountsAgain(kept) ==
    IF Exceeds(kept) THEN tripped' = TRUE /\ trips' = trips + 1
    ELSE UNCHANGED <<tripped, trips>>

Trip(kept) ==
    IF ~tripped /\ Exceeds(kept) THEN tripped' = TRUE /\ trips' = trips + 1
    ELSE UNCHANGED <<tripped, trips>>

\* record_unreachable_observation under the lock, after which query returns
\* the canonical result.
Record(r) ==
    /\ pc[r] = "record"
    /\ \E k \in 0 .. Len(window) :
           LET kept == Append(SubSeq(window, k + 1, Len(window)),
                              outcome[r] = "aphelion_unreachable")
           IN  window' = kept /\ Trip(kept)
    /\ recorded' = recorded + 1
    /\ answer' = [answer EXCEPT ![r] = "result"]
    /\ Goto(r, "done")
    /\ UNCHANGED <<enabled, snapshot, primary, secondary, outcome, operator, inputs>>

------------------------------------------------------------------------------
\* POST /admin/circuit_breaker/reset: is_tripped, then reset, each under the
\* lock; handler threads may record in between.
ReadTripped ==
    /\ admin.pc = "idle" /\ resets < MaxResets
    /\ admin' = [pc |-> "read", was |-> tripped]
    /\ resets' = resets + 1
    /\ UNCHANGED <<enabled, pc, snapshot, primary, secondary, outcome, answer, breaker, cleared, inputs>>

ClearWindow == window' = <<>>

Reset ==
    /\ admin.pc = "read"
    /\ tripped' = FALSE
    /\ ClearWindow
    /\ cleared' = cleared + (IF tripped THEN 1 ELSE 0)
    /\ recorded' = 0
    /\ admin' = [admin EXCEPT !.pc = "idle"]
    /\ UNCHANGED <<enabled, trips, pc, snapshot, primary, secondary, outcome, answer, resets, inputs>>

\* A step of the handler thread of r.
Handle(r) ==
    \/ Dispatch(r) \/ Propagate(r) \/ AwaitPrimary(r)
    \/ SecondaryInTime(r) \/ SecondaryTimeout(r) \/ Record(r)

Next ==
    \/ \E r \in Requests :
        \/ Enter(r)
        \/ Handle(r)
        \/ \E s \in {"result", "error"} : PrimaryEnds(r, s)
        \/ \E e \in SecondaryEnd : SecondaryEnds(r, e)
    \/ ReadTripped
    \/ Reset

Spec == Init /\ [][Next]_vars

\* Handler threads are scheduled, the canonical store answers (the code awaits
\* it without a timeout); nothing is assumed of the secondary.
Fairness ==
    \A r \in Requests :
        /\ WF_vars(Handle(r))
        /\ WF_vars(\E s \in {"result", "error"} : PrimaryEnds(r, s))

FairSpec == Spec /\ Fairness

------------------------------------------------------------------------------
TypeOK ==
    /\ enabled \in BOOLEAN /\ tripped \in BOOLEAN
    /\ window \in Seq(BOOLEAN)
    /\ trips \in Nat /\ resets \in 0 .. MaxResets /\ cleared \in Nat /\ recorded \in Nat
    /\ pc \in [Requests -> {"idle", "handler", "inline", "primary", "secondary", "record", "done"}]
    /\ snapshot \in [Requests -> BOOLEAN]
    /\ primary \in [Requests -> {"none", "result", "error"}]
    /\ secondary \in [Requests -> {"none", "running"} \cup SecondaryEnd]
    /\ outcome \in [Requests -> {"none", "skipped", "match or diverge", "primary_only",
                                 "aphelion_unreachable"}]
    /\ answer \in [Requests -> {"none", "result", "error"}]
    /\ admin \in [pc : {"idle", "read"}, was : BOOLEAN]
    /\ entry \in [Requests -> {"none", "open", "closed"}]
    /\ bugTrace \in [Requests -> BOOLEAN]

\* The counter of trips is exact: one for every trip that a reset has cleared
\* and one for the present one, however many threads record at once.
TripsAreCountedOnce == trips = cleared + (IF tripped THEN 1 ELSE 0)

\* A breaker is open on at least MIN_OBSERVATIONS observations recorded since
\* the last reset, the late ones of earlier requests included.
TripNeedsFreshWindow == tripped => recorded >= MinObs

\* The secondary is queried for the requests that entered under a closed
\* breaker, traces of bugs apart, and for them only: neither a trip nor a reset
\* while a request is in flight changes the route it takes.
SnapshotDecides ==
    \A r \in Requests :
        /\ secondary[r] # "none" => enabled /\ entry[r] = "closed" /\ ~bugTrace[r]
        /\ outcome[r] = "skipped" => ~(enabled /\ entry[r] = "closed") \/ bugTrace[r]

\* A reset that reports was_tripped does clear a trip: nothing else can have
\* cleared it between the handler's two looks at the breaker.
ReportedTripIsCleared == admin.pc = "read" /\ admin.was => tripped

\* What the breaker guarantees at all times.
BreakerSafety == TypeOK /\ TripsAreCountedOnce /\ TripNeedsFreshWindow /\ ReportedTripIsCleared

Canonical == INSTANCE CanonicalRead

\* Whatever the secondary does, and however late, the caller gets what the
\* canonical store said (query's invariant).
ImplementsCanonicalRead == Canonical!Spec

\* Every request is answered, although the secondary may never end.
EveryRequestAnswered == \A r \in Requests : pc[r] = "handler" ~> pc[r] = "done"
=============================================================================
