---------------------------- MODULE RollingWindow ----------------------------
(***************************************************************************)
(* The rolling window that the circuit breaker (BreakerState) and the live *)
(* discrepancy counter (LiveDiscrepancyCounter) keep: a deque of stamped   *)
(* observations under a lock.  The clock is read before the lock is taken, *)
(* so threads may append in another order than they stamped.               *)
(***************************************************************************)
EXTENDS Naturals, Sequences

CONSTANTS Recorders,  \* threads that observe
          Readers,    \* threads that ask for a rate
          Width,      \* WINDOW_SECONDS, window_seconds
          MaxClock,   \* bound: the clock stops there
          MaxEntries  \* bound: observations in all

ASSUME WindowAssumption ==
  Width \in Nat /\ MaxClock \in Nat /\ MaxEntries \in Nat

VARIABLES clock,      \* time.monotonic()
          deque,      \* the stamps, in the order they were appended
          entries,    \* appended so far
          stamp,      \* stamp[t]: {} or {the clock t read before the lock}
          counted     \* counted[r]: what r's last rate was computed from

windowVars == <<clock, deque, entries, stamp, counted>>

Nothing == [since |-> 0, of |-> <<>>]

WindowTypeOK ==
  /\ clock \in 0..MaxClock /\ entries \in 0..MaxEntries
  /\ deque \in Seq(0..clock) /\ Len(deque) <= MaxEntries
  /\ \A t \in Recorders \union Readers : stamp[t] \subseteq 0..clock
  /\ \A r \in Readers : counted[r].of \in Seq(0..clock)

WindowInit ==
  /\ clock = 0 /\ deque = <<>> /\ entries = 0
  /\ stamp = [t \in Recorders \union Readers |-> {}]
  /\ counted = [r \in Readers |-> Nothing]

Tick == clock < MaxClock /\ clock' = clock + 1 /\ UNCHANGED <<deque, entries, stamp, counted>>

(* time.monotonic(), before the lock.                                      *)
Stamp(t) ==
  /\ stamp[t] = {}
  /\ stamp' = [stamp EXCEPT ![t] = {clock}]
  /\ UNCHANGED <<clock, deque, entries, counted>>

Cutoff(s) == IF s < Width THEN 0 ELSE s - Width

\* Mutant: nothing is evicted.
TrimmedNever(d, since) == d

(* The left end is popped while it is strictly older than the cutoff.      *)
Trimmed(d, since) ==
  IF \E i \in DOMAIN d : d[i] >= since
    THEN LET first == CHOOSE i \in DOMAIN d :
                        d[i] >= since /\ \A j \in 1..(i - 1) : d[j] < since
         IN  SubSeq(d, first, Len(d))
    ELSE <<>>

Observe(t) ==
  \E s \in stamp[t] :
    /\ entries < MaxEntries /\ entries' = entries + 1
    /\ deque' = Trimmed(Append(deque, s), Cutoff(s))
    /\ stamp' = [stamp EXCEPT ![t] = {}]
    /\ UNCHANGED <<clock, counted>>

(* _in_window; the breaker's current_unreachable_rate is the case where the*)
(* clock does not move between the stamp and the lock.                     *)
Rate(r) ==
  \E s \in stamp[r] :
    LET kept == Trimmed(deque, Cutoff(s)) IN
    /\ deque' = kept
    /\ counted' = [counted EXCEPT ![r] = [since |-> Cutoff(s), of |-> kept]]
    /\ stamp' = [stamp EXCEPT ![r] = {}]
    /\ UNCHANGED <<clock, entries>>

WindowNext ==
  \/ Tick
  \/ \E t \in Recorders \union Readers : Stamp(t)
  \/ \E t \in Recorders : Observe(t)
  \/ \E r \in Readers : Rate(r)

WindowSpec == WindowInit /\ [][WindowNext]_windowVars

(* ------------------------------ properties ----------------------------- *)

(* An observation older than the window is counted only behind a younger   *)
(* one, that is, if its thread was overtaken between the clock and the     *)
(* lock; hence a window nobody adds to drains to no data (#116).           *)
StaleOnlyIfOvertaken ==
  \A r \in Readers : \A i \in DOMAIN counted[r].of :
    counted[r].of[i] < counted[r].since =>
      \E j \in 1..(i - 1) : counted[r].of[j] >= counted[r].since

(* What a rate is made of.                                                 *)
WindowSafety == WindowTypeOK /\ StaleOnlyIfOvertaken
=============================================================================
