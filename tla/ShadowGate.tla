----------------------------- MODULE ShadowGate -----------------------------
(***************************************************************************)
(* The canary shadow observer and the gate computed from its counters:     *)
(* canary_shadow.observe runs on the request threads and counts an attempt *)
(* and then its outcome; `parallax canary --dod` asks Prometheus three     *)
(* questions one after the other (compute_shadow_dod).  One stage.         *)
(*                                                                         *)
(* Prometheus is external: a query answers with the counter of that moment *)
(* or not at all.  The days that leave the trailing window while the three *)
(* queries run are left out.                                               *)
(***************************************************************************)
EXTENDS Naturals, FiniteSets

CONSTANTS Observers,     \* request threads
          MinFloor,      \* _MIN_HITS_FLOOR
          RatePercent,   \* both rate thresholds, in percent
          MaxAttempts    \* bound: observations in all

ASSUME ShadowAssumption ==
  /\ IsFiniteSet(Observers)
  /\ MinFloor \in Nat /\ RatePercent \in Nat /\ MaxAttempts \in Nat

VARIABLES attempts,      \* parallax_canary_shadow_attempts_total
          outcomes,      \* parallax_canary_shadow_outcomes_total, by outcome
          observer,      \* observer[t]: the outcome still to be counted, or "none"
          report,        \* compute_shadow_dod: [pc, attempts, diverge, unreachable]
          asked          \* history: the counters when attempts was asked for

shadowVars == <<attempts, outcomes, observer, report, asked>>

Outcomes == {"match", "diverge", "primary_only", "aphelion_unreachable"}

Unanswered == MaxAttempts + 1   \* None: no counter has this value
NoReport == [pc |-> "idle", attempts |-> Unanswered, diverge |-> Unanswered,
             unreachable |-> Unanswered]

ShadowTypeOK ==
  /\ attempts \in 0..MaxAttempts
  /\ outcomes \in [Outcomes -> 0..MaxAttempts]
  /\ observer \in [Observers -> Outcomes \union {"none"}]
  /\ report.pc \in {"idle", "diverge", "unreachable", "pass", "fail", "insufficient"}
  /\ asked \in [Outcomes -> 0..MaxAttempts]

ShadowInit ==
  /\ attempts = 0 /\ outcomes = [o \in Outcomes |-> 0]
  /\ observer = [t \in Observers |-> "none"]
  /\ report = NoReport /\ asked = outcomes

(* A sampled result; the skipped ones are not an observation.  The fraction*)
(* and the dice are the choice of taking this step.                        *)
CountAttempt(t, o) ==
  /\ observer[t] = "none" /\ attempts < MaxAttempts
  /\ attempts' = attempts + 1
  /\ observer' = [observer EXCEPT ![t] = o]
  /\ UNCHANGED <<outcomes, report, asked>>

CountOutcome(t) ==
  /\ observer[t] # "none"
  /\ outcomes' = [outcomes EXCEPT ![observer[t]] = @ + 1]
  /\ observer' = [observer EXCEPT ![t] = "none"]
  /\ UNCHANGED <<attempts, report, asked>>

(* An empty result has no series and so no value; only the numerators fall *)
(* back to zero (`or on() vector(0)`).                                     *)
AskAttempts(answers) ==
  /\ report.pc \in {"idle", "pass", "fail", "insufficient"}
  /\ report' = [NoReport EXCEPT !.pc = "diverge",
       !.attempts = IF answers /\ attempts > 0 THEN attempts ELSE Unanswered]
  /\ asked' = outcomes
  /\ UNCHANGED <<attempts, outcomes, observer>>

AskDiverge(answers) ==
  /\ report.pc = "diverge"
  /\ report' = [report EXCEPT !.pc = "unreachable",
       !.diverge = IF answers THEN outcomes["diverge"] ELSE Unanswered]
  /\ UNCHANGED <<attempts, outcomes, observer, asked>>

Rates(r) == {r.diverge, r.unreachable}

\* Mutant: a rate without an answer is no reason against a pass.
VerdictWithoutRates(r) ==
  IF r.attempts = Unanswered \/ r.attempts < MinFloor
    THEN "insufficient"
  ELSE IF \E n \in Rates(r) : n # Unanswered /\ 100 * n >= RatePercent * r.attempts
    THEN "fail" ELSE "pass"

Verdict(r) ==
  IF r.attempts = Unanswered \/ r.attempts < MinFloor
    THEN "insufficient"
  ELSE IF \E n \in Rates(r) : n # Unanswered /\ 100 * n >= RatePercent * r.attempts
    THEN "fail"
  ELSE IF Unanswered \in Rates(r) THEN "insufficient" ELSE "pass"

AskUnreachable(answers) ==
  LET r == [report EXCEPT !.unreachable =
              IF answers THEN outcomes["aphelion_unreachable"] ELSE Unanswered]
  IN
  /\ report.pc = "unreachable"
  /\ report' = [r EXCEPT !.pc = Verdict(r)]
  /\ UNCHANGED <<attempts, outcomes, observer, asked>>

ShadowNext ==
  \/ \E t \in Observers : CountOutcome(t) \/ \E o \in Outcomes : CountAttempt(t, o)
  \/ \E answers \in BOOLEAN :
       AskAttempts(answers) \/ AskDiverge(answers) \/ AskUnreachable(answers)

ShadowSpec == ShadowInit /\ [][ShadowNext]_shadowVars

(* ------------------------------ properties ----------------------------- *)

(* A rate read from the counters is at most one: an attempt is counted     *)
(* before its outcome, and the threads that are in between explain the gap.*)
EveryOutcomeWasAnAttempt ==
  outcomes["match"] + outcomes["diverge"] + outcomes["primary_only"]
    + outcomes["aphelion_unreachable"] <= attempts

(* A pass holds of one moment, although three queries at three moments made*)
(* it: the denominator is read first, so late outcomes can only worsen the *)
(* rate, and an outage never passes.                                       *)
ShadowPassIsSound ==
  report.pc = "pass" =>
    /\ report.attempts # Unanswered /\ report.attempts >= MinFloor
    /\ Unanswered \notin Rates(report)
    /\ 100 * asked["diverge"] < RatePercent * report.attempts
    /\ 100 * asked["aphelion_unreachable"] < RatePercent * report.attempts

(* What the counters and a verdict over them promise.                      *)
ShadowSafety == ShadowTypeOK /\ EveryOutcomeWasAnAttempt /\ ShadowPassIsSound
=============================================================================
