-------------------------- MODULE Telemetry_proofs ---------------------------
(*****************************************************************************)
(* The shadow counters, the observer logs, the rolling window and the canary*)
(* exporter with its gates, for any number of threads, queries, stages and *)
(* events and any thresholds.                                              *)
(*****************************************************************************)
EXTENDS Canary, ShadowGate, Observers, RollingWindow, FiniteSetTheorems,
        FunctionTheorems, SequenceTheorems, WellFoundedInduction, TLAPS

\* The members of S below m.
BelowIn(S, m) == {k \in S : k < m}

\* A set of numbers has a least one.
LEMMA LeastElement ==
    ASSUME NEW S \in SUBSET Nat, S # {}
    PROVE  \E m \in S : \A k \in S : m <= k
<1> DEFINE T == {BelowIn(S, m) : m \in S}
<1>0. \A m \in S : m \in Nat
  OBVIOUS
<1>1. \A m \in S : IsFiniteSet(BelowIn(S, m))
  <2> SUFFICES ASSUME NEW m \in S PROVE IsFiniteSet(BelowIn(S, m)) OBVIOUS
  <2>1. \A k \in BelowIn(S, m) : k \in Nat /\ k <= m
    BY <1>0 DEF BelowIn
  <2> QED BY <1>0, <2>1, FS_BoundedSetOfNaturals
<1>2. T \subseteq FiniteSubsetsOf(S)
  BY <1>1 DEF FiniteSubsetsOf, BelowIn
<1>3. PICK x \in T : \A y \in T : ~(<<y, x>> \in StrictSubsetOrdering(S))
  <2>1. T # {} OBVIOUS
  <2> HIDE DEF T
  <2> QED BY <1>2, <2>1, FS_StrictSubsetOrderingWellFounded, WFMin
<1>4. PICK m \in S : x = BelowIn(S, m)
  OBVIOUS
<1>5. ASSUME NEW k \in S, k < m PROVE FALSE
  <2>1. BelowIn(S, k) \in T
    OBVIOUS
  <2>2. ASSUME NEW j \in BelowIn(S, k) PROVE j \in BelowIn(S, m)
    <3>1. j \in S /\ j < k /\ j \in Nat /\ k \in Nat /\ m \in Nat
      BY <1>0 DEF BelowIn
    <3> QED BY <1>5, <3>1 DEF BelowIn
  <2>3. k \in BelowIn(S, m) /\ k \notin BelowIn(S, k)
    BY <1>0, <1>5 DEF BelowIn
  <2>4. BelowIn(S, k) \subseteq S /\ BelowIn(S, m) \subseteq S
    BY DEF BelowIn
  <2> HIDE DEF T
  <2> QED BY <1>3, <1>4, <2>1, <2>2, <2>3, <2>4 DEF StrictSubsetOrdering
<1> QED BY <1>0, <1>5

------------------------------------------------------------------------------
(* ----------------------------- shadow gate ------------------------------ *)

\* The threads between the two increments.
Pending == {t \in Observers : observer[t] # "none"}

Counted == outcomes["match"] + outcomes["diverge"] + outcomes["primary_only"]
             + outcomes["aphelion_unreachable"]

\* The types, and what explains the gap between the counters.
CountInv ==
    /\ attempts \in 0..MaxAttempts
    /\ outcomes \in [Outcomes -> Nat]
    /\ observer \in [Observers -> Outcomes \union {"none"}]
    /\ Counted + Cardinality(Pending) = attempts

Answers == 0..Unanswered

\* The numerators of a report are not below the counters when it began.
ReportInv ==
    /\ report \in [pc : {"idle", "diverge", "unreachable", "pass", "fail", "insufficient"},
                   attempts : Answers, diverge : Answers, unreachable : Answers]
    /\ asked \in [Outcomes -> Nat]
    /\ \A o \in Outcomes : asked[o] <= outcomes[o]
    /\ report.pc = "unreachable" /\ report.diverge # Unanswered =>
         asked["diverge"] <= report.diverge
    /\ ShadowPassIsSound

ShadowInv == CountInv /\ ReportInv

\* Every counter is within the bound on the attempts.
LEMMA CountersBounded ==
    ASSUME CountInv
    PROVE  /\ \A o \in Outcomes : outcomes[o] \in 0..MaxAttempts
           /\ EveryOutcomeWasAnAttempt
           /\ Counted \in Nat /\ IsFiniteSet(Pending) /\ Cardinality(Pending) \in Nat
<1>1. IsFiniteSet(Pending) /\ Cardinality(Pending) \in Nat
  BY ShadowAssumption, FS_Subset, FS_CardinalityType DEF Pending
<1>2. /\ outcomes["match"] \in Nat /\ outcomes["diverge"] \in Nat
      /\ outcomes["primary_only"] \in Nat /\ outcomes["aphelion_unreachable"] \in Nat
  BY DEF CountInv, Outcomes
<1>3. attempts \in Nat /\ attempts <= MaxAttempts /\ MaxAttempts \in Nat
  BY ShadowAssumption DEF CountInv
<1>4. Counted + Cardinality(Pending) = attempts
  BY DEF CountInv
<1>5. /\ outcomes["match"] <= MaxAttempts /\ outcomes["diverge"] <= MaxAttempts
      /\ outcomes["primary_only"] <= MaxAttempts /\ outcomes["aphelion_unreachable"] <= MaxAttempts
      /\ Counted <= attempts /\ Counted \in Nat
  BY <1>1, <1>2, <1>3, <1>4 DEF Counted
<1>6. EveryOutcomeWasAnAttempt
  BY <1>5 DEF EveryOutcomeWasAnAttempt, Counted
<1> QED BY <1>1, <1>2, <1>3, <1>5, <1>6 DEF Outcomes

\* The inductive invariant is at least the one of the runs.
LEMMA ShadowInvImplies == ShadowInv => ShadowSafety
<1> SUFFICES ASSUME ShadowInv PROVE ShadowSafety OBVIOUS
<1>1. /\ \A o \in Outcomes : outcomes[o] \in 0..MaxAttempts
      /\ EveryOutcomeWasAnAttempt
  BY CountersBounded DEF ShadowInv
<1>2. \A o \in Outcomes : asked[o] \in 0..MaxAttempts
  BY <1>1, ShadowAssumption DEF ShadowInv, ReportInv
<1>3. outcomes \in [Outcomes -> 0..MaxAttempts] /\ asked \in [Outcomes -> 0..MaxAttempts]
  BY <1>1, <1>2 DEF ShadowInv, CountInv, ReportInv
<1> QED BY <1>1, <1>3 DEF ShadowInv, CountInv, ReportInv, ShadowTypeOK, ShadowSafety

\* No attempt is counted and no report has begun.
LEMMA ShadowInitInv == ShadowInit => ShadowInv
<1> SUFFICES ASSUME ShadowInit PROVE ShadowInv OBVIOUS
<1> USE DEF ShadowInit
<1>1. Pending = {} /\ Cardinality(Pending) = 0
  BY FS_EmptySet DEF Pending
<1>2. Counted = 0
  BY DEF Counted, Outcomes
<1>3. CountInv
  BY <1>1, <1>2, ShadowAssumption DEF CountInv, Outcomes
<1>4. ReportInv
  BY ShadowAssumption
     DEF ReportInv, NoReport, Answers, Unanswered, ShadowPassIsSound, Outcomes
<1> QED BY <1>3, <1>4 DEF ShadowInv

\* The counters only grow, and a pass was decided on what was counted before.
LEMMA GrowthKeepsReport ==
    ASSUME ReportInv, outcomes \in [Outcomes -> Nat], outcomes' \in [Outcomes -> Nat],
           \A o \in Outcomes : outcomes[o] <= outcomes'[o],
           UNCHANGED <<report, asked>>
    PROVE  ReportInv'
<1>1. \A o \in Outcomes : asked'[o] <= outcomes'[o]
  BY DEF ReportInv
<1> QED BY <1>1 DEF ReportInv, ShadowPassIsSound, Rates

\* An attempt is counted, then its outcome.
LEMMA CountsKeep ==
    ASSUME ShadowInv, NEW t \in Observers,
           CountOutcome(t) \/ \E o \in Outcomes : CountAttempt(t, o)
    PROVE  ShadowInv'
<1> USE DEF ShadowInv
<1>0. IsFiniteSet(Pending) /\ Cardinality(Pending) \in Nat /\ Counted \in Nat
  BY CountersBounded
<1>1. ASSUME NEW o \in Outcomes, CountAttempt(t, o) PROVE ShadowInv'
  <2>1. /\ observer[t] = "none" /\ attempts < MaxAttempts /\ attempts' = attempts + 1
        /\ observer' = [observer EXCEPT ![t] = o] /\ UNCHANGED <<outcomes, report, asked>>
    BY <1>1 DEF CountAttempt
  <2>2. Pending' = Pending \union {t} /\ t \notin Pending
    BY <2>1 DEF Pending, CountInv, Outcomes
  <2>3. Cardinality(Pending') = Cardinality(Pending) + 1
    BY <1>0, <2>2, FS_AddElement
  <2>4. Counted' = Counted
    BY <2>1 DEF Counted
  <2>5. CountInv'
    BY <1>0, <2>1, <2>3, <2>4, ShadowAssumption DEF CountInv
  <2>6. ReportInv'
    BY <2>1, GrowthKeepsReport DEF CountInv
  <2> QED BY <2>5, <2>6
<1>2. CASE CountOutcome(t)
  <2>1. PICK o \in Outcomes : o = observer[t]
    BY <1>2 DEF CountOutcome, CountInv
  <2>2. /\ observer[t] # "none" /\ outcomes' = [outcomes EXCEPT ![o] = @ + 1]
        /\ observer' = [observer EXCEPT ![t] = "none"] /\ UNCHANGED <<attempts, report, asked>>
    BY <1>2, <2>1 DEF CountOutcome
  <2>3. Pending' = Pending \ {t} /\ t \in Pending
    BY <2>2 DEF Pending, CountInv
  <2>4. Cardinality(Pending') = Cardinality(Pending) - 1
    BY <1>0, <2>3, FS_RemoveElement
  <2>5. /\ outcomes' \in [Outcomes -> Nat] /\ outcomes'[o] = outcomes[o] + 1
        /\ \A p \in Outcomes : p # o => outcomes'[p] = outcomes[p]
    BY <2>1, <2>2 DEF CountInv
  <2>6. Counted' = Counted + 1
    BY <2>5 DEF Counted, Outcomes, CountInv
  <2>7. Counted' + Cardinality(Pending') = attempts'
    BY <1>0, <2>2, <2>4, <2>6 DEF CountInv
  <2>8. CountInv'
    BY <2>2, <2>5, <2>7 DEF CountInv
  <2>9. \A p \in Outcomes : outcomes[p] <= outcomes'[p]
    BY <2>5 DEF CountInv
  <2>10. ReportInv'
    BY <2>2, <2>5, <2>9, GrowthKeepsReport DEF CountInv
  <2> QED BY <2>8, <2>10
<1> QED BY <1>1, <1>2

\* The report's three queries, in the order of compute_shadow_dod.
LEMMA QueriesKeep ==
    ASSUME ShadowInv, NEW answers \in BOOLEAN,
           AskAttempts(answers) \/ AskDiverge(answers) \/ AskUnreachable(answers)
    PROVE  ShadowInv'
<1> USE DEF ShadowInv
<1>0. UNCHANGED <<attempts, outcomes, observer>>
  BY DEF AskAttempts, AskDiverge, AskUnreachable
<1>1. CountInv'
  BY <1>0 DEF CountInv, Counted, Pending
<1>2. /\ \A o \in Outcomes : outcomes[o] \in Answers /\ outcomes[o] # Unanswered
      /\ attempts \in Answers /\ Unanswered \in Answers
  BY CountersBounded, ShadowAssumption DEF Answers, Unanswered, CountInv
<1>3. {"diverge", "aphelion_unreachable"} \subseteq Outcomes
  BY DEF Outcomes
<1>4. CASE AskAttempts(answers)
  <2>1. PICK n \in Answers : report' = [NoReport EXCEPT !.pc = "diverge", !.attempts = n]
    BY <1>2, <1>4 DEF AskAttempts
  <2>2. report' = [pc |-> "diverge", attempts |-> n, diverge |-> Unanswered, unreachable |-> Unanswered]
    BY <2>1 DEF NoReport
  <2>3. asked' = outcomes
    BY <1>4 DEF AskAttempts
  <2> QED BY <1>0, <1>1, <1>2, <2>2, <2>3 DEF ReportInv, ShadowPassIsSound, CountInv
<1>5. CASE AskDiverge(answers)
  <2>1. PICK n \in Answers : /\ n # Unanswered => n = outcomes["diverge"]
                             /\ report' = [report EXCEPT !.pc = "unreachable", !.diverge = n]
    BY <1>2, <1>3, <1>5 DEF AskDiverge
  <2>2. asked' = asked
    BY <1>5 DEF AskDiverge
  <2> QED BY <1>0, <1>1, <1>3, <2>1, <2>2 DEF ReportInv, ShadowPassIsSound
<1>6. CASE AskUnreachable(answers)
  <2>1. PICK n \in Answers :
            /\ n # Unanswered => n = outcomes["aphelion_unreachable"]
            /\ n = IF answers THEN outcomes["aphelion_unreachable"] ELSE Unanswered
    BY <1>2, <1>3
  <2> DEFINE r == [report EXCEPT !.unreachable = n]
  <2>2. report.pc = "unreachable" /\ report' = [r EXCEPT !.pc = Verdict(r)] /\ asked' = asked
    BY <1>6, <2>1 DEF AskUnreachable
  <2>3. /\ report'.pc = Verdict(r) /\ report'.attempts = report.attempts
        /\ report'.diverge = report.diverge /\ report'.unreachable = n
        /\ r.attempts = report.attempts /\ Rates(r) = {report.diverge, n}
    BY <2>2 DEF ReportInv, Rates
  <2>4. Verdict(r) \in {"insufficient", "fail", "pass"}
    BY DEF Verdict
  <2>5. /\ report' \in [pc : {"idle", "diverge", "unreachable", "pass", "fail", "insufficient"},
                        attempts : Answers, diverge : Answers, unreachable : Answers]
        /\ report'.pc # "unreachable"
    BY <2>2, <2>3, <2>4 DEF ReportInv
  <2>6. ASSUME Verdict(r) = "pass"
        PROVE  ShadowPassIsSound'
    <3> HIDE DEF r
    <3>1. /\ r.attempts # Unanswered /\ ~(r.attempts < MinFloor)
          /\ Unanswered \notin Rates(r)
          /\ \A m \in Rates(r) : ~(100 * m >= RatePercent * r.attempts)
      BY <2>6 DEF Verdict
    <3>2. /\ asked["diverge"] <= report.diverge /\ asked["aphelion_unreachable"] <= n
      BY <1>3, <2>1, <2>2, <2>3, <3>1 DEF ReportInv
    <3>3. PICK bound \in Nat : bound = RatePercent * report.attempts
      BY ShadowAssumption DEF ReportInv, Answers, Unanswered
    <3>4. 100 * asked["diverge"] < bound
      <4>1. ~(100 * report.diverge >= bound)
        BY <2>3, <3>1, <3>3
      <4> QED BY <1>3, <3>2, <3>3, <4>1, ShadowAssumption DEF ReportInv, Answers, Unanswered
    <3>5. 100 * asked["aphelion_unreachable"] < bound
      <4>1. ~(100 * n >= bound)
        BY <2>3, <3>1, <3>3
      <4> QED BY <1>3, <3>2, <3>3, <4>1, ShadowAssumption DEF ReportInv, Answers, Unanswered
    <3>6. report.attempts >= MinFloor
      BY <2>3, <3>1, ShadowAssumption DEF ReportInv, Answers, Unanswered
    <3>7. Rates(report') = Rates(r)
      BY <2>3 DEF Rates
    <3> QED BY <2>2, <2>3, <3>1, <3>3, <3>4, <3>5, <3>6, <3>7 DEF ShadowPassIsSound, Unanswered, Rates
  <2>7. ShadowPassIsSound'
    BY <2>3, <2>6 DEF ShadowPassIsSound
  <2>8. ReportInv'
    BY <1>0, <2>2, <2>5, <2>7 DEF ReportInv
  <2> QED BY <1>1, <2>8
<1> QED BY <1>4, <1>5, <1>6

\* The invariant is inductive.
LEMMA ShadowStep == ShadowInv /\ [ShadowNext]_shadowVars => ShadowInv'
<1> SUFFICES ASSUME ShadowInv, [ShadowNext]_shadowVars PROVE ShadowInv' OBVIOUS
<1>1. CASE UNCHANGED shadowVars
  BY <1>1 DEF shadowVars, ShadowInv, CountInv, ReportInv, Counted, Pending, ShadowPassIsSound, Rates
<1> QED BY <1>1, CountsKeep, QueriesKeep DEF ShadowNext

\* The outcomes that observe counted never exceed its attempts, however the
\* threads interleave, and a verdict "pass" of compute_shadow_dod holds of the
\* moment of its first query, although its three queries see three moments.
THEOREM ShadowIsSafe == ShadowSpec => []ShadowSafety
<1> QED BY ShadowInitInv, ShadowStep, ShadowInvImplies, PTL DEF ShadowSpec

------------------------------------------------------------------------------
(* ---------------------------- rolling window ---------------------------- *)

------------------------------------------------------------------------------
Stamps == 0..clock

\* WindowTypeOK, with the room that the bound on the observations leaves.
WindowTypes ==
    /\ clock \in 0..MaxClock /\ entries \in 0..MaxEntries
    /\ deque \in Seq(Stamps) /\ Len(deque) <= entries
    /\ stamp \in [Recorders \union Readers -> SUBSET Stamps]
    /\ counted \in [Readers -> [since : Nat, of : Seq(Stamps)]]

WindowInv == WindowTypes /\ StaleOnlyIfOvertaken

\* _evict: what is kept is a suffix that begins inside the window.
LEMMA TrimmedBegins ==
    ASSUME NEW T \in SUBSET Nat, NEW d \in Seq(T), NEW since \in Nat
    PROVE  /\ Trimmed(d, since) \in Seq(T)
           /\ Len(Trimmed(d, since)) <= Len(d)
           /\ Trimmed(d, since) # <<>> => Trimmed(d, since)[1] >= since
<1>1. CASE ~\E i \in DOMAIN d : d[i] >= since
  BY <1>1 DEF Trimmed
<1>2. CASE \E i \in DOMAIN d : d[i] >= since
  <2> DEFINE In == {i \in DOMAIN d : d[i] >= since}
             Begins(i) == d[i] >= since /\ \A j \in 1..(i - 1) : d[j] < since
             first == CHOOSE i \in DOMAIN d : Begins(i)
  <2>0. DOMAIN d = 1..Len(d) /\ Len(d) \in Nat /\ \A i \in 1..Len(d) : d[i] \in Nat
    <3>1. \A i \in 1..Len(d) : d[i] \in T
      BY ElementOfSeq
    <3> QED BY <3>1, LenProperties
  <2>1. \E i \in DOMAIN d : Begins(i)
    <3>1. PICK m \in In : \A k \in In : m <= k
      <4>1. In \in SUBSET Nat /\ In # {}
        BY <1>2, <2>0
      <4> HIDE DEF In
      <4> QED BY <4>1, LeastElement
    <3>2. ASSUME NEW j \in 1..(m - 1) PROVE d[j] < since
      BY <2>0, <3>1
    <3> QED BY <3>1, <3>2
  <2>2. first \in 1..Len(d) /\ d[first] >= since
    BY <2>0, <2>1
  <2>3. Trimmed(d, since) = SubSeq(d, first, Len(d))
    BY <1>2 DEF Trimmed
  <2> HIDE DEF first
  <2>4. SubSeq(d, first, Len(d)) \in Seq(T) /\ Len(SubSeq(d, first, Len(d))) = Len(d) - first + 1
    BY <2>0, <2>2, SubSeqProperties
  <2>5. SubSeq(d, first, Len(d))[1] = d[first]
    BY <2>0, <2>2, SubSeqProperties
  <2> QED BY <2>0, <2>2, <2>3, <2>4, <2>5
<1> QED BY <1>1, <1>2

\* The window starts empty.
LEMMA WindowInitInv == WindowInit => WindowInv
<1> SUFFICES ASSUME WindowInit PROVE WindowInv OBVIOUS
<1>1. <<>> \in Seq(Stamps) /\ Len(<<>>) = 0 /\ DOMAIN <<>> = {}
  OBVIOUS
<1>2. WindowTypes
  BY <1>1, WindowAssumption DEF WindowTypes, WindowInit, Nothing, Stamps
<1>3. StaleOnlyIfOvertaken
  BY <1>1 DEF StaleOnlyIfOvertaken, WindowInit, Nothing
<1> QED BY <1>2, <1>3 DEF WindowInv

\* The cutoff of a window is an instant.
LEMMA CutoffIsNat ==
    ASSUME NEW s \in Nat PROVE Cutoff(s) \in Nat
BY WindowAssumption DEF Cutoff

\* No step makes a rate of stale observations alone.
LEMMA WindowStepInv == WindowInv /\ [WindowNext]_windowVars => WindowInv'
<1> SUFFICES ASSUME WindowInv, [WindowNext]_windowVars PROVE WindowInv' OBVIOUS
<1> USE DEF WindowInv
<1>0. Stamps \in SUBSET Nat /\ clock \in Nat /\ entries \in Nat
  BY WindowAssumption DEF WindowTypes, Stamps
<1>1. CASE UNCHANGED windowVars
  BY <1>1 DEF WindowTypes, StaleOnlyIfOvertaken, windowVars, Stamps
<1>2. CASE Tick
  <2>1. Stamps \subseteq Stamps'
    BY <1>0, <1>2 DEF Stamps, Tick
  <2>2. deque' \in Seq(Stamps') /\ \A r \in Readers : counted'[r].of \in Seq(Stamps')
    BY <1>2, <2>1, SeqMonotonic DEF WindowTypes, Tick
  <2>3. counted' \in [Readers -> [since : Nat, of : Seq(Stamps')]]
    <3>1. \A r \in Readers : counted[r] \in [since : Nat, of : Seq(Stamps)]
      BY DEF WindowTypes
    <3>2. \A r \in Readers : counted'[r] \in [since : Nat, of : Seq(Stamps')]
      BY <1>2, <2>2, <3>1 DEF Tick
    <3> QED BY <1>2, <3>2 DEF WindowTypes, Tick
  <2>4. WindowTypes'
    <3>1. clock' \in 0..MaxClock /\ entries' \in 0..MaxEntries /\ Len(deque') <= entries'
      BY <1>0, <1>2, WindowAssumption DEF WindowTypes, Tick
    <3>2. stamp' \in [Recorders \union Readers -> SUBSET Stamps']
      BY <1>2, <2>1 DEF WindowTypes, Tick
    <3> QED BY <2>2, <2>3, <3>1, <3>2 DEF WindowTypes
  <2> QED BY <1>2, <2>4 DEF StaleOnlyIfOvertaken, Tick
<1>3. ASSUME NEW t \in Recorders \union Readers, Stamp(t) PROVE WindowInv'
  <2>1. stamp' = [stamp EXCEPT ![t] = {clock}] /\ UNCHANGED <<deque, entries, clock, counted>>
    BY <1>3 DEF Stamp
  <2>2. clock \in Stamps /\ Stamps' = Stamps BY <1>0, <2>1 DEF Stamps
  <2>3. stamp' \in [Recorders \union Readers -> SUBSET Stamps]
    BY <2>1, <2>2 DEF WindowTypes
  <2>4. WindowTypes' BY <2>1, <2>2, <2>3 DEF WindowTypes
  <2> QED BY <2>1, <2>4 DEF StaleOnlyIfOvertaken
<1>4. ASSUME NEW t \in Recorders, Observe(t) PROVE WindowInv'
  <2>1. PICK s \in stamp[t] :
          /\ entries < MaxEntries /\ entries' = entries + 1
          /\ deque' = Trimmed(Append(deque, s), Cutoff(s))
          /\ stamp' = [stamp EXCEPT ![t] = {}]
          /\ UNCHANGED <<clock, counted>>
    BY <1>4 DEF Observe
  <2>2. s \in Stamps
    BY <2>1 DEF WindowTypes
  <2>3. Append(deque, s) \in Seq(Stamps) /\ Len(Append(deque, s)) = Len(deque) + 1
    BY <2>2, AppendProperties DEF WindowTypes
  <2>4. deque' \in Seq(Stamps) /\ Len(deque') <= Len(deque) + 1
    BY <1>0, <2>1, <2>2, <2>3, TrimmedBegins, CutoffIsNat
  <2>5. Stamps' = Stamps
    BY <2>1 DEF Stamps
  <2>6. Len(deque) \in Nat /\ Len(deque') \in Nat
    BY <2>4 DEF WindowTypes
  <2>7. WindowTypes'
    BY <1>0, <2>1, <2>4, <2>5, <2>6, WindowAssumption DEF WindowTypes
  <2> QED BY <2>1, <2>7 DEF StaleOnlyIfOvertaken
<1>5. ASSUME NEW r \in Readers, Rate(r) PROVE WindowInv'
  <2>1. PICK s \in stamp[r] :
          LET kept == Trimmed(deque, Cutoff(s)) IN
          /\ deque' = kept
          /\ counted' = [counted EXCEPT ![r] = [since |-> Cutoff(s), of |-> kept]]
          /\ stamp' = [stamp EXCEPT ![r] = {}]
          /\ UNCHANGED <<clock, entries>>
    BY <1>5 DEF Rate
  <2> DEFINE kept == Trimmed(deque, Cutoff(s))
  <2>2. s \in Nat /\ Cutoff(s) \in Nat
    BY <1>0, <2>1, CutoffIsNat DEF WindowTypes
  <2>3. /\ kept \in Seq(Stamps) /\ Len(kept) <= Len(deque)
        /\ kept # <<>> => kept[1] >= Cutoff(s)
    BY <1>0, <2>2, TrimmedBegins DEF WindowTypes
  <2> HIDE DEF kept
  <2>4. /\ deque' = kept
        /\ counted' = [counted EXCEPT ![r] = [since |-> Cutoff(s), of |-> kept]]
        /\ stamp' = [stamp EXCEPT ![r] = {}]
        /\ UNCHANGED <<clock, entries>>
    BY <2>1 DEF kept
  <2>5. Stamps' = Stamps
    BY <2>4 DEF Stamps
  <2>6. WindowTypes'
    BY <1>0, <2>2, <2>3, <2>4, <2>5 DEF WindowTypes
  <2>7. ASSUME NEW i \in DOMAIN kept, kept[i] < Cutoff(s)
        PROVE  \E j \in 1..(i - 1) : kept[j] >= Cutoff(s)
    <3>1. kept # <<>> /\ i \in 1..Len(kept) /\ Len(kept) \in Nat /\ kept[1] \in Nat /\ kept[i] \in Nat
      <4>1. \A k \in 1..Len(kept) : kept[k] \in Stamps
        BY <2>3, ElementOfSeq
      <4>2. DOMAIN kept = 1..Len(kept) /\ Len(kept) \in Nat
        BY <2>3, LenProperties
      <4>3. kept # <<>>
        <5> SUFFICES ASSUME kept = <<>> PROVE FALSE OBVIOUS
        <5>1. DOMAIN kept = {}
          OBVIOUS
        <5> QED BY <2>7, <5>1
      <4>4. 1 \in 1..Len(kept) /\ i \in 1..Len(kept)
        BY <2>7, <4>2
      <4> QED BY <1>0, <4>1, <4>2, <4>3, <4>4
    <3>2. i # 1
      BY <2>2, <2>3, <2>7, <3>1
    <3> QED BY <2>3, <3>1, <3>2
  <2>8. StaleOnlyIfOvertaken'
    <3> SUFFICES ASSUME NEW q \in Readers, NEW i \in DOMAIN counted'[q].of,
                        counted'[q].of[i] < counted'[q].since
                 PROVE  \E j \in 1..(i - 1) : counted'[q].of[j] >= counted'[q].since
      BY DEF StaleOnlyIfOvertaken
    <3>1. CASE q = r
      <4>1. counted'[q] = [since |-> Cutoff(s), of |-> kept]
        BY <2>4, <3>1 DEF WindowTypes
      <4> QED BY <2>7, <4>1
    <3>2. CASE q # r
      <4>1. counted'[q] = counted[q]
        BY <2>4, <3>2 DEF WindowTypes
      <4> QED BY <4>1 DEF StaleOnlyIfOvertaken
    <3> QED BY <3>1, <3>2
  <2> QED BY <2>6, <2>8
<1> QED BY <1>1, <1>2, <1>3, <1>4, <1>5 DEF WindowNext

\* The inductive invariant is at least the one of the runs.
LEMMA WindowInvSafe == WindowInv => WindowSafety
<1> SUFFICES ASSUME WindowInv PROVE WindowSafety OBVIOUS
<1>1. Len(deque) \in Nat /\ Stamps = 0..clock
  BY DEF WindowInv, WindowTypes, Stamps
<1> QED BY <1>1, WindowAssumption DEF WindowSafety, WindowTypeOK, WindowInv, WindowTypes

\* StaleOnlyIfOvertaken (_trim and _in_window): a rate counts an observation older than
\* its window only behind a younger one, so a window nobody adds to drains.
THEOREM WindowIsSafe == WindowSpec => []WindowSafety
<1> QED BY WindowInitInv, WindowStepInv, WindowInvSafe, PTL DEF WindowSpec

------------------------------------------------------------------------------
(* ------------------------------ observers ------------------------------- *)

Before == {"idle", "dispatch", "save", "swap", "stamp", "select", "insert"}
After == {"restore", "record", "log", "done"}

ConflictRows == [query : Queries, ref : Refs, at : 0..MaxTime]
QueryRecs ==
    [pc : Before \union After, source : Sources, outcome : {"none", "skipped"} \union DualOutcomes,
     fallback : BOOLEAN, ref : Refs \union {"none"}, at : 0..MaxTime,
     event : Queries \union {NoEvent}, error : BOOLEAN, saved : {"none"} \union Factories,
     saw : SUBSET ConflictRows, blind : BOOLEAN, wrote : BOOLEAN]
Decisions ==
    [query : Queries \union {"legacy"}, source : Sources, fallback : BOOLEAN,
     event : Queries \union {NoEvent}, error : BOOLEAN]
Lines == [record : Decisions, whole : BOOLEAN, ended : BOOLEAN]

Inserted == rows \union open \union lost

BaseInv ==
    /\ now \in 0..MaxTime /\ torn \in 0..MaxTorn
    /\ config \in Configs
    /\ query \in [Queries -> QueryRecs]
    /\ requests \union observed \union failures \union glued \subseteq Queries

\* No row of the same conflict that q saw and that is still there is within the hour,
\* unless its look was blind.
Clear(q) ==
    query[q].blind \/
    \A a \in (rows \union open) \intersect query[q].saw :
       a.ref = query[q].ref => a.at + Hour < query[q].at

\* The factory of the connection is the owner's or sqlite3.Row; an owner that has given
\* sqlite3.Row itself never loses it.
FactoryInv ==
    /\ factory \in Factories
    /\ \A q \in Queries :
         query[q].pc \in {"swap", "stamp", "select", "insert", "restore"} => query[q].saved \in Factories
    /\ config.factory = "row" =>
         factory = "row" /\ \A q \in Queries : query[q].saved # "tuple" /\ ~query[q].blind

\* The events table: a row is its query's only one, and was clear of what that query saw.
RowInv ==
    /\ rows \subseteq ConflictRows /\ open \subseteq ConflictRows /\ lost \subseteq ConflictRows
    /\ lost \intersect (rows \union open) = {} /\ rows \intersect open = {}
    /\ \A e \in Inserted :
         /\ query[e.query].pc \in After /\ ~query[e.query].error
         /\ e.ref = query[e.query].ref /\ e.at = query[e.query].at
    /\ \A q \in Queries : query[q].saw \subseteq Inserted
    /\ \A q \in Queries : query[q].pc = "insert" => Clear(q)
    /\ \A b \in rows \union open : Clear(b.query)

\* What q has left behind at each of its steps.
QueryInv(q) ==
    /\ query[q].at <= now
    /\ query[q].pc \in Before => ~query[q].error /\ query[q].event = NoEvent
    /\ query[q].error <=> q \in failures
    /\ query[q].event # NoEvent =>
         \E e \in Inserted : /\ e.query = query[q].event /\ e.ref = query[q].ref
                             /\ e.at + Hour >= query[q].at
    /\ query[q].pc \in {"idle", "dispatch"} => ~query[q].fallback /\ query[q].outcome = "none"
    /\ query[q].pc \in {"save", "swap", "stamp", "select", "insert"} => query[q].ref \in Refs
    /\ query[q].pc \in After /\ config.events /\ query[q].fallback =>
         query[q].error \/ query[q].event # NoEvent
    /\ query[q].pc # "idle" /\ Counts => q \in requests
    /\ query[q].pc = "log" => q \in observed
    /\ query[q].pc = "done" => q \in observed \/ query[q].outcome = "none"
    /\ query[q].wrote => query[q].pc = "done"

\* The log: every line is of a finished query or older, and only a torn one goes on.
LogInv ==
    /\ log \in Seq(Lines)
    /\ \A i \in DOMAIN log : log[i].whole => log[i].ended
    /\ \A i \in DOMAIN log :
         \/ log[i].record = Legacy
         \/ config.log /\ \E q \in Queries : query[q].pc = "done" /\ log[i].record = RecordOf(q)
    /\ \A q \in Queries : query[q].wrote => q \in glued \/ RecordOf(q) \in Readable
    /\ IsFiniteSet(glued)
    /\ Cardinality(glued) + (IF Unended THEN 1 ELSE 0) <= torn

ObsInv == BaseInv /\ RowInv /\ LogInv /\ \A q \in Queries : QueryInv(q)
ObserversInv == ObsInv /\ FactoryInv

\* A query that begins has a record like any other.
LEMMA BegunIsQuery == Begun \in QueryRecs
<1>1. 0 \in 0..MaxTime
  BY ObsAssumption
<1>2. NoEvent \in Queries \union {NoEvent} /\ "none" \in Refs \union {"none"}
      /\ "none" \in {"none", "skipped"} \union DualOutcomes
      /\ "idle" \in Before \union After /\ "natural" \in Sources /\ {} \in SUBSET ConflictRows
      /\ "none" \in {"none"} \union Factories
  BY DEF Before, Sources
<1> QED BY <1>1, <1>2 DEF Begun, QueryRecs

\* A decision of the legacy log is a decision.
LEMMA LegacyIsLine == Legacy \in Decisions
<1>1. "missing" \in Sources /\ NoEvent \in Queries \union {NoEvent} /\ "legacy" \in Queries \union {"legacy"}
  BY DEF Sources
<1> QED BY <1>1 DEF Legacy, Decisions

\* No query, no row and no line.
LEMMA ObsInitInv == ObsInit => ObserversInv
<1> SUFFICES ASSUME ObsInit PROVE ObserversInv OBVIOUS
<1>1. /\ now = 0 /\ torn = 0 /\ query = [q \in Queries |-> Begun]
      /\ config \in Configs /\ factory = config.factory
      /\ rows = {} /\ open = {} /\ lost = {} /\ glued = {}
      /\ requests = {} /\ observed = {} /\ failures = {}
      /\ log = <<>> \/ log = <<[record |-> Legacy, whole |-> TRUE, ended |-> TRUE]>>
  BY DEF ObsInit
<1>2. \A q \in Queries : query[q] = Begun
  BY <1>1
<1>3. BaseInv
  <2>1. 0 \in 0..MaxTime /\ 0 \in 0..MaxTorn
    BY ObsAssumption
  <2> QED BY <1>1, <2>1, BegunIsQuery DEF BaseInv
<1>4. RowInv
  BY <1>1, <1>2 DEF RowInv, Inserted, Begun
<1>5. \A q \in Queries : QueryInv(q)
  <2> SUFFICES ASSUME NEW q \in Queries PROVE QueryInv(q) OBVIOUS
  <2>1. query[q] = Begun /\ now = 0 /\ q \notin failures
    BY <1>1, <1>2
  <2> HIDE DEF ObsInit
  <2> QED BY <2>1 DEF QueryInv, Begun, After
<1>6. LogInv
  <2>1. log \in Seq(Lines) /\ \A i \in DOMAIN log : log[i].record = Legacy /\ log[i].whole /\ log[i].ended
    <3>1. CASE log = <<>>
      BY <3>1
    <3>2. CASE log = <<[record |-> Legacy, whole |-> TRUE, ended |-> TRUE]>>
      BY <3>2, LegacyIsLine DEF Lines
    <3> QED BY <1>1, <3>1, <3>2
  <2>2. ~Unended
    <3>1. CASE log = <<>>
      BY <3>1 DEF Unended
    <3>2. CASE log = <<[record |-> Legacy, whole |-> TRUE, ended |-> TRUE]>>
      BY <3>2 DEF Unended
    <3> QED BY <1>1, <3>1, <3>2
  <2>3. \A q \in Queries : ~query[q].wrote
    BY <1>2 DEF Begun
  <2>4. IsFiniteSet(glued) /\ Cardinality(glued) = 0
    BY <1>1, FS_EmptySet
  <2> HIDE DEF ObsInit
  <2> QED BY <1>1, <2>1, <2>2, <2>3, <2>4 DEF LogInv
<1>7. FactoryInv
  BY <1>1, <1>2 DEF FactoryInv, Begun, Configs
<1> QED BY <1>3, <1>4, <1>5, <1>6, <1>7 DEF ObsInv, ObserversInv

(* ------------------------------- the frame ----------------------------- *)

\* What moves around a query leaves its traces as they were.
LEMMA OthersKeep ==
    ASSUME NEW p \in Queries, QueryInv(p), BaseInv, now' \in 0..MaxTime, now <= now',
           query'[p] = query[p], config' = config, Inserted \subseteq Inserted',
           p \in requests => p \in requests', p \in observed => p \in observed',
           p \in failures' <=> p \in failures
    PROVE  QueryInv(p)'
<1>1. query[p].at \in 0..MaxTime /\ now \in 0..MaxTime
  BY DEF BaseInv, QueryRecs
<1>2. query'[p].at <= now'
  BY <1>1, ObsAssumption DEF QueryInv
<1>3. Counts' <=> Counts
  BY DEF Counts
<1> QED BY <1>2, <1>3 DEF QueryInv

\* A step of q that touches neither the table nor the log.
LEMMA QueryMoves ==
    ASSUME ObsInv, NEW q \in Queries, NEW x \in QueryRecs, query' = [query EXCEPT ![q] = x],
           UNCHANGED <<now, config, rows, open, lost, logged>>,
           requests' \in {requests, requests \union {q}}, observed' \in {observed, observed \union {q}},
           failures' \in {failures, failures \union {q}},
           query[q].pc \in After => /\ x.pc \in After /\ x.saw = query[q].saw /\ x.ref = query[q].ref
                                    /\ x.at = query[q].at /\ x.error = query[q].error
                                    /\ x.blind = query[q].blind,
           x.saw \subseteq Inserted,
           x.pc = "insert" => x.blind \/ \A a \in (rows \union open) \intersect x.saw :
                                a.ref = x.ref => a.at + Hour < x.at,
           query[q].pc # "done", ~x.wrote, QueryInv(q)'
    PROVE  ObsInv'
<1>0. BaseInv /\ RowInv /\ LogInv /\ \A p \in Queries : QueryInv(p)
  BY DEF ObsInv
<1>1. /\ query'[q] = x /\ \A p \in Queries \ {q} : query'[p] = query[p]
      /\ query' \in [Queries -> QueryRecs]
  BY <1>0 DEF BaseInv
<1>2. BaseInv'
  BY <1>0, <1>1 DEF BaseInv, logged
<1>3. /\ rows' = rows /\ open' = open /\ lost' = lost /\ Inserted' = Inserted
      /\ log' = log /\ torn' = torn /\ glued' = glued
  BY DEF logged, Inserted
<1>4. \A p \in Queries \ {q} : QueryInv(p)'
  <2>1. now' \in 0..MaxTime /\ now <= now'
    BY <1>0 DEF BaseInv
  <2> QED BY <1>0, <1>1, <1>3, <2>1, OthersKeep
<1>5. RowInv'
  <2>1. \A e \in Inserted : e.query \in Queries
    BY <1>0 DEF RowInv, Inserted, ConflictRows
  <2>2. ASSUME NEW e \in Inserted
        PROVE  /\ query'[e.query].pc \in After /\ ~query'[e.query].error
               /\ e.ref = query'[e.query].ref /\ e.at = query'[e.query].at
    <3>1. /\ query[e.query].pc \in After /\ ~query[e.query].error
          /\ e.ref = query[e.query].ref /\ e.at = query[e.query].at
      BY <1>0 DEF RowInv
    <3>2. CASE e.query = q BY <1>1, <3>1, <3>2
    <3>3. CASE e.query # q BY <1>1, <2>1, <3>1, <3>3
    <3> QED BY <3>2, <3>3
  <2>3. \A p \in Queries : query'[p].saw \subseteq Inserted
    BY <1>0, <1>1 DEF RowInv
  <2>4. \A p \in Queries \ {q} : Clear(p) => Clear(p)'
    BY <1>1, <1>3 DEF Clear
  <2>5. x.pc = "insert" => Clear(q)'
    BY <1>1, <1>3 DEF Clear
  <2>6. query[q].pc \in After => (Clear(q) => Clear(q)')
    BY <1>1, <1>3 DEF Clear
  <2>7. \A p \in Queries : query'[p].pc = "insert" => Clear(p)'
    BY <1>0, <1>1, <2>4, <2>5 DEF RowInv
  <2>8. \A b \in rows \union open : Clear(b.query)'
    <3> SUFFICES ASSUME NEW b \in rows \union open PROVE Clear(b.query)' OBVIOUS
    <3>1. Clear(b.query) /\ b \in Inserted /\ query[b.query].pc \in After
      BY <1>0 DEF RowInv, Inserted
    <3>2. b.query \in Queries
      BY <2>1, <3>1
    <3>3. CASE b.query = q BY <2>6, <3>1, <3>3
    <3>4. CASE b.query # q BY <2>4, <3>1, <3>2, <3>4
    <3> QED BY <3>3, <3>4
  <2> QED BY <1>0, <1>3, <2>2, <2>3, <2>7, <2>8 DEF RowInv
<1>6. LogInv'
  <2>1. \A p \in Queries \ {q} : RecordOf(p)' = RecordOf(p)
    BY <1>1 DEF RecordOf
  <2>2. Readable' = Readable /\ (Unended' <=> Unended)
    BY <1>3 DEF Readable, Parses, Unended
  <2>3. \A i \in DOMAIN log :
          \/ log[i].record = Legacy
          \/ config.log /\ \E p \in Queries : query'[p].pc = "done" /\ log[i].record = RecordOf(p)'
    <3> SUFFICES ASSUME NEW i \in DOMAIN log, log[i].record # Legacy
                 PROVE  config.log /\ \E p \in Queries : query'[p].pc = "done" /\ log[i].record = RecordOf(p)'
      OBVIOUS
    <3>1. PICK p \in Queries : query[p].pc = "done" /\ log[i].record = RecordOf(p)
      BY <1>0 DEF LogInv
    <3>2. p # q
      BY <3>1
    <3> QED BY <1>0, <1>1, <2>1, <3>1, <3>2 DEF LogInv
  <2>4. \A p \in Queries : query'[p].wrote => p \in glued \/ RecordOf(p)' \in Readable
    BY <1>0, <1>1, <2>1 DEF LogInv
  <2> QED BY <1>0, <1>3, <2>2, <2>3, <2>4 DEF LogInv
<1> QED BY <1>2, <1>4, <1>5, <1>6 DEF ObsInv

\* What the invariant says of one query.
LEMMA ObsTyped ==
    ASSUME ObsInv, NEW q \in Queries
    PROVE  /\ query \in [Queries -> QueryRecs] /\ query[q] \in QueryRecs /\ QueryInv(q)
           /\ query[q].saw \subseteq Inserted
           /\ now \in Nat /\ query[q].at \in Nat /\ query[q].at <= now
           /\ rows \subseteq ConflictRows /\ open \subseteq ConflictRows
           /\ \A e \in rows \union open : e.at \in Nat /\ e.at \in 0..MaxTime
<1>1. BaseInv /\ RowInv /\ QueryInv(q)
  BY DEF ObsInv
<1>2. query \in [Queries -> QueryRecs] /\ query[q] \in QueryRecs /\ now \in Nat
  BY <1>1, ObsAssumption DEF BaseInv
<1>3. query[q].at \in Nat
  BY <1>2, ObsAssumption DEF QueryRecs
<1>4. \A e \in rows \union open : e.at \in Nat /\ e.at \in 0..MaxTime
  BY <1>1, ObsAssumption DEF RowInv, ConflictRows
<1> QED BY <1>1, <1>2, <1>3, <1>4 DEF QueryInv, RowInv

(* ------------------------------- the steps ----------------------------- *)

\* A query begins.
LEMMA EnterKeepsInv ==
    ASSUME ObsInv, NEW q \in Queries, NEW s \in Sources, Enter(q, s) PROVE ObsInv'
<1> DEFINE x == [Begun EXCEPT !.pc = "dispatch", !.source = s]
<1>1. /\ query[q].pc = "idle" /\ query' = [query EXCEPT ![q] = x]
      /\ requests' = (IF Counts THEN requests \union {q} ELSE requests)
      /\ UNCHANGED <<now, config, table, observed, failures, logged>>
  BY DEF Enter, Step
<1>2. /\ x \in QueryRecs /\ x.pc = "dispatch" /\ ~x.fallback /\ x.outcome = "none" /\ ~x.error
      /\ x.event = NoEvent /\ x.saw = {} /\ ~x.wrote /\ x.at = 0
  BY BegunIsQuery DEF QueryRecs, Begun, Before
<1> HIDE DEF x
<1>3. q \notin failures /\ query'[q] = x /\ now' = now /\ now \in Nat
  BY <1>1, ObsTyped DEF QueryInv, Before
<1>4. Counts' <=> Counts
  BY <1>1 DEF Counts
<1>5. QueryInv(q)'
  BY <1>1, <1>2, <1>3, <1>4 DEF QueryInv, After
<1> QED BY <1>1, <1>2, <1>5, QueryMoves DEF table, After

\* Steps of a query that has inserted nothing and will not just now.
LEMMA DispatchKeepsInv ==
    ASSUME ObsInv, NEW q \in Queries,
           \/ PrimaryRaises(q) \/ Skip(q)
           \/ \E o \in DualOutcomes, fallback \in BOOLEAN, ref \in Refs : Arbitrate(q, o, fallback, ref)
    PROVE  ObsInv'
<1>1. query[q].pc = "dispatch" /\ UNCHANGED <<now, config, table, counters, logged>>
  BY DEF PrimaryRaises, Skip, Arbitrate
<1>2. /\ query \in [Queries -> QueryRecs] /\ query[q] \in QueryRecs /\ QueryInv(q)
      /\ ~query[q].fallback /\ query[q].outcome = "none" /\ ~query[q].error /\ ~query[q].wrote
      /\ query[q].event = NoEvent /\ q \notin failures /\ query[q].saw \subseteq Inserted
      /\ query[q].at \in Nat /\ query[q].at <= now
  BY <1>1, ObsTyped DEF QueryInv, Before
<1>3. \E x \in QueryRecs :
        /\ query' = [query EXCEPT ![q] = x] /\ x.at = query[q].at /\ x.saw = query[q].saw
        /\ ~x.error /\ ~x.wrote /\ x.event = NoEvent
        /\ \/ x.pc \in {"done", "record"} /\ ~x.fallback /\ (x.pc = "done" => x.outcome = "none")
           \/ x.pc = "save" /\ x.ref \in Refs
           \/ x.pc = "record" /\ (~x.fallback \/ ~config.events)
  <2>1. CASE PrimaryRaises(q)
    <3> DEFINE x == [query[q] EXCEPT !.pc = "done"]
    <3>1. query' = [query EXCEPT ![q] = x]
      BY <2>1 DEF PrimaryRaises, Step
    <3>2. x \in QueryRecs /\ x.pc = "done" /\ x.at = query[q].at /\ x.saw = query[q].saw
          /\ ~x.error /\ ~x.wrote /\ x.event = NoEvent /\ ~x.fallback /\ x.outcome = "none"
      BY <1>2 DEF QueryRecs, After
    <3> HIDE DEF x
    <3> QED BY <3>1, <3>2
  <2>2. CASE Skip(q)
    <3> DEFINE x == [query[q] EXCEPT !.pc = "record", !.outcome = "skipped"]
    <3>1. query' = [query EXCEPT ![q] = x]
      BY <2>2 DEF Skip, Step
    <3>2. x \in QueryRecs /\ x.pc = "record" /\ x.at = query[q].at /\ x.saw = query[q].saw
          /\ ~x.error /\ ~x.wrote /\ x.event = NoEvent /\ ~x.fallback
      BY <1>2 DEF QueryRecs, After
    <3> HIDE DEF x
    <3> QED BY <3>1, <3>2
  <2>3. ASSUME NEW o \in DualOutcomes, NEW fallback \in BOOLEAN, NEW ref \in Refs,
               Arbitrate(q, o, fallback, ref)
        PROVE  \E x \in QueryRecs :
                 /\ query' = [query EXCEPT ![q] = x] /\ x.at = query[q].at /\ x.saw = query[q].saw
                 /\ ~x.error /\ ~x.wrote /\ x.event = NoEvent
                 /\ \/ x.pc = "save" /\ x.ref \in Refs
                    \/ x.pc = "record" /\ (~x.fallback \/ ~config.events)
    <3> DEFINE to == IF fallback /\ config.events THEN "save" ELSE "record"
               x == [query[q] EXCEPT !.outcome = o, !.fallback = fallback, !.ref = ref, !.pc = to]
    <3>1. query' = [query EXCEPT ![q] = x]
      BY <2>3 DEF Arbitrate, Step
    <3>2. to \in {"save", "record"} /\ (to = "record" => ~fallback \/ ~config.events)
      OBVIOUS
    <3> HIDE DEF to
    <3>3. x \in QueryRecs /\ x.pc = to /\ x.at = query[q].at /\ x.saw = query[q].saw /\ x.ref = ref
          /\ ~x.error /\ ~x.wrote /\ x.event = NoEvent /\ x.fallback = fallback
      <4>1. to \in Before \union After
        BY <3>2 DEF Before, After
      <4>2. x \in QueryRecs
        BY <1>2, <4>1 DEF QueryRecs
      <4> QED BY <1>2, <4>2 DEF QueryRecs
    <3> HIDE DEF x
    <3> QED BY <3>1, <3>2, <3>3
  <2> QED BY <2>1, <2>2, <2>3
<1>4. PICK x \in QueryRecs :
        /\ query' = [query EXCEPT ![q] = x] /\ x.at = query[q].at /\ x.saw = query[q].saw
        /\ ~x.error /\ ~x.wrote /\ x.event = NoEvent
        /\ \/ x.pc \in {"done", "record"} /\ ~x.fallback /\ (x.pc = "done" => x.outcome = "none")
           \/ x.pc = "save" /\ x.ref \in Refs
           \/ x.pc = "record" /\ (~x.fallback \/ ~config.events)
  BY <1>3
<1>5. /\ query'[q] = x /\ (Counts' <=> Counts) /\ q \notin failures' /\ requests' = requests
      /\ now' = now /\ config' = config /\ (Counts => q \in requests)
  BY <1>1, <1>2, <1>4 DEF Counts, counters, QueryInv
<1>6. QueryInv(q)'
  BY <1>2, <1>4, <1>5 DEF QueryInv, Before, After
<1> QED BY <1>1, <1>2, <1>4, <1>6, QueryMoves DEF counters, table, After

\* The conflict event takes its time before it looks for duplicates.
LEMMA StampKeepsInv ==
    ASSUME ObsInv, NEW q \in Queries, StampConflict(q) PROVE ObsInv'
<1> DEFINE S == rows \union open
           x == [query[q] EXCEPT !.pc = "select", !.at = now, !.saw = S]
<1>1. /\ query[q].pc = "stamp" /\ query' = [query EXCEPT ![q] = x]
      /\ UNCHANGED <<now, config, table, counters, logged>>
  BY DEF StampConflict, Step
<1>2. /\ query \in [Queries -> QueryRecs] /\ query[q] \in QueryRecs /\ QueryInv(q) /\ now \in Nat
      /\ S \in SUBSET ConflictRows /\ S \subseteq Inserted
  BY ObsTyped DEF Inserted
<1>3. now \in 0..MaxTime
  BY DEF ObsInv, BaseInv
<1> HIDE DEF S
<1>4. /\ x \in QueryRecs /\ x.pc = "select" /\ x.at = now /\ x.saw = S
      /\ x.event = query[q].event /\ x.error = query[q].error /\ x.ref = query[q].ref
      /\ x.fallback = query[q].fallback /\ x.wrote = query[q].wrote
  BY <1>2, <1>3 DEF QueryRecs, Before
<1> HIDE DEF x
<1>5. /\ ~query[q].error /\ query[q].event = NoEvent /\ q \notin failures /\ query[q].ref \in Refs
      /\ ~query[q].wrote /\ (Counts => q \in requests)
  BY <1>1, <1>2 DEF QueryInv, Before
<1>6. /\ query'[q] = x /\ (Counts' <=> Counts) /\ q \notin failures' /\ requests' = requests
      /\ now' = now /\ config' = config
  BY <1>1, <1>2, <1>5 DEF Counts, counters
<1>7. QueryInv(q)'
  BY <1>2, <1>4, <1>5, <1>6 DEF QueryInv, Before, After
<1> QED BY <1>1, <1>2, <1>4, <1>5, <1>7, QueryMoves DEF counters, table, After

\* The row_factory is saved and set before, and put back after, the write.
LEMMA FactoryKeepsInv ==
    ASSUME ObsInv, NEW q \in Queries, FactoryInv, SaveFactory(q) \/ SwapFactory(q) \/ RestoreFactory(q)
    PROVE  ObsInv'
<1>1. /\ query \in [Queries -> QueryRecs] /\ query[q] \in QueryRecs /\ QueryInv(q) /\ now \in Nat
      /\ query[q].saw \subseteq Inserted /\ query[q].at \in Nat
  BY ObsTyped
<1>2. PICK x \in QueryRecs :
        /\ query' = [query EXCEPT ![q] = x]
        /\ x.at = query[q].at /\ x.saw = query[q].saw /\ x.ref = query[q].ref
        /\ x.fallback = query[q].fallback /\ x.event = query[q].event /\ x.error = query[q].error
        /\ x.outcome = query[q].outcome /\ x.wrote = query[q].wrote /\ x.blind = query[q].blind
        /\ \/ query[q].pc = "save" /\ x.pc = "swap"
           \/ query[q].pc = "swap" /\ x.pc = "stamp"
           \/ query[q].pc = "restore" /\ x.pc = "record"
  <2>1. CASE SaveFactory(q)
    <3> DEFINE x == [query[q] EXCEPT !.pc = "swap", !.saved = factory]
    <3>1. query' = [query EXCEPT ![q] = x] /\ query[q].pc = "save"
      BY <2>1 DEF SaveFactory, Step
    <3>2. x \in QueryRecs /\ x.pc = "swap"
      BY <1>1 DEF QueryRecs, Before, FactoryInv
    <3>3. /\ x.at = query[q].at /\ x.saw = query[q].saw /\ x.ref = query[q].ref
          /\ x.fallback = query[q].fallback /\ x.event = query[q].event /\ x.error = query[q].error
          /\ x.outcome = query[q].outcome /\ x.wrote = query[q].wrote /\ x.blind = query[q].blind
      BY <1>1 DEF QueryRecs
    <3> HIDE DEF x
    <3> QED BY <3>1, <3>2, <3>3
  <2>2. CASE SwapFactory(q)
    <3> DEFINE x == [query[q] EXCEPT !.pc = "stamp"]
    <3>1. query' = [query EXCEPT ![q] = x] /\ query[q].pc = "swap"
      BY <2>2 DEF SwapFactory, Step
    <3>2. x \in QueryRecs /\ x.pc = "stamp"
      BY <1>1 DEF QueryRecs, Before
    <3>3. /\ x.at = query[q].at /\ x.saw = query[q].saw /\ x.ref = query[q].ref
          /\ x.fallback = query[q].fallback /\ x.event = query[q].event /\ x.error = query[q].error
          /\ x.outcome = query[q].outcome /\ x.wrote = query[q].wrote /\ x.blind = query[q].blind
      BY <1>1 DEF QueryRecs
    <3> HIDE DEF x
    <3> QED BY <3>1, <3>2, <3>3
  <2>3. CASE RestoreFactory(q)
    <3> DEFINE x == [query[q] EXCEPT !.pc = "record"]
    <3>1. query' = [query EXCEPT ![q] = x] /\ query[q].pc = "restore"
      BY <2>3 DEF RestoreFactory, Step
    <3>2. x \in QueryRecs /\ x.pc = "record"
      BY <1>1 DEF QueryRecs, After
    <3>3. /\ x.at = query[q].at /\ x.saw = query[q].saw /\ x.ref = query[q].ref
          /\ x.fallback = query[q].fallback /\ x.event = query[q].event /\ x.error = query[q].error
          /\ x.outcome = query[q].outcome /\ x.wrote = query[q].wrote /\ x.blind = query[q].blind
      BY <1>1 DEF QueryRecs
    <3> HIDE DEF x
    <3> QED BY <3>1, <3>2, <3>3
  <2> QED BY <2>1, <2>2, <2>3
<1>3. UNCHANGED <<now, config, rows, open, lost, counters, logged>>
  BY DEF SaveFactory, SwapFactory, RestoreFactory, table
<1>4. /\ query'[q] = x /\ (Counts' <=> Counts) /\ requests' = requests /\ failures' = failures
      /\ now' = now /\ config' = config /\ Inserted' = Inserted /\ observed' = observed
  BY <1>1, <1>2, <1>3 DEF Counts, counters, Inserted
<1>5. /\ Counts => q \in requests
      /\ ~query[q].wrote
  BY <1>1, <1>2 DEF QueryInv
<1>6. QueryInv(q)'
  BY <1>1, <1>2, <1>4, <1>5 DEF QueryInv, Before, After
<1>7. query[q].pc # "done" /\ x.pc # "insert" /\ (query[q].pc \in After => x.pc \in After)
  BY <1>2 DEF After
<1> QED BY <1>1, <1>2, <1>3, <1>4, <1>5, <1>6, <1>7, QueryMoves

\* The newest duplicate is one of them.
LEMMA NewestIsOne ==
    ASSUME NEW S \in SUBSET ConflictRows, S # {} PROVE Newest(S) \in S
<1> DEFINE Ages == {MaxTime - r.at : r \in S}
<1>1. \A r \in S : r.at \in Nat /\ r.at <= MaxTime /\ MaxTime - r.at \in Nat
  BY ObsAssumption DEF ConflictRows
<1>2. PICK m \in Ages : \A k \in Ages : m <= k
  <2>1. Ages \in SUBSET Nat /\ Ages # {}
    BY <1>1
  <2> HIDE DEF Ages
  <2> QED BY <2>1, LeastElement
<1>3. PICK r \in S : m = MaxTime - r.at
  OBVIOUS
<1>4. \A s \in S : s.at <= r.at
  <2> SUFFICES ASSUME NEW s \in S PROVE s.at <= r.at OBVIOUS
  <2>1. m <= MaxTime - s.at
    BY <1>2
  <2> QED BY <1>1, <1>3, <2>1, ObsAssumption
<1> QED BY <1>4 DEF Newest

\* The duplicates of the window are looked up.
LEMMA SelectKeepsInv ==
    ASSUME ObsInv, NEW q \in Queries, Select(q) PROVE ObsInv'
<1> DEFINE D == Found(q)
<1>1. /\ query[q].pc = "select" /\ UNCHANGED <<now, config, table, counters, logged>>
      /\ query' = [query EXCEPT ![q] = IF D = {}
                     THEN [query[q] EXCEPT !.pc = "insert", !.blind = factory # "row"]
                     ELSE [query[q] EXCEPT !.pc = "restore", !.event = Newest(D).query]]
  BY DEF Select, Step
<1>2. /\ query \in [Queries -> QueryRecs] /\ query[q] \in QueryRecs /\ QueryInv(q) /\ now \in Nat
      /\ query[q].saw \subseteq Inserted /\ query[q].at \in Nat
      /\ \A e \in rows \union open : e.at \in Nat
  BY ObsTyped
<1>3. /\ ~query[q].error /\ query[q].event = NoEvent /\ q \notin failures /\ query[q].ref \in Refs
      /\ ~query[q].wrote /\ (Counts => q \in requests)
  BY <1>1, <1>2 DEF QueryInv, Before
<1>4. /\ D \in SUBSET ConflictRows /\ D \subseteq Inserted
      /\ factory = "row" =>
           \A r \in rows \union open :
             r.ref = query[q].ref /\ r.at + Hour >= query[q].at <=> r \in D
  BY ObsTyped DEF Duplicates, Inserted, Found
<1> HIDE DEF D
<1>5. CASE D = {}
  <2> DEFINE b == factory # "row"
             x == [query[q] EXCEPT !.pc = "insert", !.blind = b]
  <2>0. b \in BOOLEAN /\ (b <=> factory # "row")
    OBVIOUS
  <2>1. query' = [query EXCEPT ![q] = x]
    BY <1>1, <1>5
  <2> HIDE DEF b
  <2>2. /\ x \in QueryRecs /\ x.pc = "insert" /\ x.at = query[q].at /\ x.saw = query[q].saw
        /\ x.event = query[q].event /\ x.error = query[q].error /\ x.ref = query[q].ref
        /\ x.wrote = query[q].wrote /\ (factory # "row" => x.blind)
    <3>1. "insert" \in Before \union After
      BY DEF Before
    <3>2. x \in QueryRecs
      BY <1>2, <2>0, <3>1 DEF QueryRecs
    <3> QED BY <1>2, <2>0, <3>2 DEF QueryRecs
  <2> HIDE DEF x
  <2>3. /\ query'[q] = x /\ (Counts' <=> Counts) /\ q \notin failures' /\ requests' = requests
        /\ now' = now /\ config' = config
    BY <1>1, <1>2, <1>3, <2>1 DEF Counts, counters
  <2>4. x.blind \/ \A a \in (rows \union open) \intersect x.saw : a.ref = x.ref => a.at + Hour < x.at
    BY <1>2, <1>4, <1>5, <2>2, ObsAssumption
  <2>5. QueryInv(q)'
    BY <1>2, <1>3, <2>2, <2>3 DEF QueryInv, Before, After
  <2> QED BY <1>1, <1>2, <1>3, <2>1, <2>2, <2>4, <2>5, QueryMoves DEF counters, table, After
<1>6. CASE D # {}
  <2> DEFINE e == Newest(D)
             x == [query[q] EXCEPT !.pc = "restore", !.event = e.query]
  <2>1. query' = [query EXCEPT ![q] = x]
    BY <1>1, <1>6
  <2>2. e \in D /\ e \in ConflictRows /\ e \in Inserted /\ e.query \in Queries
    <3>1. D \in SUBSET ConflictRows /\ D \subseteq Inserted
      BY <1>4
    <3>2. e \in D
      BY <1>6, <3>1, NewestIsOne
    <3> HIDE DEF e
    <3> QED BY <3>1, <3>2 DEF ConflictRows
  <2>3. e \in rows \union open /\ e.ref = query[q].ref /\ e.at + Hour >= query[q].at
    BY <2>2 DEF D, Found, Duplicates
  <2> HIDE DEF e
  <2>4. /\ x \in QueryRecs /\ x.pc = "restore" /\ x.at = query[q].at /\ x.saw = query[q].saw
        /\ x.event = e.query /\ x.error = query[q].error /\ x.ref = query[q].ref
        /\ x.wrote = query[q].wrote
    BY <1>2, <2>2 DEF QueryRecs, After
  <2> HIDE DEF x
  <2>5. /\ query'[q] = x /\ (Counts' <=> Counts) /\ q \notin failures' /\ requests' = requests
        /\ now' = now /\ config' = config /\ e \in Inserted'
    BY <1>1, <1>2, <1>3, <2>1, <2>2 DEF Counts, counters, table, Inserted
  <2>6. x.event # NoEvent
    BY <2>2, <2>4, ObsAssumption DEF NoEvent
  <2>7. QueryInv(q)'
    BY <1>2, <1>3, <2>3, <2>4, <2>5, <2>6 DEF QueryInv, Before, After
  <2> QED BY <1>1, <1>2, <1>3, <2>1, <2>4, <2>7, QueryMoves DEF counters, table, After
<1> QED BY <1>5, <1>6

\* A write that fails leaves no row and does not stop the query.
LEMMA WriteFailsKeepsInv ==
    ASSUME ObsInv, NEW q \in Queries, WriteFails(q) PROVE ObsInv'
<1> DEFINE x == [query[q] EXCEPT !.pc = "restore", !.error = TRUE]
<1>1. /\ query[q].pc \in {"select", "insert"} /\ query' = [query EXCEPT ![q] = x]
      /\ failures' = failures \union {q} /\ UNCHANGED <<now, config, table, requests, observed, logged>>
  BY DEF WriteFails, Step
<1>2. /\ query \in [Queries -> QueryRecs] /\ query[q] \in QueryRecs /\ QueryInv(q) /\ now \in Nat
      /\ query[q].saw \subseteq Inserted /\ query[q].at \in Nat
  BY ObsTyped
<1>3. /\ query[q].event = NoEvent /\ ~query[q].wrote /\ (Counts => q \in requests)
  BY <1>1, <1>2 DEF QueryInv, Before
<1>4. /\ x \in QueryRecs /\ x.pc = "restore" /\ x.error /\ x.at = query[q].at /\ x.saw = query[q].saw
      /\ x.event = query[q].event /\ x.wrote = query[q].wrote
  BY <1>2 DEF QueryRecs, After
<1> HIDE DEF x
<1>5. /\ query'[q] = x /\ (Counts' <=> Counts) /\ q \in failures' /\ requests' = requests
      /\ now' = now /\ config' = config
  BY <1>1, <1>2 DEF Counts
<1>6. QueryInv(q)'
  BY <1>2, <1>3, <1>4, <1>5 DEF QueryInv, Before, After
<1> QED BY <1>1, <1>2, <1>3, <1>4, <1>6, QueryMoves DEF table, After

\* The outcome is counted before the line is logged.
LEMMA RecordKeepsInv ==
    ASSUME ObsInv, NEW q \in Queries, RecordOutcome(q) PROVE ObsInv'
<1> DEFINE x == [query[q] EXCEPT !.pc = "log"]
<1>1. /\ query[q].pc = "record" /\ query' = [query EXCEPT ![q] = x]
      /\ observed' = observed \union {q} /\ UNCHANGED <<now, config, table, requests, failures, logged>>
  BY DEF RecordOutcome, Step
<1>2. /\ query \in [Queries -> QueryRecs] /\ query[q] \in QueryRecs /\ QueryInv(q) /\ now \in Nat
      /\ query[q].saw \subseteq Inserted /\ query[q].at \in Nat
  BY ObsTyped
<1>3. ~query[q].wrote /\ (Counts => q \in requests)
  BY <1>1, <1>2 DEF QueryInv
<1>4. /\ x \in QueryRecs /\ x.pc = "log" /\ x.error = query[q].error /\ x.at = query[q].at
      /\ x.saw = query[q].saw /\ x.ref = query[q].ref /\ x.fallback = query[q].fallback
      /\ x.event = query[q].event /\ x.wrote = query[q].wrote /\ x.blind = query[q].blind
  BY <1>2 DEF QueryRecs, After
<1> HIDE DEF x
<1>5. /\ query'[q] = x /\ (Counts' <=> Counts) /\ q \in observed' /\ requests' = requests
      /\ now' = now /\ config' = config /\ failures' = failures /\ Inserted' = Inserted
  BY <1>1, <1>2 DEF Counts, table, Inserted
<1>6. QueryInv(q)'
  BY <1>1, <1>2, <1>3, <1>4, <1>5 DEF QueryInv, Before, After
<1> QED BY <1>1, <1>2, <1>3, <1>4, <1>6, QueryMoves DEF table, After

\* The one row of q: nobody can have seen it before.
LEMMA InsertKeepsInv ==
    ASSUME ObsInv, NEW q \in Queries, Insert(q) PROVE ObsInv'
<1> DEFINE x == [query[q] EXCEPT !.pc = "restore", !.event = q]
           new == [query |-> q, ref |-> query[q].ref, at |-> query[q].at]
<1>1. /\ query[q].pc = "insert" /\ query' = [query EXCEPT ![q] = x] /\ open' = open \union {new}
      /\ UNCHANGED <<now, config, factory, rows, lost, counters, logged>>
  BY DEF Insert, Step
<1>2. /\ query \in [Queries -> QueryRecs] /\ query[q] \in QueryRecs /\ QueryInv(q) /\ now \in Nat
      /\ query[q].saw \subseteq Inserted /\ query[q].at \in Nat
  BY ObsTyped
<1>3. /\ ~query[q].error /\ q \notin failures /\ query[q].ref \in Refs
      /\ ~query[q].wrote /\ (Counts => q \in requests)
  BY <1>1, <1>2 DEF QueryInv, Before
<1>4. /\ x \in QueryRecs /\ x.pc = "restore" /\ x.at = query[q].at /\ x.saw = query[q].saw
      /\ x.event = q /\ x.error = query[q].error /\ x.ref = query[q].ref
      /\ x.wrote = query[q].wrote /\ x.blind = query[q].blind
  BY <1>2 DEF QueryRecs, After
<1> HIDE DEF x
<1>5. new \in ConflictRows /\ new.query = q /\ new.ref = query[q].ref /\ new.at = query[q].at
  BY <1>2, <1>3 DEF ConflictRows, QueryRecs
<1> HIDE DEF new
<1>6. BaseInv /\ RowInv /\ LogInv /\ \A p \in Queries : QueryInv(p)
  BY DEF ObsInv
<1>7. /\ query'[q] = x /\ \A p \in Queries \ {q} : query'[p] = query[p]
      /\ query' \in [Queries -> QueryRecs] /\ Inserted' = Inserted \union {new}
      /\ requests' = requests /\ observed' = observed /\ failures' = failures
      /\ rows' = rows /\ lost' = lost /\ log' = log /\ torn' = torn /\ glued' = glued
      /\ now' = now /\ config' = config
  BY <1>1, <1>2, <1>4 DEF Inserted, counters, logged
<1>8. new \notin Inserted
  <2>1. query[q].pc \notin After
    BY <1>1 DEF After
  <2> QED BY <1>5, <1>6, <2>1 DEF RowInv
<1>9. BaseInv'
  BY <1>6, <1>7 DEF BaseInv
<1>10. \A p \in Queries \ {q} : QueryInv(p)'
  <2>1. now' \in 0..MaxTime /\ now <= now'
    BY <1>2, <1>6, <1>7 DEF BaseInv
  <2> QED BY <1>6, <1>7, <2>1, OthersKeep
<1>11. QueryInv(q)'
  <2>1. Counts' <=> Counts
    BY <1>7 DEF Counts
  <2>2. new.at + Hour >= x.at
    BY <1>2, <1>4, <1>5, ObsAssumption
  <2>3. /\ query'[q].error <=> q \in failures'
        /\ query'[q].pc = "restore" /\ query'[q].event = q /\ q # NoEvent /\ ~query'[q].wrote
        /\ query'[q].at <= now'
    <3>1. q # NoEvent
      BY ObsAssumption DEF NoEvent
    <3>2. query'[q].at <= now'
      BY <1>2, <1>4, <1>7 DEF QueryInv
    <3>3. ~x.error /\ ~x.wrote
      BY <1>3, <1>4
    <3> QED BY <1>3, <1>4, <1>7, <3>1, <3>2, <3>3
  <2>4. \E e \in Inserted' : /\ e.query = query'[q].event /\ e.ref = query'[q].ref
                             /\ e.at + Hour >= query'[q].at
    <3>1. new \in Inserted'
      BY <1>7
    <3> QED BY <1>4, <1>5, <1>7, <2>2, <3>1
  <2> QED BY <1>3, <1>7, <2>1, <2>3, <2>4 DEF QueryInv, Before, After
<1>12. RowInv'
  <2>1. \A e \in Inserted : e.query \in Queries /\ query[e.query].pc \in After
    BY <1>6 DEF RowInv, Inserted, ConflictRows
  <2>2. \A e \in Inserted : e.query # q
    BY <1>1, <2>1 DEF After
  <2>3. ASSUME NEW e \in Inserted'
        PROVE  /\ query'[e.query].pc \in After /\ ~query'[e.query].error
               /\ e.ref = query'[e.query].ref /\ e.at = query'[e.query].at
    <3>1. CASE e = new
      BY <1>3, <1>4, <1>5, <1>7, <3>1 DEF After
    <3>2. CASE e \in Inserted
      <4>1. query'[e.query] = query[e.query]
        BY <1>7, <2>1, <2>2, <3>2
      <4> QED BY <1>6, <3>2, <4>1 DEF RowInv
    <3> QED BY <1>7, <2>3, <3>1, <3>2
  <2>4. \A p \in Queries : query'[p].saw = query[p].saw /\ query'[p].ref = query[p].ref
                           /\ query'[p].at = query[p].at /\ query'[p].blind = query[p].blind
                           /\ new \notin query[p].saw
    BY <1>4, <1>6, <1>7, <1>8 DEF RowInv
  <2>5. \A p \in Queries : Clear(p) => Clear(p)'
    BY <1>1, <1>7, <2>4 DEF Clear
  <2>6. Clear(q)
    BY <1>1, <1>6 DEF RowInv
  <2>7. \A b \in rows' \union open' : Clear(b.query)'
    <3> SUFFICES ASSUME NEW b \in rows' \union open' PROVE Clear(b.query)' OBVIOUS
    <3>1. CASE b = new BY <1>5, <2>5, <2>6, <3>1
    <3>2. CASE b \in rows \union open
      <4>1. Clear(b.query) /\ b.query \in Queries
        BY <1>6, <2>1, <3>2 DEF RowInv, Inserted
      <4> QED BY <2>5, <4>1
    <3> QED BY <1>1, <1>7, <3>1, <3>2
  <2>8. \A p \in Queries : query'[p].pc = "insert" => Clear(p)'
    BY <1>4, <1>6, <1>7, <2>5 DEF RowInv
  <2>9. lost' \intersect (rows' \union open') = {} /\ rows' \intersect open' = {}
    BY <1>1, <1>6, <1>7, <1>8 DEF RowInv, Inserted
  <2>10. \A p \in Queries : query'[p].saw \subseteq Inserted'
    BY <1>6, <1>7, <2>4 DEF RowInv
  <2> QED BY <1>1, <1>5, <1>6, <1>7, <2>3, <2>7, <2>8, <2>9, <2>10 DEF RowInv
<1>13. LogInv'
  <2>1. \A p \in Queries \ {q} : RecordOf(p)' = RecordOf(p)
    BY <1>7 DEF RecordOf
  <2>2. Readable' = Readable /\ (Unended' <=> Unended)
    BY <1>7 DEF Readable, Parses, Unended
  <2>3. \A i \in DOMAIN log :
          \/ log[i].record = Legacy
          \/ config.log /\ \E p \in Queries : query'[p].pc = "done" /\ log[i].record = RecordOf(p)'
    <3> SUFFICES ASSUME NEW i \in DOMAIN log, log[i].record # Legacy
                 PROVE  config.log /\ \E p \in Queries : query'[p].pc = "done" /\ log[i].record = RecordOf(p)'
      OBVIOUS
    <3>1. PICK p \in Queries : query[p].pc = "done" /\ log[i].record = RecordOf(p)
      BY <1>6 DEF LogInv
    <3>2. p # q
      BY <1>1, <3>1
    <3> QED BY <1>6, <1>7, <2>1, <3>1, <3>2 DEF LogInv
  <2>4. \A p \in Queries : query'[p].wrote => p \in glued \/ RecordOf(p)' \in Readable
    BY <1>3, <1>4, <1>6, <1>7, <2>1 DEF LogInv
  <2> QED BY <1>6, <1>7, <2>2, <2>3, <2>4 DEF LogInv
<1> QED BY <1>9, <1>10, <1>11, <1>12, <1>13 DEF ObsInv

\* A line more, or the end of a torn one.
LEMMA LogKeepsInv ==
    ASSUME ObsInv, NEW q \in Queries, LogDecision(q) PROVE ObsInv'
<1>1. PICK full \in BOOLEAN :
        /\ query[q].pc = "log" /\ UNCHANGED <<now, config, table, counters>>
        /\ \/ /\ config.log /\ (full \/ torn < MaxTorn)
              /\ log' = Appended(q, full)
              /\ torn' = (IF full THEN torn ELSE torn + 1)
              /\ glued' = (IF Unended THEN glued \union {q} ELSE glued)
              /\ query' = [query EXCEPT ![q] = [query[q] EXCEPT !.pc = "done", !.wrote = full]]
           \/ query' = [query EXCEPT ![q] = [query[q] EXCEPT !.pc = "done"]] /\ UNCHANGED logged
  BY DEF LogDecision, Step
<1>2. /\ query \in [Queries -> QueryRecs] /\ query[q] \in QueryRecs /\ QueryInv(q) /\ now \in Nat
      /\ query[q].saw \subseteq Inserted /\ query[q].at \in Nat
  BY ObsTyped
<1>3. BaseInv /\ RowInv /\ LogInv /\ \A p \in Queries : QueryInv(p)
  BY DEF ObsInv
<1>4. ~query[q].wrote
  BY <1>1, <1>2 DEF QueryInv
<1>5. PICK x \in QueryRecs :
        /\ query' = [query EXCEPT ![q] = x] /\ x.pc = "done"
        /\ x.source = query[q].source /\ x.fallback = query[q].fallback /\ x.event = query[q].event
        /\ x.error = query[q].error /\ x.ref = query[q].ref /\ x.at = query[q].at
        /\ x.saw = query[q].saw /\ x.blind = query[q].blind
        /\ \/ UNCHANGED logged /\ ~x.wrote
           \/ /\ config.log /\ (full \/ torn < MaxTorn) /\ x.wrote = full
              /\ log' = Appended(q, full)
              /\ torn' = (IF full THEN torn ELSE torn + 1)
              /\ glued' = (IF Unended THEN glued \union {q} ELSE glued)
  <2>1. [query[q] EXCEPT !.pc = "done"] \in QueryRecs /\ [query[q] EXCEPT !.pc = "done", !.wrote = full] \in QueryRecs
    BY <1>2 DEF QueryRecs, After
  <2>2. CASE query' = [query EXCEPT ![q] = [query[q] EXCEPT !.pc = "done"]] /\ UNCHANGED logged
    <3> DEFINE x == [query[q] EXCEPT !.pc = "done"]
    <3>1. /\ x.pc = "done" /\ x.source = query[q].source /\ x.fallback = query[q].fallback
          /\ x.event = query[q].event /\ x.error = query[q].error /\ x.ref = query[q].ref
          /\ x.at = query[q].at /\ x.saw = query[q].saw /\ x.wrote = query[q].wrote
          /\ x.blind = query[q].blind
      BY <1>2 DEF QueryRecs
    <3> QED BY <1>4, <2>1, <2>2, <3>1
  <2>3. CASE /\ config.log /\ (full \/ torn < MaxTorn)
             /\ log' = Appended(q, full)
             /\ torn' = (IF full THEN torn ELSE torn + 1)
             /\ glued' = (IF Unended THEN glued \union {q} ELSE glued)
             /\ query' = [query EXCEPT ![q] = [query[q] EXCEPT !.pc = "done", !.wrote = full]]
    <3> DEFINE x == [query[q] EXCEPT !.pc = "done", !.wrote = full]
    <3>1. /\ x.pc = "done" /\ x.source = query[q].source /\ x.fallback = query[q].fallback
          /\ x.event = query[q].event /\ x.error = query[q].error /\ x.ref = query[q].ref
          /\ x.at = query[q].at /\ x.saw = query[q].saw /\ x.wrote = full
          /\ x.blind = query[q].blind
      BY <1>2 DEF QueryRecs
    <3> QED BY <2>1, <2>3, <3>1
  <2> QED BY <1>1, <2>2, <2>3
<1>6. /\ query'[q] = x /\ \A p \in Queries \ {q} : query'[p] = query[p]
      /\ query' \in [Queries -> QueryRecs]
      /\ now' = now /\ config' = config /\ Inserted' = Inserted /\ (Counts' <=> Counts)
      /\ rows' = rows /\ open' = open /\ lost' = lost
      /\ requests' = requests /\ observed' = observed /\ failures' = failures
  BY <1>1, <1>2, <1>5 DEF Inserted, Counts, table, counters
<1>7. QueryInv(q)'
  BY <1>1, <1>2, <1>5, <1>6 DEF QueryInv, Before, After
<1>8. \A p \in Queries \ {q} : QueryInv(p)'
  <2>1. now' \in 0..MaxTime /\ now <= now'
    BY <1>2, <1>3, <1>6 DEF BaseInv
  <2> QED BY <1>3, <1>6, <2>1, OthersKeep
<1>9. RowInv'
  <2>1. \A p \in Queries : Clear(p)' <=> Clear(p)
    BY <1>5, <1>6 DEF Clear
  <2>2. \A e \in Inserted : e.query \in Queries
    BY <1>3 DEF RowInv, Inserted, ConflictRows
  <2>3. \A p \in Queries : /\ query'[p].saw = query[p].saw /\ query'[p].ref = query[p].ref
                           /\ query'[p].at = query[p].at /\ query'[p].error = query[p].error
                           /\ (query[p].pc \in After => query'[p].pc \in After)
                           /\ (query'[p].pc = "insert" => query[p].pc = "insert")
    BY <1>5, <1>6 DEF After
  <2>4. \A b \in rows \union open : b \in Inserted
    BY DEF Inserted
  <2> QED BY <1>3, <1>6, <2>1, <2>2, <2>3, <2>4 DEF RowInv
<1>10. \A p \in Queries : RecordOf(p)' = RecordOf(p)
  BY <1>5, <1>6 DEF RecordOf
<1>11. RecordOf(q) \in Decisions
  BY <1>2 DEF RecordOf, Decisions, QueryRecs, Normalized, Sources
<1>12. CASE UNCHANGED logged /\ ~x.wrote
  <2>1. log' = log /\ torn' = torn /\ glued' = glued
    BY <1>12 DEF logged
  <2>2. Readable' = Readable /\ (Unended' <=> Unended)
    BY <2>1 DEF Readable, Parses, Unended
  <2>3. \A i \in DOMAIN log :
          \/ log[i].record = Legacy
          \/ config.log /\ \E p \in Queries : query'[p].pc = "done" /\ log[i].record = RecordOf(p)'
    BY <1>3, <1>5, <1>6, <1>10 DEF LogInv
  <2>4. \A p \in Queries : query'[p].wrote => p \in glued \/ RecordOf(p)' \in Readable
    BY <1>3, <1>6, <1>10, <1>12 DEF LogInv
  <2>5. LogInv'
    BY <1>3, <1>6, <2>1, <2>2, <2>3, <2>4 DEF LogInv
  <2>6. BaseInv'
    BY <1>3, <1>6, <2>1 DEF BaseInv
  <2> QED BY <1>7, <1>8, <1>9, <2>5, <2>6 DEF ObsInv
<1>13. CASE /\ config.log /\ (full \/ torn < MaxTorn) /\ x.wrote = full
            /\ log' = Appended(q, full)
            /\ torn' = (IF full THEN torn ELSE torn + 1)
            /\ glued' = (IF Unended THEN glued \union {q} ELSE glued)
  <2>1. /\ torn \in 0..MaxTorn /\ torn \in Nat /\ torn' \in 0..MaxTorn /\ torn' \in Nat
        /\ glued' \subseteq Queries
    BY <1>3, <1>13, ObsAssumption DEF BaseInv
  <2>2. /\ log \in Seq(Lines) /\ Len(log) \in Nat /\ DOMAIN log = 1..Len(log)
        /\ \A i \in DOMAIN log : log[i] \in Lines
    BY <1>3 DEF LogInv
  <2>3. BaseInv'
    BY <1>3, <1>6, <2>1 DEF BaseInv
  <2>4. IsFiniteSet(glued) /\ Cardinality(glued) \in Nat
    BY <1>3, FS_CardinalityType DEF LogInv
  <2>5. IsFiniteSet(glued') /\ Cardinality(glued') \in Nat
        /\ (~Unended => glued' = glued) /\ (Unended => Cardinality(glued') <= Cardinality(glued) + 1)
    <3>1. CASE ~Unended
      BY <1>13, <2>4, <3>1
    <3>2. CASE Unended
      <4>1. glued' = glued \union {q}
        BY <1>13, <3>2
      <4>2. IsFiniteSet(glued \union {q})
            /\ Cardinality(glued \union {q}) = (IF q \in glued THEN Cardinality(glued) ELSE Cardinality(glued) + 1)
        BY <2>4, FS_AddElement
      <4> QED BY <2>4, <3>2, <4>1, <4>2
    <3> QED BY <3>1, <3>2
  <2>6. /\ log' \in Seq(Lines)
        /\ \A i \in DOMAIN log' : log'[i].whole => log'[i].ended
        /\ \A i \in DOMAIN log' : log'[i].record = RecordOf(q) \/ \E j \in DOMAIN log : log'[i].record = log[j].record
        /\ \A i \in DOMAIN log : log[i].whole => i \in DOMAIN log' /\ log'[i] = log[i]
        /\ Unended' <=> ~full
        /\ ~Unended /\ full => \E i \in DOMAIN log' : log'[i].whole /\ log'[i].record = RecordOf(q)
    <3> DEFINE n == Len(log)
    <3>1. CASE Unended
      <4>1. n # 0 /\ n \in DOMAIN log /\ ~log[n].ended /\ ~log[n].whole
        BY <1>3, <2>2, <3>1 DEF Unended, LogInv
      <4> DEFINE l == [log[n] EXCEPT !.whole = FALSE, !.ended = full]
      <4>2. log' = [log EXCEPT ![n] = l]
        BY <1>13, <3>1 DEF Appended
      <4>3. l \in Lines /\ l.record = log[n].record /\ ~l.whole /\ l.ended = full
        BY <2>2, <4>1 DEF Lines
      <4> HIDE DEF l
      <4>4. log' \in Seq(Lines) /\ Len(log') = n /\ DOMAIN log' = DOMAIN log
            /\ log'[n] = l /\ \A i \in DOMAIN log \ {n} : log'[i] = log[i]
        BY <2>2, <4>1, <4>2, <4>3
      <4>5. Unended' <=> ~full
        BY <4>1, <4>3, <4>4 DEF Unended
      <4>6. \A i \in DOMAIN log' : log'[i].whole => log'[i].ended
        <5>1. \A i \in DOMAIN log : log[i].whole => log[i].ended
          BY <1>3 DEF LogInv
        <5> QED BY <4>3, <4>4, <5>1
      <4> QED BY <3>1, <4>1, <4>3, <4>4, <4>5, <4>6
    <3>2. CASE ~Unended
      <4> DEFINE l == [record |-> RecordOf(q), whole |-> full, ended |-> full]
      <4>1. log' = Append(log, l)
        BY <1>13, <3>2 DEF Appended
      <4>2. l \in Lines /\ l.record = RecordOf(q) /\ l.whole = full /\ l.ended = full
        BY <1>11 DEF Lines
      <4> HIDE DEF l
      <4>3. /\ log' \in Seq(Lines) /\ Len(log') = n + 1 /\ DOMAIN log' = 1..(n + 1)
            /\ log'[n + 1] = l /\ \A i \in 1..n : log'[i] = log[i]
        BY <2>2, <4>1, <4>2
      <4>4. \A i \in 1..(n + 1) : i = n + 1 \/ i \in 1..n
        BY <2>2
      <4>5. \A i \in DOMAIN log : log[i].whole => log[i].ended
        BY <1>3 DEF LogInv
      <4>6. log' # <<>> /\ log'[Len(log')] = l
        BY <2>2, <4>3
      <4>7. Unended' <=> ~full
        BY <4>2, <4>6 DEF Unended
      <4>8. n + 1 \in DOMAIN log' /\ DOMAIN log = 1..n
        BY <2>2, <4>3
      <4>9. \A i \in DOMAIN log' : log'[i].whole => log'[i].ended
        BY <4>2, <4>3, <4>4, <4>5, <4>8
      <4>10. \A i \in DOMAIN log' : log'[i].record = RecordOf(q) \/ \E j \in DOMAIN log : log'[i].record = log[j].record
        BY <4>2, <4>3, <4>4, <4>8
      <4>11. \A i \in DOMAIN log : log[i].whole => i \in DOMAIN log' /\ log'[i] = log[i]
        BY <2>2, <4>3, <4>8
      <4> QED BY <3>2, <4>2, <4>3, <4>7, <4>8, <4>9, <4>10, <4>11
    <3> QED BY <3>1, <3>2
  <2>7. \A i \in DOMAIN log' :
          \/ log'[i].record = Legacy
          \/ config.log /\ \E p \in Queries : query'[p].pc = "done" /\ log'[i].record = RecordOf(p)'
    <3> SUFFICES ASSUME NEW i \in DOMAIN log', log'[i].record # Legacy
                 PROVE  \E p \in Queries : query'[p].pc = "done" /\ log'[i].record = RecordOf(p)'
      BY <1>13
    <3>1. CASE log'[i].record = RecordOf(q)
      BY <1>5, <1>6, <1>10, <3>1
    <3>2. CASE \E j \in DOMAIN log : log'[i].record = log[j].record
      <4>1. PICK p \in Queries : query[p].pc = "done" /\ log'[i].record = RecordOf(p)
        BY <1>3, <3>2 DEF LogInv
      <4> QED BY <1>5, <1>6, <1>10, <4>1
    <3> QED BY <2>6, <3>1, <3>2
  <2>8. Readable \subseteq Readable' /\ (~Unended /\ full => RecordOf(q) \in Readable')
    BY <2>6 DEF Readable, Parses
  <2>9. \A p \in Queries : query'[p].wrote => p \in glued' \/ RecordOf(p)' \in Readable'
    <3> SUFFICES ASSUME NEW p \in Queries, query'[p].wrote
                 PROVE  p \in glued' \/ RecordOf(p) \in Readable'
      BY <1>10
    <3>1. glued \subseteq glued' /\ (Unended => q \in glued')
      BY <1>13
    <3>2. CASE p = q
      <4>1. full
        BY <1>6, <1>13, <3>2
      <4> QED BY <2>8, <3>1, <3>2, <4>1
    <3>3. CASE p # q
      BY <1>3, <1>6, <2>8, <3>1, <3>3 DEF LogInv
    <3> QED BY <3>2, <3>3
  <2>10. Cardinality(glued') + (IF Unended' THEN 1 ELSE 0) <= torn'
    <3>1. Cardinality(glued) + (IF Unended THEN 1 ELSE 0) <= torn
      BY <1>3 DEF LogInv
    <3>2. torn' = (IF full THEN torn ELSE torn + 1)
      BY <1>13
    <3> QED BY <2>1, <2>4, <2>5, <2>6, <3>1, <3>2
  <2>11. LogInv'
    BY <1>6, <2>5, <2>6, <2>7, <2>9, <2>10 DEF LogInv
  <2> QED BY <1>7, <1>8, <1>9, <2>3, <2>11 DEF ObsInv
<1> QED BY <1>5, <1>12, <1>13

\* The caller commits or rolls back, and time passes.
LEMMA CallerKeepsInv ==
    ASSUME ObsInv, Commit \/ Rollback \/ ClockTick \/ UNCHANGED obsVars PROVE ObsInv'
<1>1. /\ query' = query /\ config' = config /\ UNCHANGED counters /\ UNCHANGED logged
      /\ Inserted' = Inserted /\ rows' \union open' \subseteq rows \union open
      /\ rows' \subseteq ConflictRows /\ open' \subseteq ConflictRows /\ lost' \subseteq ConflictRows
      /\ lost' \intersect (rows' \union open') = {} /\ rows' \intersect open' = {}
  <2> USE DEF ObsInv, RowInv, Inserted
  <2>1. CASE Commit BY <2>1 DEF Commit
  <2>2. CASE Rollback BY <2>2 DEF Rollback
  <2>3. CASE ClockTick BY <2>3 DEF ClockTick, table
  <2>4. CASE UNCHANGED obsVars BY <2>4 DEF obsVars, counters, logged
  <2> QED BY <2>1, <2>2, <2>3, <2>4
<1>2. BaseInv /\ RowInv /\ LogInv /\ \A p \in Queries : QueryInv(p)
  BY DEF ObsInv
<1>3. now' \in 0..MaxTime /\ now <= now'
  <2>1. now \in 0..MaxTime
    BY <1>2 DEF BaseInv
  <2>2. now' = now \/ (now < MaxTime /\ now' = now + 1)
    BY DEF Commit, Rollback, ClockTick, obsVars
  <2> QED BY <2>1, <2>2, ObsAssumption
<1>4. BaseInv'
  BY <1>1, <1>2, <1>3 DEF BaseInv, counters, logged
<1>5. \A p \in Queries : QueryInv(p)'
  BY <1>1, <1>2, <1>3, OthersKeep DEF counters
<1>6. RowInv'
  <2>1. \A p \in Queries : Clear(p) => Clear(p)'
    BY <1>1 DEF Clear
  <2>2. \A b \in rows \union open : Clear(b.query) /\ b.query \in Queries
    BY <1>2 DEF RowInv, ConflictRows
  <2>3. \A b \in rows' \union open' : Clear(b.query)'
    BY <1>1, <2>1, <2>2
  <2> QED BY <1>1, <1>2, <2>1, <2>3 DEF RowInv
<1>7. LogInv'
  <2>1. \A p \in Queries : RecordOf(p)' = RecordOf(p)
    BY <1>1 DEF RecordOf
  <2>2. log' = log /\ glued' = glued /\ torn' = torn
    BY <1>1 DEF logged
  <2>3. Readable' = Readable /\ (Unended' <=> Unended)
    BY <2>2 DEF Readable, Parses, Unended
  <2> QED BY <1>1, <1>2, <2>1, <2>2, <2>3 DEF LogInv
<1> QED BY <1>4, <1>5, <1>6, <1>7 DEF ObsInv

\* An owner's sqlite3.Row stays on the connection, so that no look is blind.
LEMMA FactoryStepInv ==
    ASSUME ObsInv, FactoryInv, [ObsNext]_obsVars PROVE FactoryInv'
<1> DEFINE Held(x) == x.pc \in {"swap", "stamp", "select", "insert", "restore"} => x.saved \in Factories
           Sighted(x) == x.saved # "tuple" /\ ~x.blind
<1>1. query \in [Queries -> QueryRecs] /\ config \in Configs
  BY DEF ObsInv, BaseInv
<1>2. ASSUME NEW q \in Queries, NEW x, query' = [query EXCEPT ![q] = x], config' = config,
             factory' \in Factories, Held(x),
             config.factory = "row" => factory' = "row" /\ Sighted(x)
      PROVE  FactoryInv'
  <2>1. /\ query'[q] = x /\ \A p \in Queries \ {q} : query'[p] = query[p]
    BY <1>1, <1>2
  <2> QED BY <1>2, <2>1 DEF FactoryInv
<1>3. ASSUME NEW q \in Queries, NEW s \in Sources, Enter(q, s) PROVE FactoryInv'
  <2> DEFINE x == [Begun EXCEPT !.pc = "dispatch", !.source = s]
  <2>1. query' = [query EXCEPT ![q] = x] /\ config' = config /\ factory' = factory
    BY <1>3 DEF Enter, Step, table
  <2>2. Held(x) /\ Sighted(x)
    BY DEF Begun
  <2> QED BY <1>2, <2>1, <2>2 DEF FactoryInv
<1>4. ASSUME NEW q \in Queries,
             \/ PrimaryRaises(q) \/ Skip(q)
             \/ \E o \in DualOutcomes, fallback \in BOOLEAN, ref \in Refs : Arbitrate(q, o, fallback, ref)
             \/ StampConflict(q) \/ Insert(q) \/ WriteFails(q) \/ RecordOutcome(q) \/ LogDecision(q)
      PROVE  FactoryInv'
  <2>1. /\ config' = config /\ factory' = factory
        /\ \A p \in Queries \ {q} : query'[p] = query[p]
        /\ query'[q].saved = query[q].saved /\ query'[q].blind = query[q].blind
        /\ query[q].pc \notin {"swap", "stamp", "select", "insert", "restore"} =>
             query'[q].pc \notin {"swap", "stamp", "select", "insert", "restore"}
    <3> USE <1>1 DEF Step, table, QueryRecs
    <3>1. CASE PrimaryRaises(q) BY <3>1 DEF PrimaryRaises
    <3>2. CASE Skip(q) BY <3>2 DEF Skip
    <3>3. ASSUME NEW o \in DualOutcomes, NEW fallback \in BOOLEAN, NEW ref \in Refs,
                 Arbitrate(q, o, fallback, ref)
          PROVE  /\ config' = config /\ factory' = factory
                 /\ \A p \in Queries \ {q} : query'[p] = query[p]
                 /\ query'[q].saved = query[q].saved /\ query'[q].blind = query[q].blind
                 /\ query'[q].pc \in {"save", "record"}
      BY <3>3 DEF Arbitrate
    <3>4. CASE StampConflict(q) BY <3>4 DEF StampConflict
    <3>5. CASE Insert(q) BY <3>5 DEF Insert
    <3>6. CASE WriteFails(q) BY <3>6 DEF WriteFails
    <3>7. CASE RecordOutcome(q) BY <3>7 DEF RecordOutcome
    <3>8. CASE LogDecision(q)
      <4>1. config' = config /\ factory' = factory /\ query[q].pc = "log"
        BY <3>8 DEF LogDecision
      <4>2. CASE \E full \in BOOLEAN :
                   query' = [query EXCEPT ![q] = [query[q] EXCEPT !.pc = "done", !.wrote = full]]
        BY <4>1, <4>2
      <4>3. CASE query' = [query EXCEPT ![q] = [query[q] EXCEPT !.pc = "done"]]
        BY <4>1, <4>3
      <4> QED BY <3>8, <4>2, <4>3 DEF LogDecision
    <3> QED BY <1>4, <3>1, <3>2, <3>3, <3>4, <3>5, <3>6, <3>7, <3>8
  <2> QED BY <2>1 DEF FactoryInv
<1>5. ASSUME NEW q \in Queries, SaveFactory(q) PROVE FactoryInv'
  <2> DEFINE x == [query[q] EXCEPT !.pc = "swap", !.saved = factory]
  <2>1. query' = [query EXCEPT ![q] = x] /\ config' = config /\ factory' = factory
    BY <1>5 DEF SaveFactory, Step, table
  <2>2. x.saved = factory /\ x.blind = query[q].blind /\ factory \in Factories
    BY <1>1 DEF QueryRecs, FactoryInv
  <2>3. Held(x) /\ (config.factory = "row" => Sighted(x))
    BY <2>2 DEF FactoryInv
  <2> HIDE DEF x
  <2> QED BY <1>2, <2>1, <2>3 DEF FactoryInv
<1>6. ASSUME NEW q \in Queries, SwapFactory(q) PROVE FactoryInv'
  <2> DEFINE x == [query[q] EXCEPT !.pc = "stamp"]
  <2>1. query' = [query EXCEPT ![q] = x] /\ config' = config /\ factory' = "row" /\ query[q].pc = "swap"
    BY <1>6 DEF SwapFactory, Step
  <2>2. x.saved = query[q].saved /\ x.blind = query[q].blind
    BY <1>1 DEF QueryRecs
  <2>3. Held(x) /\ (config.factory = "row" => Sighted(x))
    BY <2>1, <2>2 DEF FactoryInv
  <2> HIDE DEF x
  <2>4. factory' \in Factories
    BY <2>1 DEF Factories
  <2> QED BY <1>2, <2>1, <2>3, <2>4
<1>7. ASSUME NEW q \in Queries, RestoreFactory(q) PROVE FactoryInv'
  <2> DEFINE x == [query[q] EXCEPT !.pc = "record"]
  <2>1. query' = [query EXCEPT ![q] = x] /\ config' = config /\ factory' = query[q].saved
        /\ query[q].pc = "restore"
    BY <1>7 DEF RestoreFactory, Step
  <2>2. x.saved = query[q].saved /\ x.blind = query[q].blind /\ x.pc = "record"
    BY <1>1 DEF QueryRecs
  <2>3. Held(x) /\ (config.factory = "row" => Sighted(x))
    BY <2>2 DEF FactoryInv
  <2> HIDE DEF x
  <2>4. factory' \in Factories /\ (config.factory = "row" => factory' = "row")
    BY <2>1 DEF FactoryInv, Factories
  <2> QED BY <1>2, <2>1, <2>3, <2>4
<1>8. ASSUME NEW q \in Queries, Select(q) PROVE FactoryInv'
  <2>1. query[q].pc = "select" /\ config' = config /\ factory' = factory
    BY <1>8 DEF Select, table
  <2>2. CASE Found(q) = {}
    <3> DEFINE x == [query[q] EXCEPT !.pc = "insert", !.blind = factory # "row"]
    <3>1. query' = [query EXCEPT ![q] = x]
      BY <1>8, <2>2 DEF Select, Step
    <3>2. x.saved = query[q].saved /\ (factory = "row" => ~x.blind)
      BY <1>1 DEF QueryRecs
    <3>3. Held(x) /\ (config.factory = "row" => Sighted(x))
      BY <2>1, <3>2 DEF FactoryInv
    <3> HIDE DEF x
    <3> QED BY <1>2, <2>1, <3>1, <3>3 DEF FactoryInv
  <2>3. CASE Found(q) # {}
    <3> DEFINE x == [query[q] EXCEPT !.pc = "restore", !.event = Newest(Found(q)).query]
    <3>1. query' = [query EXCEPT ![q] = x]
      BY <1>8, <2>3 DEF Select, Step
    <3>2. x.saved = query[q].saved /\ x.blind = query[q].blind
      BY <1>1 DEF QueryRecs
    <3>3. Held(x) /\ (config.factory = "row" => Sighted(x))
      BY <2>1, <3>2 DEF FactoryInv
    <3> HIDE DEF x
    <3> QED BY <1>2, <2>1, <3>1, <3>3 DEF FactoryInv
  <2> QED BY <2>2, <2>3
<1>9. CASE Commit \/ Rollback \/ ClockTick \/ UNCHANGED obsVars
  <2>1. UNCHANGED <<config, factory, query>>
    BY <1>9 DEF Commit, Rollback, ClockTick, obsVars, table
  <2> QED BY <2>1 DEF FactoryInv
<1> QED BY <1>3, <1>4, <1>5, <1>6, <1>7, <1>8, <1>9 DEF ObsNext

\* Every step keeps the invariant.
LEMMA ObsStepInv == ObserversInv /\ [ObsNext]_obsVars => ObserversInv'
<1> SUFFICES ASSUME ObserversInv, [ObsNext]_obsVars PROVE ObserversInv' OBVIOUS
<1>0. ObsInv /\ FactoryInv
  BY DEF ObserversInv
<1>1. ASSUME NEW q \in Queries,
             \/ \E s \in Sources : Enter(q, s)
             \/ PrimaryRaises(q) \/ Skip(q)
             \/ \E o \in DualOutcomes, fallback \in BOOLEAN, ref \in Refs : Arbitrate(q, o, fallback, ref)
             \/ SaveFactory(q) \/ SwapFactory(q) \/ StampConflict(q) \/ Select(q) \/ Insert(q)
             \/ WriteFails(q) \/ RestoreFactory(q) \/ RecordOutcome(q) \/ LogDecision(q)
      PROVE  ObsInv'
  BY <1>0, <1>1, EnterKeepsInv, DispatchKeepsInv, FactoryKeepsInv, StampKeepsInv, SelectKeepsInv,
     InsertKeepsInv, WriteFailsKeepsInv, RecordKeepsInv, LogKeepsInv
<1>2. ObsInv'
  BY <1>0, <1>1, CallerKeepsInv DEF ObsNext
<1> QED BY <1>0, <1>2, FactoryStepInv DEF ObserversInv

\* The inductive invariant is at least the one of the runs.
LEMMA ObsInvSafe == ObserversInv => ObserverSafety
<1> SUFFICES ASSUME ObserversInv PROVE ObserverSafety OBVIOUS
<1>0. BaseInv /\ RowInv /\ LogInv /\ (\A p \in Queries : QueryInv(p)) /\ FactoryInv
  BY DEF ObsInv, ObserversInv
<1>1. \A e \in Inserted : /\ e \in ConflictRows /\ e.query \in Queries /\ e.at \in 0..MaxTime
                          /\ e.at <= now /\ query[e.query].ref = e.ref /\ query[e.query].at = e.at
  <2> SUFFICES ASSUME NEW e \in Inserted
               PROVE  /\ e \in ConflictRows /\ e.query \in Queries /\ e.at \in 0..MaxTime
                      /\ e.at <= now /\ query[e.query].ref = e.ref /\ query[e.query].at = e.at
    OBVIOUS
  <2>1. e \in ConflictRows
    BY <1>0 DEF RowInv, Inserted
  <2>2. e.query \in Queries /\ e.at \in 0..MaxTime
    BY <2>1 DEF ConflictRows
  <2>3. query[e.query].ref = e.ref /\ query[e.query].at = e.at
    BY <1>0 DEF RowInv
  <2>4. query[e.query].at <= now
    BY <1>0, <2>2 DEF QueryInv
  <2> QED BY <2>1, <2>2, <2>3, <2>4
<1>2. ObsTypeOK
  <2>1. Inserted \subseteq [query : Queries, ref : Refs, at : 0..now]
    <3> SUFFICES ASSUME NEW e \in Inserted PROVE e \in [query : Queries, ref : Refs, at : 0..now]
      OBVIOUS
    <3>1. e \in ConflictRows /\ e.at \in 0..MaxTime /\ e.at <= now /\ now \in 0..MaxTime
      BY <1>0, <1>1 DEF BaseInv
    <3>2. e.at \in 0..now
      BY <3>1, ObsAssumption
    <3> QED BY <3>1, <3>2 DEF ConflictRows
  <2>2. \A q \in Queries : query[q].pc \in
          {"idle", "dispatch", "save", "swap", "stamp", "select", "insert", "restore", "record",
           "log", "done"}
    BY <1>0 DEF BaseInv, QueryRecs, Before, After
  <2>3. \A i \in DOMAIN log : log[i].whole \in BOOLEAN /\ log[i].ended \in BOOLEAN
    <3>1. \A i \in DOMAIN log : log[i] \in Lines
      BY <1>0 DEF LogInv
    <3> QED BY <3>1 DEF Lines
  <2> QED BY <1>0, <2>1, <2>2, <2>3 DEF ObsTypeOK, BaseInv, Inserted, FactoryInv
<1>3. SettledConflictNotDoubled
  <2> SUFFICES ASSUME NEW a \in rows \union open, NEW b \in rows \union open,
                      a.ref = b.ref, b.at <= a.at + Hour, a \in query[b.query].saw,
                      ~(query[b.query].blind /\ config.factory # "row")
               PROVE  FALSE
    BY DEF SettledConflictNotDoubled
  <2>1. Clear(b.query)
    BY <1>0 DEF RowInv
  <2>2. a \in Inserted /\ b \in Inserted
    BY DEF Inserted
  <2>5. ~query[b.query].blind
    BY <1>0, <1>1, <2>2 DEF FactoryInv
  <2>3. a.at + Hour < b.at
    BY <1>1, <2>1, <2>2, <2>5 DEF Clear
  <2>4. a.at \in Nat /\ b.at \in Nat
    BY <1>1, <2>2, ObsAssumption
  <2> QED BY <2>3, <2>4, ObsAssumption
<1>4. \A r \in Readable \ {Legacy} :
        config.log /\ \E q \in Queries : query[q].pc = "done" /\ r = RecordOf(q)
  BY <1>0 DEF Readable, LogInv
<1>5. LogTellsOfEvents
  <2> SUFFICES ASSUME NEW r \in Readable \ {Legacy}
               PROVE  /\ r.error => \A e \in Inserted : e.query # r.query
                      /\ r.error <=> r.query \in failures
                      /\ r.event # NoEvent => \E e \in Inserted :
                           /\ e.query = r.event /\ e.ref = query[r.query].ref
                           /\ e.at + Hour >= query[r.query].at
                      /\ config.events /\ r.fallback => r.error \/ r.event # NoEvent
    BY DEF LogTellsOfEvents, Inserted
  <2>1. PICK q \in Queries : query[q].pc = "done" /\ r = RecordOf(q)
    BY <1>4
  <2>2. /\ r.query = q /\ r.error = query[q].error /\ r.event = query[q].event
        /\ r.fallback = query[q].fallback
    BY <2>1 DEF RecordOf
  <2>3. \A e \in Inserted : e.query = q => ~query[q].error
    BY <1>0 DEF RowInv
  <2>4. QueryInv(q)
    BY <1>0
  <2> QED BY <2>1, <2>2, <2>3, <2>4 DEF QueryInv, After
<1>6. AttemptsCoverRecords
  <2>1. ASSUME config.dual, NEW r \in Readable \ {Legacy} PROVE r.query \in requests
    <3>1. PICK q \in Queries : query[q].pc = "done" /\ r = RecordOf(q) /\ config.log
      BY <1>4
    <3>2. r.query = q /\ Counts
      BY <2>1, <3>1 DEF RecordOf, Counts
    <3> QED BY <1>0, <3>1, <3>2 DEF QueryInv
  <2>2. \A q \in requests : query[q].pc = "done" /\ q \notin observed => query[q].outcome = "none"
    BY <1>0 DEF BaseInv, QueryInv
  <2> QED BY <2>1, <2>2 DEF AttemptsCoverRecords
<1>7. UnknownIsLegacy
  <2>1. \A r \in Readable \ {Legacy} : r.source # "missing"
    BY <1>4 DEF RecordOf, Normalized
  <2> QED BY <2>1 DEF UnknownIsLegacy, Partition
<1>8. LossesAreTorn
  <2>1. Cardinality(glued) + (IF Unended THEN 1 ELSE 0) <= torn
    BY <1>0 DEF LogInv
  <2>2. Cardinality(glued) \in Nat /\ torn \in Nat
    BY <1>0, FS_CardinalityType DEF LogInv, BaseInv
  <2>3. Cardinality(glued) <= torn
    BY <2>1, <2>2
  <2> QED BY <1>0, <2>3 DEF LossesAreTorn, LogInv
<1> QED BY <1>2, <1>3, <1>5, <1>6, <1>7, <1>8 DEF ObserverSafety

\* ObserverSafety (DualReadRouter._record, write_conflict_event, append_decision): a conflict
\* is not doubled within the hour, the log tells the truth about the events table, attempts
\* cover records, and one torn write costs at most one line more.
THEOREM ObserversAreSafe == ObsSpec => []ObserverSafety
<1> QED BY ObsInitInv, ObsStepInv, ObsInvSafe, PTL DEF ObsSpec

------------------------------------------------------------------------------
(* -------------------------------- canary -------------------------------- *)

LedgerRows == [stage : Stages, outcome : OutcomeKinds]
SpanRecs == [pc : {"idle", "audit", "outcome"}, event : Events \union {"none"},
             stage : Stages \union {"none"}, outcome : OutcomeKinds \union {"none"},
             error : BOOLEAN, auditOk : BOOLEAN]
SnapRecs == [present : BOOLEAN, clean : BOOLEAN, quiet : BOOLEAN, rev : Nat, sure : Nat,
             events : [Stages -> [OutcomeKinds -> Nat]], errors : [Stages -> Nat],
             durations : [Stages -> Nat], state : {"unknown", "known"}]
ScrapeRecs == [pc : {"idle", "events", "errors", "durations", "state"}, snap : SnapRecs]
GateRecs == [pc : {"idle", "counts", "pass", "other"}, stage : Stages \union {"none"},
             joined : Nat, errors : Nat, lost : SUBSET Events, rev : Nat]

\* The spans that are measured and not yet recorded.
Unrecorded == {p \in Producers : span[p].pc # "idle"}

\* The two tables are finite: Init has no rows, and a step adds one at most.
TableInv ==
    /\ tables \subseteq {"audit_log", "canary_outcomes"}
    /\ DOMAIN audit \subseteq Events /\ IsFiniteSet(DOMAIN audit)
    /\ audit \in [DOMAIN audit -> BOOLEAN]
    /\ DOMAIN ledger \subseteq Events /\ IsFiniteSet(DOMAIN ledger)
    /\ ledger \in [DOMAIN ledger -> LedgerRows]
    /\ rolled \in {"unknown", "known"}

\* A row is changed by a span, and a span is recorded once.
SpanInv ==
    /\ span \in [Producers -> SpanRecs]
    /\ \A p \in Unrecorded :
         /\ span[p].event \in Events
         /\ [stage |-> span[p].stage, outcome |-> span[p].outcome] \in LedgerRows
         /\ (span[p].pc = "outcome" /\ span[p].auditOk => span[p].event \in DOMAIN audit)
    /\ IsFiniteSet(Unrecorded)
    /\ spans \in 0..MaxSpans /\ rev \in Nat
    /\ rev + Cardinality(Unrecorded) <= spans
    /\ certified \subseteq DOMAIN audit /\ certified \subseteq DOMAIN ledger

AtMostCells(snap) == \A s \in Stages, o \in OutcomeKinds : snap.events[s][o] <= Cell(s, o)

\* The snapshot in progress: what each query that ran has put there.
ScrapeInv ==
    LET n == scrape.snap
        past == scrape.pc \in {"errors", "durations", "state"}
        tallied == past /\ n.clean
        joined == scrape.pc \in {"durations", "state"} /\ n.clean
        timed == scrape.pc = "state" /\ n.clean
    IN
    /\ scrape \in ScrapeRecs
    /\ n.sure <= Cardinality(certified)
    /\ (n.present => past /\ n.rev <= rev)
    /\ (n.present /\ n.rev = rev => AtMostCells(n))
    /\ (scrape.pc = "idle" => n.quiet)
    /\ (tallied => n.present /\ n.sure <= Cardinality(LedgerMarks(n)))
    /\ (timed => n.sure <= Cardinality(DurationMarks(n)))
    /\ (tallied /\ n.quiet => \A s \in Stages, o \in OutcomeKinds : n.events[s][o] = Cell(s, o))
    /\ (joined /\ n.quiet => \A s \in Stages : n.errors[s] = Cardinality(InError(s)))
    /\ (timed /\ n.quiet => \A s \in Stages : n.durations[s] = Cardinality(Joined(s)))

\* The snapshot that is served is older than the one in progress.
ServedInv ==
    /\ cached \in SnapRecs
    /\ CertifiedIsExported /\ QuietScrapeAgrees
    /\ (cached.present => cached.rev <= rev)
    /\ (cached.present /\ cached.rev = rev => AtMostCells(cached))
    /\ (cached.present /\ scrape.snap.present =>
          /\ cached.rev <= scrape.snap.rev
          /\ (cached.rev = scrape.snap.rev =>
                \A s \in Stages, o \in OutcomeKinds : cached.events[s][o] <= scrape.snap.events[s][o]))

LossesOf(s) == {e \in OfStage(s) : ledger[e].outcome = "data_loss"}

\* Between the gate's two queries, a loss stays in the ledger.
VerdictInv ==
    /\ gate \in GateRecs
    /\ gate.rev <= rev
    /\ (gate.pc = "counts" /\ gate.rev = rev => gate.lost \subseteq LossesOf(gate.stage))
    /\ PassIsEarned

CanaryInv == TableInv /\ SpanInv /\ ScrapeInv /\ ServedInv /\ VerdictInv

-----------------------------------------------------------------------------
\* A finite set whose members fall into classes, n[c] of each class c at least
\* tallied, has no more members than there are marks for the counts.
LEMMA MarksCount ==
    ASSUME NEW C, IsFiniteSet(C), NEW n \in [C -> Nat],
           NEW D, IsFiniteSet(D), NEW class \in [D -> C],
           \A c \in C : Cardinality({d \in D : class[d] = c}) = n[c]
    PROVE  LET marks == UNION {{c} \X (1..n[c]) : c \in C}
           IN  IsFiniteSet(marks) /\ Cardinality(D) <= Cardinality(marks)
<1> DEFINE marks == UNION {{c} \X (1..n[c]) : c \in C}
           Of(c) == {d \in D : class[d] = c}
           num == [c \in C |-> CHOOSE f : f \in Bijection(1..n[c], Of(c))]
           mark == [d \in D |-> <<class[d], CHOOSE i \in 1..n[class[d]] : num[class[d]][i] = d>>]
<1>1. ASSUME NEW c \in C PROVE num[c] \in Bijection(1..n[c], Of(c))
  <2>1. IsFiniteSet(Of(c)) BY FS_Subset
  <2>2. ExistsBijection(1..n[c], Of(c)) BY <2>1, FS_CardinalityType
  <2>3. \E f : f \in Bijection(1..n[c], Of(c)) BY <2>2 DEF ExistsBijection
  <2> QED BY <2>3
<1>2. IsFiniteSet(marks)
  <2> DEFINE parts == {{c} \X (1..n[c]) : c \in C}
             part == [c \in C |-> {c} \X (1..n[c])]
  <2>1. part \in Surjection(C, parts) BY DEF Surjection
  <2>2. IsFiniteSet(parts)
    <3> HIDE DEF part, parts
    <3> QED BY <2>1, FS_Surjection
  <2>3. ASSUME NEW c \in C PROVE IsFiniteSet({c} \X (1..n[c]))
    <3>1. IsFiniteSet({c}) BY FS_Singleton
    <3>2. 1 \in Int /\ n[c] \in Int OBVIOUS
    <3>3. IsFiniteSet(1..n[c]) BY <3>2, FS_Interval
    <3> QED BY <3>1, <3>3, FS_Product
  <2>4. \A T \in parts : IsFiniteSet(T) BY <2>3
  <2> HIDE DEF parts
  <2>5. IsFiniteSet(UNION parts) BY <2>2, <2>4, FS_UNION
  <2> QED BY <2>5 DEF parts
<1>3. ASSUME NEW d \in D
      PROVE  /\ mark[d][1] = class[d] /\ mark[d][2] \in 1..n[class[d]]
             /\ num[class[d]][mark[d][2]] = d /\ mark[d] \in marks
  <2>1. class[d] \in C /\ d \in Of(class[d]) OBVIOUS
  <2>2. num[class[d]] \in Bijection(1..n[class[d]], Of(class[d])) BY <1>1, <2>1
  <2> HIDE DEF num
  <2>3. \E i \in 1..n[class[d]] : num[class[d]][i] = d
    BY <2>1, <2>2 DEF Bijection, Surjection
  <2>4. (CHOOSE i \in 1..n[class[d]] : num[class[d]][i] = d) \in 1..n[class[d]]
        /\ num[class[d]][CHOOSE i \in 1..n[class[d]] : num[class[d]][i] = d] = d
    BY <2>3
  <2>5. mark[d][1] = class[d] /\ mark[d][2] \in 1..n[class[d]]
        /\ num[class[d]][mark[d][2]] = d
    BY <2>4
  <2>6. mark[d] = <<class[d], mark[d][2]>> OBVIOUS
  <2> HIDE DEF mark
  <2>7. mark[d] \in {class[d]} \X (1..n[class[d]]) BY <2>5, <2>6
  <2> QED BY <2>1, <2>5, <2>7
<1> HIDE DEF mark, marks, num
<1>4. mark \in [D -> marks] BY <1>3 DEF mark
<1>5. ASSUME NEW d \in D, NEW e \in D, mark[d] = mark[e] PROVE d = e
  BY <1>3, <1>5
<1>6. mark \in Injection(D, marks)
  <2>1. \A d, e \in D : mark[d] = mark[e] => d = e BY <1>5
  <2> QED BY <1>4, <2>1, Fun_IsInj
<1>7. Cardinality(D) <= Cardinality(marks) BY <1>2, <1>6, FS_Injection
<1> QED BY <1>2, <1>7 DEF marks

-----------------------------------------------------------------------------
\* The sets that the queries count are finite.
LEMMA CountsAreNat ==
    ASSUME TableInv, NEW s \in Stages
    PROVE  /\ IsFiniteSet(OfStage(s)) /\ IsFiniteSet(Joined(s)) /\ IsFiniteSet(InError(s))
           /\ \A o \in OutcomeKinds : /\ IsFiniteSet({e \in OfStage(s) : ledger[e].outcome = o})
                                      /\ Cell(s, o) \in Nat
           /\ Cardinality(OfStage(s)) \in Nat
           /\ Cardinality(Joined(s)) \in Nat /\ Cardinality(InError(s)) \in Nat
<1>1. OfStage(s) \subseteq DOMAIN ledger /\ Joined(s) \subseteq DOMAIN ledger
      /\ InError(s) \subseteq DOMAIN ledger
  BY DEF OfStage, Joined, InError
<1>2. IsFiniteSet(DOMAIN ledger) BY DEF TableInv
<1>3. IsFiniteSet(OfStage(s)) /\ IsFiniteSet(Joined(s)) /\ IsFiniteSet(InError(s))
  BY <1>1, <1>2, FS_Subset
<1>4. ASSUME NEW o \in OutcomeKinds
      PROVE  /\ IsFiniteSet({e \in OfStage(s) : ledger[e].outcome = o}) /\ Cell(s, o) \in Nat
  <2>1. IsFiniteSet({e \in OfStage(s) : ledger[e].outcome = o}) BY <1>3, FS_Subset
  <2> QED BY <2>1, FS_CardinalityType DEF Cell
<1>5. /\ Cardinality(OfStage(s)) \in Nat
      /\ Cardinality(Joined(s)) \in Nat /\ Cardinality(InError(s)) \in Nat
  BY <1>3, FS_CardinalityType
<1> QED BY <1>3, <1>4, <1>5

\* The metric of the outcomes counts every row of the ledger.
LEMMA LedgerIsCounted ==
    ASSUME TableInv, NEW snap \in SnapRecs,
           \A s \in Stages, o \in OutcomeKinds : snap.events[s][o] = Cell(s, o)
    PROVE  /\ IsFiniteSet(LedgerMarks(snap))
           /\ Cardinality(DOMAIN ledger) <= Cardinality(LedgerMarks(snap))
<1> DEFINE C == Stages \X OutcomeKinds
           D == DOMAIN ledger
           n == [c \in C |-> snap.events[c[1]][c[2]]]
           class == [e \in D |-> <<ledger[e].stage, ledger[e].outcome>>]
<1>1. IsFiniteSet(C)
  <2>1. IsFiniteSet({"ok"}) /\ IsFiniteSet({"discrepancy"}) /\ IsFiniteSet({"data_loss"})
    BY FS_Singleton
  <2>2. IsFiniteSet({"ok"} \union {"discrepancy"} \union {"data_loss"}) BY <2>1, FS_Union
  <2>3. OutcomeKinds = {"ok"} \union {"discrepancy"} \union {"data_loss"} BY DEF OutcomeKinds
  <2>4. IsFiniteSet(OutcomeKinds) BY <2>2, <2>3
  <2> QED BY <2>4, CanaryAssumption, FS_Product
<1>2. IsFiniteSet(D) BY DEF TableInv
<1>3. ASSUME NEW c \in C PROVE c[1] \in Stages /\ c[2] \in OutcomeKinds
  OBVIOUS
<1>4. n \in [C -> Nat]
  <2>1. ASSUME NEW c \in C PROVE snap.events[c[1]][c[2]] \in Nat
    <3>1. snap.events \in [Stages -> [OutcomeKinds -> Nat]] BY DEF SnapRecs
    <3> QED BY <1>3, <3>1
  <2> QED BY <2>1
<1>5. ASSUME NEW e \in D PROVE ledger[e].stage \in Stages /\ ledger[e].outcome \in OutcomeKinds
  BY DEF TableInv, LedgerRows
<1>6. class \in [D -> C] BY <1>5
<1>7. ASSUME NEW c \in C PROVE Cardinality({e \in D : class[e] = c}) = n[c]
  <2>1. c = <<c[1], c[2]>> OBVIOUS
  <2>2. {e \in D : class[e] = c} = {e \in OfStage(c[1]) : ledger[e].outcome = c[2]}
    BY <2>1 DEF OfStage
  <2>3. n[c] = Cell(c[1], c[2]) BY <1>3
  <2> QED BY <2>2, <2>3 DEF Cell
<1>8. LedgerMarks(snap) = UNION {{c} \X (1..n[c]) : c \in C} BY DEF LedgerMarks
<1> HIDE DEF C, D, n, class
<1>9. /\ IsFiniteSet(UNION {{c} \X (1..n[c]) : c \in C})
      /\ Cardinality(D) <= Cardinality(UNION {{c} \X (1..n[c]) : c \in C})
  BY <1>1, <1>2, <1>4, <1>6, <1>7, MarksCount
<1> QED BY <1>8, <1>9 DEF D

\* And the histogram of the durations, every row that both tables have.
LEMMA DurationsAreCounted ==
    ASSUME TableInv, NEW snap \in SnapRecs,
           \A s \in Stages : snap.durations[s] = Cardinality(Joined(s))
    PROVE  /\ IsFiniteSet(DurationMarks(snap))
           /\ Cardinality(DOMAIN ledger \intersect DOMAIN audit) <= Cardinality(DurationMarks(snap))
<1> DEFINE D == DOMAIN ledger \intersect DOMAIN audit
           n == snap.durations
           class == [e \in D |-> ledger[e].stage]
<1>1. IsFiniteSet(Stages) BY CanaryAssumption
<1>2. IsFiniteSet(D) BY FS_Intersection DEF TableInv
<1>3. n \in [Stages -> Nat] BY DEF SnapRecs
<1>4. class \in [D -> Stages] BY DEF TableInv, LedgerRows
<1>5. ASSUME NEW s \in Stages PROVE Cardinality({e \in D : class[e] = s}) = n[s]
  <2>1. {e \in D : class[e] = s} = Joined(s) BY DEF Joined, OfStage
  <2> QED BY <2>1
<1>6. DurationMarks(snap) = UNION {{c} \X (1..n[c]) : c \in Stages} BY DEF DurationMarks
<1> HIDE DEF D, n, class
<1>7. /\ IsFiniteSet(UNION {{c} \X (1..n[c]) : c \in Stages})
      /\ Cardinality(D) <= Cardinality(UNION {{c} \X (1..n[c]) : c \in Stages})
  BY <1>1, <1>2, <1>3, <1>4, <1>5, MarksCount
<1> QED BY <1>6, <1>7 DEF D

\* What was certified is in both tables.
LEMMA CertifiedAreFew ==
    ASSUME TableInv, SpanInv
    PROVE  /\ IsFiniteSet(certified) /\ Cardinality(certified) \in Nat
           /\ Cardinality(certified) <= Cardinality(DOMAIN ledger)
           /\ Cardinality(certified) <= Cardinality(DOMAIN ledger \intersect DOMAIN audit)
           /\ Cardinality(DOMAIN ledger) \in Nat
           /\ Cardinality(DOMAIN ledger \intersect DOMAIN audit) \in Nat
<1>1. IsFiniteSet(DOMAIN ledger) /\ IsFiniteSet(DOMAIN ledger \intersect DOMAIN audit)
  BY FS_Intersection DEF TableInv
<1>2. certified \in SUBSET DOMAIN ledger
      /\ certified \in SUBSET (DOMAIN ledger \intersect DOMAIN audit)
  BY DEF SpanInv
<1> QED BY <1>1, <1>2, FS_Subset, FS_CardinalityType

\* The counts of one moment agree with each other.
LEMMA CountsAgree ==
    ASSUME TableInv, NEW s \in Stages
    PROVE  /\ Cardinality(InError(s)) <= Cardinality(Joined(s))
           /\ Cardinality(Joined(s)) <= Cell(s, "ok") + Cell(s, "discrepancy") + Cell(s, "data_loss")
<1> DEFINE Of(o) == {e \in OfStage(s) : ledger[e].outcome = o}
<1>1. IsFiniteSet(OfStage(s)) /\ IsFiniteSet(Joined(s)) BY CountsAreNat
<1>2. Cardinality(InError(s)) <= Cardinality(Joined(s))
  BY <1>1, FS_Subset DEF InError
<1>3. Cardinality(Joined(s)) <= Cardinality(OfStage(s))
  BY <1>1, FS_Subset DEF Joined
<1>4. IsFiniteSet(Of("ok")) /\ IsFiniteSet(Of("discrepancy")) /\ IsFiniteSet(Of("data_loss"))
  BY <1>1, FS_Subset
<1>5. OfStage(s) = (Of("ok") \union Of("discrepancy")) \union Of("data_loss")
  BY DEF OfStage, TableInv, LedgerRows, OutcomeKinds
<1>6. Of("ok") \intersect Of("discrepancy") = {}
      /\ (Of("ok") \union Of("discrepancy")) \intersect Of("data_loss") = {}
  OBVIOUS
<1>7. Cell(s, "ok") = Cardinality(Of("ok")) /\ Cell(s, "discrepancy") = Cardinality(Of("discrepancy"))
      /\ Cell(s, "data_loss") = Cardinality(Of("data_loss"))
  BY DEF Cell
<1> HIDE DEF Of
<1>8. Cardinality({}) = 0 BY FS_EmptySet
<1>9. /\ Cardinality(Of("ok")) \in Nat /\ Cardinality(Of("discrepancy")) \in Nat
      /\ Cardinality(Of("data_loss")) \in Nat
  BY <1>4, FS_CardinalityType
<1>10. IsFiniteSet(Of("ok") \union Of("discrepancy"))
       /\ Cardinality(Of("ok") \union Of("discrepancy"))
            = Cardinality(Of("ok")) + Cardinality(Of("discrepancy"))
  <2>1. IsFiniteSet(Of("ok") \union Of("discrepancy"))
       /\ Cardinality(Of("ok") \union Of("discrepancy"))
            = Cardinality(Of("ok")) + Cardinality(Of("discrepancy"))
                - Cardinality(Of("ok") \intersect Of("discrepancy"))
    BY <1>4, FS_Union
  <2>2. Cardinality(Of("ok") \intersect Of("discrepancy")) = 0 BY <1>6, <1>8
  <2> QED BY <2>1, <2>2, <1>9
<1>11. Cardinality(OfStage(s)) = Cell(s, "ok") + Cell(s, "discrepancy") + Cell(s, "data_loss")
  <2>1. Cardinality((Of("ok") \union Of("discrepancy")) \union Of("data_loss"))
          = Cardinality(Of("ok") \union Of("discrepancy")) + Cardinality(Of("data_loss"))
              - Cardinality((Of("ok") \union Of("discrepancy")) \intersect Of("data_loss"))
    BY <1>4, <1>10, FS_Union
  <2>2. Cardinality((Of("ok") \union Of("discrepancy")) \intersect Of("data_loss")) = 0
    BY <1>6, <1>8
  <2>3. Cardinality(OfStage(s)) = Cardinality((Of("ok") \union Of("discrepancy")) \union Of("data_loss"))
    BY <1>5
  <2> QED BY <2>1, <2>2, <2>3, <1>7, <1>9, <1>10
<1> QED BY <1>2, <1>3, <1>11

\* The snapshot before the first scrape.
LEMMA EmptySnapshot ==
    /\ NoSnapshot \in SnapRecs /\ NoScrape \in ScrapeRecs /\ NoScrape.pc = "idle"
    /\ NoScrape.snap = NoSnapshot
    /\ ~NoSnapshot.present /\ NoSnapshot.clean /\ NoSnapshot.quiet
    /\ NoSnapshot.rev = 0 /\ NoSnapshot.sure = 0
BY DEF NoSnapshot, NoScrape, SnapRecs, ScrapeRecs

\* No table, no span, no snapshot and no verdict.
LEMMA CanaryInitInv == CanaryInit => CanaryInv
<1> SUFFICES ASSUME CanaryInit PROVE CanaryInv OBVIOUS
<1> USE DEF CanaryInit
<1>1. TableInv BY FS_EmptySet DEF TableInv
<1>2. SpanInv
  <2>1. Unrecorded = {} BY DEF Unrecorded, NoSpan
  <2>2. span \in [Producers -> SpanRecs] BY DEF NoSpan, SpanRecs
  <2> QED BY <2>1, <2>2, FS_EmptySet, CanaryAssumption DEF SpanInv
<1>3. ScrapeInv
  <2>1. Cardinality(certified) = 0 BY FS_EmptySet
  <2> QED BY <2>1, EmptySnapshot DEF ScrapeInv
<1>4. ServedInv BY EmptySnapshot DEF ServedInv, CertifiedIsExported, QuietScrapeAgrees
<1>5. VerdictInv BY DEF VerdictInv, NoGate, GateRecs, PassIsEarned
<1> QED BY <1>1, <1>2, <1>3, <1>4, <1>5 DEF CanaryInv

-----------------------------------------------------------------------------
\* A step that writes neither table nor the histories: what was tallied stays so.
LEMMA CountsStay ==
    ASSUME UNCHANGED <<audit, ledger>>
    PROVE  /\ \A s : /\ OfStage(s)' = OfStage(s) /\ Joined(s)' = Joined(s)
                     /\ InError(s)' = InError(s) /\ LossesOf(s)' = LossesOf(s)
           /\ \A s, o : Cell(s, o)' = Cell(s, o)
<1>1. \A s : OfStage(s)' = OfStage(s) BY DEF OfStage
<1>2. \A s : Joined(s)' = Joined(s) BY <1>1 DEF Joined
<1>3. \A s : InError(s)' = InError(s) BY <1>2 DEF InError
<1>4. \A s : LossesOf(s)' = LossesOf(s) BY <1>1 DEF LossesOf
<1>5. \A s, o : Cell(s, o)' = Cell(s, o) BY <1>1 DEF Cell
<1> QED BY <1>1, <1>2, <1>3, <1>4, <1>5

\* The readers do not move and what they read stays.
LEMMA ScrapeStays ==
    ASSUME ScrapeInv, UNCHANGED <<audit, ledger, rev, certified, scrape>>
    PROVE  ScrapeInv'
BY CountsStay DEF ScrapeInv, AtMostCells, LedgerMarks, DurationMarks

\* The served snapshot stays right while the tables stay.
LEMMA ServedStays ==
    ASSUME ServedInv, UNCHANGED <<audit, ledger, rev, scrape, cached>>
    PROVE  ServedInv'
<1>1. CertifiedIsExported' = CertifiedIsExported
  BY DEF CertifiedIsExported, LedgerMarks, DurationMarks
<1>2. QuietScrapeAgrees' = QuietScrapeAgrees BY DEF QuietScrapeAgrees, Total
<1>3. AtMostCells(cached)' = AtMostCells(cached) BY CountsStay DEF AtMostCells
<1> QED BY <1>1, <1>2, <1>3 DEF ServedInv

\* So does the verdict of the gate.
LEMMA VerdictStays ==
    ASSUME VerdictInv, UNCHANGED <<audit, ledger, rev, gate>>
    PROVE  VerdictInv'
BY CountsStay DEF VerdictInv, PassIsEarned, Below

\* So do the spans.
LEMMA SpanStays ==
    ASSUME SpanInv, UNCHANGED <<audit, ledger, span, spans, certified, rev>>
    PROVE  SpanInv'
BY DEF SpanInv, Unrecorded

\* So do the tables, while a span moves.
LEMMA TableStays ==
    ASSUME TableInv, UNCHANGED <<tables, audit, ledger, rolled>>
    PROVE  TableInv'
BY DEF TableInv

-----------------------------------------------------------------------------
\* Producers begin, end or die between their two writes.
LEMMA ProducersKeepInv ==
    ASSUME CanaryInv,
           \/ \E t \in {"audit_log", "canary_outcomes"} : MakeTable(t)
           \/ SaveState
           \/ \E p \in Producers :
                \/ Die(p)
                \/ \E e \in Events, s \in Stages, o \in Kinds, err \in BOOLEAN :
                     Measure(p, e, s, o, err)
    PROVE  CanaryInv'
<1>1. UNCHANGED <<audit, ledger, rev, certified, scrape, cached, gate>>
  BY DEF MakeTable, SaveState, Die, Measure
<1>2. ScrapeInv' /\ ServedInv' /\ VerdictInv'
  BY <1>1, ScrapeStays, ServedStays, VerdictStays DEF CanaryInv
<1>3. TableInv' BY <1>1 DEF CanaryInv, TableInv, MakeTable, SaveState, Die, Measure
<1>4. SpanInv'
  <2>1. CASE UNCHANGED <<span, spans>>
    BY <1>1, <2>1, SpanStays DEF CanaryInv
  <2>2. ASSUME NEW p \in Producers, Die(p) PROVE SpanInv'
    <3>1. /\ span' = [span EXCEPT ![p] = NoSpan] /\ spans' = spans /\ p \in Unrecorded
          /\ span \in [Producers -> SpanRecs]
      BY <2>2 DEF Die, Unrecorded, CanaryInv, SpanInv
    <3>2. NoSpan \in SpanRecs /\ NoSpan.pc = "idle" BY DEF NoSpan, SpanRecs
    <3>3. Unrecorded' = Unrecorded \ {p} BY <3>1, <3>2 DEF Unrecorded
    <3>4. \A q \in Unrecorded' : span'[q] = span[q] BY <3>1, <3>3
    <3>5. IsFiniteSet(Unrecorded) BY DEF CanaryInv, SpanInv
    <3>6. /\ IsFiniteSet(Unrecorded') /\ Cardinality(Unrecorded') = Cardinality(Unrecorded) - 1
      BY <3>1, <3>3, <3>5, FS_RemoveElement
    <3>7. Cardinality(Unrecorded) \in Nat BY <3>5, FS_CardinalityType
    <3>8. span' \in [Producers -> SpanRecs] BY <3>1, <3>2
    <3>9. rev' + Cardinality(Unrecorded') <= spans'
      BY <1>1, <3>1, <3>6, <3>7, CanaryAssumption DEF CanaryInv, SpanInv
    <3> QED BY <1>1, <3>1, <3>3, <3>4, <3>6, <3>8, <3>9 DEF CanaryInv, SpanInv, LedgerRows
  <2>3. ASSUME NEW p \in Producers, NEW e \in Events, NEW s \in Stages, NEW o \in Kinds,
               NEW err \in BOOLEAN, Measure(p, e, s, o, err)
        PROVE  SpanInv'
    <3> DEFINE r == [pc |-> "audit", event |-> e, stage |-> s, outcome |-> o,
                     error |-> err, auditOk |-> FALSE]
    <3>1. /\ span' = [span EXCEPT ![p] = r] /\ spans' = spans + 1 /\ p \notin Unrecorded
          /\ span \in [Producers -> SpanRecs] /\ spans < MaxSpans
      BY <2>3 DEF Measure, Unrecorded, CanaryInv, SpanInv
    <3>2. r \in SpanRecs /\ r.pc = "audit" /\ r.event \in Events
          /\ [stage |-> r.stage, outcome |-> r.outcome] \in LedgerRows
      BY KindsAssumption DEF SpanRecs, LedgerRows, OutcomeKinds
    <3> HIDE DEF r
    <3>3. Unrecorded' = Unrecorded \union {p} BY <3>1, <3>2 DEF Unrecorded
    <3>4. \A q \in Unrecorded : span'[q] = span[q] BY <3>1
    <3>5. IsFiniteSet(Unrecorded) BY DEF CanaryInv, SpanInv
    <3>6. /\ IsFiniteSet(Unrecorded') /\ Cardinality(Unrecorded') = Cardinality(Unrecorded) + 1
      BY <3>1, <3>3, <3>5, FS_AddElement
    <3>7. Cardinality(Unrecorded) \in Nat BY <3>5, FS_CardinalityType
    <3>8. span' \in [Producers -> SpanRecs] /\ span'[p] = r BY <3>1, <3>2
    <3>9. rev' + Cardinality(Unrecorded') <= spans' /\ spans' \in 0..MaxSpans
      BY <1>1, <3>1, <3>6, <3>7, CanaryAssumption DEF CanaryInv, SpanInv
    <3>10. \A q \in Unrecorded' :
             /\ span'[q].event \in Events
             /\ [stage |-> span'[q].stage, outcome |-> span'[q].outcome] \in LedgerRows
             /\ (span'[q].pc = "outcome" /\ span'[q].auditOk => span'[q].event \in DOMAIN audit')
      <4>1. CASE TRUE
        <5> SUFFICES ASSUME NEW q \in Unrecorded'
                     PROVE /\ span'[q].event \in Events
                           /\ [stage |-> span'[q].stage, outcome |-> span'[q].outcome] \in LedgerRows
                           /\ (span'[q].pc = "outcome" /\ span'[q].auditOk
                                 => span'[q].event \in DOMAIN audit')
          OBVIOUS
        <5>1. CASE q = p BY <3>2, <3>8, <5>1
        <5>2. CASE q # p
          <6>1. q \in Unrecorded /\ span'[q] = span[q] BY <3>3, <3>4, <5>2
          <6> QED BY <1>1, <6>1 DEF CanaryInv, SpanInv
        <5> QED BY <5>1, <5>2
      <4> QED BY <4>1
    <3>11. LedgerRows' = LedgerRows /\ SpanRecs' = SpanRecs OBVIOUS
    <3> QED BY <1>1, <3>6, <3>8, <3>9, <3>10 DEF CanaryInv, SpanInv
  <2> QED BY <2>1, <2>2, <2>3 DEF MakeTable, SaveState
<1> QED BY <1>2, <1>3, <1>4 DEF CanaryInv

-----------------------------------------------------------------------------
\* A row lands while the readers are between two queries: the tables only grow
\* (a row may change, which rev counts), and the scrape is not quiet any more.
LEMMA DisturbEffect ==
    ASSUME scrape \in ScrapeRecs, Disturb
    PROVE  /\ scrape' \in ScrapeRecs /\ scrape'.pc = scrape.pc
           /\ scrape'.snap.quiet = (scrape.pc = "idle")
           /\ scrape'.snap.present = scrape.snap.present /\ scrape'.snap.clean = scrape.snap.clean
           /\ scrape'.snap.rev = scrape.snap.rev /\ scrape'.snap.sure = scrape.snap.sure
           /\ scrape'.snap.events = scrape.snap.events
           /\ scrape'.snap.durations = scrape.snap.durations
BY DEF Disturb, ScrapeRecs, SnapRecs

\* A row that lands disturbs a scrape and a verdict in progress, no more.
LEMMA RowLandsReaders ==
    ASSUME CanaryInv, TableInv', SpanInv', Disturb, cached' = cached, gate' = gate,
           certified \subseteq certified', rev <= rev',
           rev' = rev => /\ DOMAIN ledger \subseteq DOMAIN ledger'
                         /\ \A e \in DOMAIN ledger : ledger'[e] = ledger[e]
    PROVE  ScrapeInv' /\ ServedInv' /\ VerdictInv'
<1>0. /\ scrape \in ScrapeRecs /\ cached \in SnapRecs /\ gate \in GateRecs
      /\ rev \in Nat /\ rev' \in Nat
  BY DEF CanaryInv, ScrapeInv, ServedInv, VerdictInv, SpanInv
<1>1. /\ scrape' \in ScrapeRecs /\ scrape'.pc = scrape.pc
      /\ scrape'.snap.quiet = (scrape.pc = "idle")
      /\ scrape'.snap.present = scrape.snap.present /\ scrape'.snap.clean = scrape.snap.clean
      /\ scrape'.snap.rev = scrape.snap.rev /\ scrape'.snap.sure = scrape.snap.sure
      /\ scrape'.snap.events = scrape.snap.events
      /\ scrape'.snap.durations = scrape.snap.durations
  BY <1>0, DisturbEffect
<1>2. LedgerMarks(scrape'.snap) = LedgerMarks(scrape.snap)
      /\ DurationMarks(scrape'.snap) = DurationMarks(scrape.snap)
  BY <1>1 DEF LedgerMarks, DurationMarks
<1>3. ASSUME rev' = rev, NEW s \in Stages
      PROVE  /\ OfStage(s) \subseteq OfStage(s)' /\ LossesOf(s) \subseteq LossesOf(s)'
             /\ \A o \in OutcomeKinds : Cell(s, o) \in Nat /\ Cell(s, o)' \in Nat
                                        /\ Cell(s, o) <= Cell(s, o)'
  <2>1. OfStage(s) \subseteq OfStage(s)' BY <1>3 DEF OfStage
  <2>2. LossesOf(s) \subseteq LossesOf(s)'
    BY <1>3, <2>1 DEF LossesOf, OfStage
  <2>3. ASSUME NEW o \in OutcomeKinds
        PROVE Cell(s, o) \in Nat /\ Cell(s, o)' \in Nat /\ Cell(s, o) <= Cell(s, o)'
    <3> DEFINE X == {e \in OfStage(s) : ledger[e].outcome = o}
               Y == {e \in OfStage(s)' : ledger'[e].outcome = o}
    <3>1. X \subseteq Y BY <1>3, <2>1 DEF OfStage
    <3>2. DOMAIN ledger' = (DOMAIN ledger)' OBVIOUS
    <3>3. IsFiniteSet(DOMAIN ledger') BY DEF TableInv
    <3>4. Y \subseteq DOMAIN ledger' BY DEF OfStage
    <3>5. Cell(s, o) = Cardinality(X) /\ Cell(s, o)' = Cardinality(Y) BY DEF Cell
    <3> HIDE DEF X, Y
    <3>6. IsFiniteSet(Y) BY <3>3, <3>4, FS_Subset
    <3>7. Cardinality(X) <= Cardinality(Y) /\ IsFiniteSet(X) BY <3>1, <3>6, FS_Subset
    <3> QED BY <3>5, <3>6, <3>7, FS_CardinalityType
  <2> QED BY <2>1, <2>2, <2>3
<1>4. ASSUME rev' = rev, NEW snap \in SnapRecs, AtMostCells(snap)
      PROVE  \A s \in Stages, o \in OutcomeKinds : snap.events[s][o] <= Cell(s, o)'
  <2> SUFFICES ASSUME NEW s \in Stages, NEW o \in OutcomeKinds
               PROVE  snap.events[s][o] <= Cell(s, o)'
    OBVIOUS
  <2>1. snap.events[s][o] <= Cell(s, o) BY <1>4 DEF AtMostCells
  <2>2. Cell(s, o) \in Nat /\ Cell(s, o)' \in Nat /\ Cell(s, o) <= Cell(s, o)' BY <1>3, <1>4
  <2>3. snap.events \in [Stages -> [OutcomeKinds -> Nat]] BY DEF SnapRecs
  <2>4. snap.events[s][o] \in Nat BY <2>3
  <2> QED BY <2>1, <2>2, <2>4
<1>5. ScrapeInv'
  <2>1. scrape.snap \in SnapRecs /\ scrape.snap.sure \in Nat /\ scrape.snap.rev \in Nat
    BY <1>0 DEF ScrapeRecs, SnapRecs
  <2>2. scrape'.snap.sure <= Cardinality(certified')
    <3>1. scrape.snap.sure <= Cardinality(certified) BY DEF CanaryInv, ScrapeInv
    <3>2. Cardinality(certified) \in Nat /\ IsFiniteSet(certified)
      BY CertifiedAreFew DEF CanaryInv
    <3>3. certified' \subseteq DOMAIN ledger' /\ IsFiniteSet(DOMAIN ledger')
      BY DEF TableInv, SpanInv
    <3>4. IsFiniteSet(certified') BY <3>3, FS_Subset
    <3>5. Cardinality(certified) <= Cardinality(certified') /\ Cardinality(certified') \in Nat
      BY <3>4, FS_Subset, FS_CardinalityType
    <3> QED BY <1>1, <2>1, <3>1, <3>2, <3>5
  <2>3. scrape'.snap.present /\ scrape'.snap.rev = rev' => AtMostCells(scrape.snap)'
    <3> SUFFICES ASSUME scrape'.snap.present, scrape'.snap.rev = rev'
                 PROVE  AtMostCells(scrape.snap)'
      OBVIOUS
    <3>1. scrape.snap.present /\ scrape.snap.rev <= rev BY <1>1 DEF CanaryInv, ScrapeInv
    <3>2. rev' = rev /\ scrape.snap.rev = rev BY <1>0, <1>1, <2>1, <3>1
    <3>3. AtMostCells(scrape.snap) BY <3>1, <3>2 DEF CanaryInv, ScrapeInv
    <3> QED BY <1>1, <1>4, <2>1, <3>2, <3>3 DEF AtMostCells
  <2>4. scrape'.pc = "idle" => scrape'.snap.quiet BY <1>1
  <2>5. scrape'.pc \in {"errors", "durations", "state"} => ~scrape'.snap.quiet BY <1>1
  <2>6. scrape'.snap.present => scrape'.pc \in {"errors", "durations", "state"}
                                /\ scrape'.snap.rev <= rev'
    BY <1>0, <1>1, <2>1 DEF CanaryInv, ScrapeInv
  <2>7. scrape'.pc \in {"errors", "durations", "state"} /\ scrape'.snap.clean
          => scrape'.snap.present /\ scrape'.snap.sure <= Cardinality(LedgerMarks(scrape'.snap))
    BY <1>1, <1>2 DEF CanaryInv, ScrapeInv
  <2>8. scrape'.pc = "state" /\ scrape'.snap.clean
          => scrape'.snap.sure <= Cardinality(DurationMarks(scrape'.snap))
    BY <1>1, <1>2 DEF CanaryInv, ScrapeInv
  <2>9. LedgerMarks(scrape'.snap) = LedgerMarks(scrape.snap)'
        /\ DurationMarks(scrape'.snap) = DurationMarks(scrape.snap)'
    BY DEF LedgerMarks, DurationMarks
  <2> QED BY <1>1, <2>2, <2>3, <2>4, <2>5, <2>6, <2>7, <2>8, <2>9 DEF ScrapeInv
<1>6. ServedInv'
  <2>1. CertifiedIsExported' /\ QuietScrapeAgrees'
    <3>1. CertifiedIsExported' = CertifiedIsExported
      BY DEF CertifiedIsExported, LedgerMarks, DurationMarks
    <3>2. QuietScrapeAgrees' = QuietScrapeAgrees BY DEF QuietScrapeAgrees, Total
    <3> QED BY <3>1, <3>2 DEF CanaryInv, ServedInv
  <2>2. cached.rev \in Nat BY <1>0 DEF SnapRecs
  <2>3. cached'.present => cached'.rev <= rev' BY <1>0, <2>2 DEF CanaryInv, ServedInv
  <2>4. cached'.present /\ cached'.rev = rev' => AtMostCells(cached)'
    <3> SUFFICES ASSUME cached.present, cached.rev = rev' PROVE AtMostCells(cached)'
      OBVIOUS
    <3>1. rev' = rev /\ cached.rev = rev
      BY <1>0, <2>2 DEF CanaryInv, ServedInv
    <3>2. AtMostCells(cached) BY <3>1 DEF CanaryInv, ServedInv
    <3> QED BY <1>0, <1>4, <3>1, <3>2 DEF AtMostCells
  <2>5. cached'.present /\ scrape'.snap.present =>
          /\ cached'.rev <= scrape'.snap.rev
          /\ (cached'.rev = scrape'.snap.rev =>
                \A s \in Stages, o \in OutcomeKinds : cached'.events[s][o] <= scrape'.snap.events[s][o])
    BY <1>1 DEF CanaryInv, ServedInv
  <2> QED BY <1>0, <2>1, <2>3, <2>4, <2>5 DEF ServedInv
<1>7. VerdictInv'
  <2>1. gate.rev \in Nat /\ gate.rev <= rev /\ PassIsEarned
    BY <1>0 DEF GateRecs, CanaryInv, VerdictInv
  <2>2. gate.pc = "counts" /\ gate.rev = rev' => gate.lost \subseteq LossesOf(gate.stage)'
    <3> SUFFICES ASSUME gate.pc = "counts", gate.rev = rev'
                 PROVE  gate.lost \subseteq LossesOf(gate.stage)'
      OBVIOUS
    <3>1. rev' = rev /\ gate.rev = rev BY <1>0, <2>1
    <3>2. gate.lost \subseteq LossesOf(gate.stage) BY <3>1 DEF CanaryInv, VerdictInv
    <3>3. LossesOf(gate.stage) \subseteq LossesOf(gate.stage)'
      BY <3>1 DEF LossesOf, OfStage
    <3> QED BY <3>2, <3>3
  <2>3. PassIsEarned'
    <3> SUFFICES ASSUME gate.pc = "pass"
                 PROVE  /\ gate.joined >= MinHits /\ (gate.lost = {} \/ rev' > gate.rev)
                        /\ Below(gate.errors, gate.joined)
      BY DEF PassIsEarned, Below
    <3> QED BY <1>0, <2>1 DEF PassIsEarned
  <2> QED BY <1>0, <2>1, <2>2, <2>3 DEF VerdictInv
<1> QED BY <1>5, <1>6, <1>7

-----------------------------------------------------------------------------
\* The audit row of a span is written, or fails.
LEMMA PutAuditKeepsInv ==
    ASSUME CanaryInv, NEW p \in Producers, NEW ok \in BOOLEAN, PutAudit(p, ok)
    PROVE  CanaryInv'
<1> DEFINE e == span[p].event
<1>1. /\ p \in Unrecorded /\ e \in Events /\ span \in [Producers -> SpanRecs]
      /\ span[p].error \in BOOLEAN
      /\ UNCHANGED <<tables, ledger, rolled, spans, cached, gate, certified, rev>> /\ Disturb
  BY DEF PutAudit, Unrecorded, CanaryInv, SpanInv, SpanRecs
<1>2. /\ DOMAIN audit \subseteq DOMAIN audit' /\ DOMAIN audit' \subseteq DOMAIN audit \union {e}
      /\ (ok => e \in DOMAIN audit') /\ audit' \in [DOMAIN audit' -> BOOLEAN]
  BY <1>1 DEF PutAudit, CanaryInv, TableInv
<1>3. TableInv'
  <2>1. IsFiniteSet(DOMAIN audit \union {e}) BY FS_AddElement DEF CanaryInv, TableInv
  <2>2. IsFiniteSet(DOMAIN audit') BY <1>2, <2>1, FS_Subset
  <2> QED BY <1>1, <1>2, <2>2 DEF CanaryInv, TableInv
<1>4. SpanInv'
  <2>1. /\ span' \in [Producers -> SpanRecs] /\ span'[p].pc = "outcome" /\ span'[p].auditOk = ok
        /\ span'[p].event = e /\ span'[p].stage = span[p].stage
        /\ span'[p].outcome = span[p].outcome
        /\ \A q \in Producers \ {p} : span'[q] = span[q]
    BY <1>1 DEF PutAudit, SpanRecs
  <2>2. Unrecorded' = Unrecorded BY <1>1, <2>1 DEF Unrecorded
  <2>3. ASSUME NEW q \in Unrecorded
        PROVE  /\ span'[q].event \in Events
               /\ [stage |-> span'[q].stage, outcome |-> span'[q].outcome] \in LedgerRows
               /\ (span'[q].pc = "outcome" /\ span'[q].auditOk => span'[q].event \in DOMAIN audit')
    <3>1. CASE q = p
      BY <1>1, <1>2, <2>1, <3>1 DEF CanaryInv, SpanInv
    <3>2. CASE q # p
      BY <1>2, <2>1, <3>2 DEF CanaryInv, SpanInv, Unrecorded
    <3> QED BY <3>1, <3>2
  <2>4. certified' \subseteq DOMAIN audit' /\ certified' \subseteq DOMAIN ledger'
    BY <1>1, <1>2 DEF CanaryInv, SpanInv
  <2>5. /\ IsFiniteSet(Unrecorded') /\ spans' \in 0..MaxSpans /\ rev' \in Nat
        /\ rev' + Cardinality(Unrecorded') <= spans'
    BY <1>1, <2>2 DEF CanaryInv, SpanInv
  <2> QED BY <2>1, <2>2, <2>3, <2>4, <2>5 DEF SpanInv
<1>5. rev \in Nat BY DEF CanaryInv, SpanInv
<1>6. ScrapeInv' /\ ServedInv' /\ VerdictInv'
  BY <1>1, <1>3, <1>4, <1>5, RowLandsReaders
<1> QED BY <1>3, <1>4, <1>6 DEF CanaryInv

\* The outcome row is written, replaces an older one, or fails.
LEMMA PutOutcomeKeepsInv ==
    ASSUME CanaryInv, NEW p \in Producers, NEW ok \in BOOLEAN, PutOutcome(p, ok)
    PROVE  CanaryInv'
<1> DEFINE e == span[p].event
           row == [stage |-> span[p].stage, outcome |-> span[p].outcome]
<1>1. /\ p \in Unrecorded /\ e \in Events /\ row \in LedgerRows
      /\ span \in [Producers -> SpanRecs] /\ span' = [span EXCEPT ![p] = NoSpan]
      /\ UNCHANGED <<tables, audit, rolled, spans, cached, gate>> /\ Disturb
      /\ rev \in Nat
      /\ span[p].pc = "outcome"
  BY DEF PutOutcome, Unrecorded, CanaryInv, SpanInv
<1>2. /\ ledger' = IF ok THEN [f \in DOMAIN ledger \union {e} |-> IF f = e THEN row ELSE ledger[f]]
                         ELSE ledger
      /\ rev' = IF ok /\ e \in DOMAIN ledger /\ ledger[e] # row THEN rev + 1 ELSE rev
      /\ certified' = IF span[p].auditOk /\ ok THEN certified \union {e} ELSE certified
  BY DEF PutOutcome, Recorded
<1>3. span[p].auditOk => e \in DOMAIN audit
  BY <1>1 DEF CanaryInv, SpanInv
<1> HIDE DEF e, row
<1>4. /\ DOMAIN ledger \subseteq DOMAIN ledger' /\ DOMAIN ledger' \subseteq DOMAIN ledger \union {e}
      /\ (ok => e \in DOMAIN ledger') /\ ledger' \in [DOMAIN ledger' -> LedgerRows]
  <2>1. CASE ok BY <1>1, <1>2, <2>1 DEF CanaryInv, TableInv
  <2>2. CASE ~ok BY <1>1, <1>2, <2>2 DEF CanaryInv, TableInv
  <2> QED BY <2>1, <2>2
<1>5. TableInv'
  <2>1. IsFiniteSet(DOMAIN ledger \union {e}) BY FS_AddElement DEF CanaryInv, TableInv
  <2>2. IsFiniteSet(DOMAIN ledger') BY <1>4, <2>1, FS_Subset
  <2> QED BY <1>1, <1>4, <2>2 DEF CanaryInv, TableInv
<1>6. rev <= rev' /\ rev' <= rev + 1 /\ rev' \in Nat BY <1>1, <1>2
<1>7. SpanInv'
  <2>1. NoSpan \in SpanRecs /\ NoSpan.pc = "idle" BY DEF NoSpan, SpanRecs
  <2>2. Unrecorded' = Unrecorded \ {p} BY <1>1, <2>1 DEF Unrecorded
  <2>3. \A q \in Unrecorded' : span'[q] = span[q] BY <1>1, <2>2
  <2>4. IsFiniteSet(Unrecorded) BY DEF CanaryInv, SpanInv
  <2>5. IsFiniteSet(Unrecorded') /\ Cardinality(Unrecorded') = Cardinality(Unrecorded) - 1
    BY <1>1, <2>2, <2>4, FS_RemoveElement
  <2>6. Cardinality(Unrecorded) \in Nat BY <2>4, FS_CardinalityType
  <2>7. span' \in [Producers -> SpanRecs] BY <1>1, <2>1
  <2>8. rev' + Cardinality(Unrecorded') <= spans' /\ spans' \in 0..MaxSpans
    BY <1>1, <1>6, <2>5, <2>6, CanaryAssumption DEF CanaryInv, SpanInv
  <2>9. certified' \subseteq DOMAIN audit' /\ certified' \subseteq DOMAIN ledger'
    BY <1>1, <1>2, <1>3, <1>4 DEF CanaryInv, SpanInv
  <2>10. \A q \in Unrecorded' :
           /\ span'[q].event \in Events
           /\ [stage |-> span'[q].stage, outcome |-> span'[q].outcome] \in LedgerRows
           /\ (span'[q].pc = "outcome" /\ span'[q].auditOk => span'[q].event \in DOMAIN audit')
    BY <1>1, <2>2, <2>3 DEF CanaryInv, SpanInv
  <2> QED BY <1>6, <2>5, <2>7, <2>8, <2>9, <2>10 DEF SpanInv
<1>8. ASSUME rev' = rev PROVE \A f \in DOMAIN ledger : ledger'[f] = ledger[f]
  BY <1>1, <1>2, <1>8
<1>9. certified \subseteq certified' BY <1>2
<1>10. ScrapeInv' /\ ServedInv' /\ VerdictInv'
  BY <1>1, <1>4, <1>5, <1>6, <1>7, <1>8, <1>9, RowLandsReaders
<1> QED BY <1>5, <1>7, <1>10 DEF CanaryInv

-----------------------------------------------------------------------------
\* A scrape begins.
LEMMA OpenKeepsInv == ASSUME CanaryInv, Open PROVE CanaryInv'
<1>1. UNCHANGED <<tables, audit, ledger, rolled, span, spans, gate, certified, rev>>
  BY DEF Open
<1>2. TableInv' /\ SpanInv' /\ VerdictInv'
  BY <1>1, TableStays, SpanStays, VerdictStays DEF CanaryInv
<1>3. /\ IsFiniteSet(certified) /\ Cardinality(certified) \in Nat
  BY CertifiedAreFew DEF CanaryInv
<1>4. CASE tables = {}
  <2>1. cached' = NoSnapshot /\ scrape' = scrape BY <1>4 DEF Open
  <2>2. ScrapeInv' BY <1>1, <2>1, ScrapeStays DEF CanaryInv
  <2>3. ServedInv'
    BY <2>1, EmptySnapshot DEF ServedInv, CertifiedIsExported, QuietScrapeAgrees
  <2> QED BY <1>2, <2>2, <2>3 DEF CanaryInv
<1>5. CASE tables # {}
  <2> DEFINE n == [NoSnapshot EXCEPT !.sure = Cardinality(certified)]
  <2>1. cached' = cached /\ scrape' = [pc |-> "events", snap |-> n] BY <1>5 DEF Open
  <2>2. n \in SnapRecs /\ ~n.present /\ n.sure = Cardinality(certified)
    BY <1>3, EmptySnapshot DEF SnapRecs
  <2> HIDE DEF n
  <2>3. scrape' \in ScrapeRecs /\ scrape'.pc = "events" /\ scrape'.snap = n
    BY <2>1, <2>2 DEF ScrapeRecs
  <2>4. ScrapeInv' BY <1>1, <1>3, <2>2, <2>3 DEF ScrapeInv
  <2>5. ServedInv'
    <3>1. CertifiedIsExported' = CertifiedIsExported
      BY <2>1 DEF CertifiedIsExported, LedgerMarks, DurationMarks
    <3>2. QuietScrapeAgrees' = QuietScrapeAgrees BY <2>1 DEF QuietScrapeAgrees, Total
    <3>3. AtMostCells(cached)' = AtMostCells(cached)
      BY <1>1, <2>1, CountsStay DEF AtMostCells
    <3> QED BY <1>1, <2>1, <2>2, <2>3, <3>1, <3>2, <3>3 DEF ServedInv, CanaryInv
  <2> QED BY <1>2, <2>4, <2>5 DEF CanaryInv
<1> QED BY <1>4, <1>5

\* What a query leaves alone.
LEMMA QueryStays ==
    ASSUME CanaryInv, UNCHANGED <<tables, audit, ledger, rolled, span, spans, cached, gate,
                                  certified, rev>>
    PROVE  /\ TableInv' /\ SpanInv' /\ VerdictInv'
           /\ CertifiedIsExported' /\ QuietScrapeAgrees'
           /\ cached' \in SnapRecs
           /\ (cached'.present => cached'.rev <= rev')
           /\ (cached'.present /\ cached'.rev = rev' => AtMostCells(cached)')
           /\ \A s \in Stages : /\ Joined(s)' = Joined(s) /\ InError(s)' = InError(s)
                                /\ \A o \in OutcomeKinds : Cell(s, o)' = Cell(s, o)
<1>1. TableInv' /\ SpanInv' /\ VerdictInv'
  BY TableStays, SpanStays, VerdictStays DEF CanaryInv
<1>2. CertifiedIsExported' /\ QuietScrapeAgrees'
  BY DEF CertifiedIsExported, LedgerMarks, DurationMarks, QuietScrapeAgrees, Total, CanaryInv,
         ServedInv
<1>3. AtMostCells(cached)' = AtMostCells(cached) BY CountsStay DEF AtMostCells
<1> QED BY <1>1, <1>2, <1>3, CountsStay DEF CanaryInv, ServedInv

\* A query that fails leaves its part of the snapshot as it was, and says so.
LEMMA FailKeepsInv ==
    ASSUME CanaryInv,
           UNCHANGED <<tables, audit, ledger, rolled, span, spans, cached, gate, certified, rev>>,
           scrape.pc # "idle", NEW next \in {"errors", "durations", "state"},
           scrape.pc = "events" => next = "errors",
           scrape' = [pc |-> next, snap |-> [scrape.snap EXCEPT !.clean = FALSE]]
    PROVE  CanaryInv'
<1>1. scrape.snap \in SnapRecs BY DEF CanaryInv, ScrapeInv, ScrapeRecs
<1>2. /\ scrape' \in ScrapeRecs /\ scrape'.pc = next /\ ~scrape'.snap.clean
      /\ scrape'.snap.present = scrape.snap.present /\ scrape'.snap.rev = scrape.snap.rev
      /\ scrape'.snap.sure = scrape.snap.sure /\ scrape'.snap.events = scrape.snap.events
  BY <1>1 DEF ScrapeRecs, SnapRecs
<1>3. ScrapeInv'
  <2>1. scrape'.snap.sure <= Cardinality(certified') BY <1>2 DEF CanaryInv, ScrapeInv
  <2>2. scrape'.snap.present => scrape'.snap.rev <= rev' BY <1>2 DEF CanaryInv, ScrapeInv
  <2>3. scrape'.snap.present /\ scrape'.snap.rev = rev' => AtMostCells(scrape.snap)'
    BY <1>2, QueryStays DEF CanaryInv, ScrapeInv, AtMostCells
  <2> QED BY <1>2, <2>1, <2>2, <2>3 DEF ScrapeInv
<1>4. ServedInv' BY <1>2, QueryStays DEF CanaryInv, ServedInv
<1> QED BY <1>3, <1>4, QueryStays DEF CanaryInv

\* The counts by outcome are read.
LEMMA ReadEventsKeepsInv ==
    ASSUME CanaryInv, NEW ok \in BOOLEAN, ReadEvents(ok) PROVE CanaryInv'
<1>1. /\ UNCHANGED <<tables, audit, ledger, rolled, span, spans, cached, gate, certified, rev>>
      /\ scrape.pc = "events"
  BY DEF ReadEvents, Query
<1>2. CASE ~ok BY <1>1, <1>2, FailKeepsInv DEF ReadEvents, Query
<1>3. CASE ok
  <2> DEFINE cells == [s \in Stages |-> [o \in OutcomeKinds |-> Cell(s, o)]]
             n == [scrape.snap EXCEPT !.present = TRUE, !.quiet = TRUE, !.rev = rev, !.events = cells]
  <2>1. scrape' = [pc |-> "errors", snap |-> n] BY <1>3 DEF ReadEvents, Query
  <2>2. \A s \in Stages, o \in OutcomeKinds : Cell(s, o) \in Nat
    BY CountsAreNat DEF CanaryInv
  <2>3. cells \in [Stages -> [OutcomeKinds -> Nat]] BY <2>2
  <2>4. scrape.snap \in SnapRecs /\ rev \in Nat
    BY DEF CanaryInv, ScrapeInv, ScrapeRecs, SpanInv
  <2>5. \A s \in Stages, o \in OutcomeKinds : cells[s][o] = Cell(s, o) OBVIOUS
  <2> HIDE DEF cells
  <2>6. /\ n \in SnapRecs /\ n.present /\ n.quiet /\ n.rev = rev /\ n.events = cells
        /\ n.sure = scrape.snap.sure /\ n.clean = scrape.snap.clean
    BY <2>3, <2>4 DEF SnapRecs
  <2> HIDE DEF n
  <2>7. scrape' \in ScrapeRecs /\ scrape'.pc = "errors" /\ scrape'.snap = n
    BY <2>1, <2>6 DEF ScrapeRecs
  <2>8. n.sure <= Cardinality(certified) /\ n.sure \in Nat
    BY <2>4, <2>6 DEF CanaryInv, ScrapeInv, SnapRecs
  <2>9. n.sure <= Cardinality(LedgerMarks(n))
    <3>1. /\ IsFiniteSet(LedgerMarks(n))
          /\ Cardinality(DOMAIN ledger) <= Cardinality(LedgerMarks(n))
      BY <2>5, <2>6, LedgerIsCounted DEF CanaryInv
    <3>2. Cardinality(LedgerMarks(n)) \in Nat BY <3>1, FS_CardinalityType
    <3>3. /\ Cardinality(certified) \in Nat /\ Cardinality(DOMAIN ledger) \in Nat
          /\ Cardinality(certified) <= Cardinality(DOMAIN ledger)
      BY CertifiedAreFew DEF CanaryInv
    <3> QED BY <2>8, <3>1, <3>2, <3>3
  <2>10. \A s \in Stages, o \in OutcomeKinds : n.events[s][o] = Cell(s, o)' /\ Cell(s, o) \in Nat
    BY <1>1, <2>2, <2>5, <2>6, QueryStays
  <2>11. ScrapeInv'
    <3>2. LedgerMarks(n) = LedgerMarks(scrape'.snap) BY <2>7 DEF LedgerMarks
    <3>3. \A s \in Stages, o \in OutcomeKinds : scrape'.snap.events[s][o] = Cell(s, o)'
      BY <1>1, <2>5, <2>6, <2>7, QueryStays
    <3>4. AtMostCells(scrape.snap)' BY <1>1, <2>7, <2>10, QueryStays DEF AtMostCells
    <3> QED BY <1>1, <2>4, <2>6, <2>7, <2>8, <2>9, <3>2, <3>3, <3>4 DEF ScrapeInv
  <2>12. ServedInv'
    <3>1. cached \in SnapRecs /\ cached.rev \in Nat BY DEF CanaryInv, ServedInv, SnapRecs
    <3>2. ASSUME cached.present
          PROVE  /\ cached.rev <= rev
                 /\ (cached.rev = rev => \A s \in Stages, o \in OutcomeKinds :
                                           cached.events[s][o] <= n.events[s][o])
      BY <2>5, <2>6, <3>2 DEF CanaryInv, ServedInv, AtMostCells
    <3> QED BY <1>1, <2>6, <2>7, <3>1, <3>2, QueryStays DEF ServedInv
  <2> QED BY <1>1, <2>11, <2>12, QueryStays DEF CanaryInv
<1> QED BY <1>2, <1>3

\* What the next two queries keep of the first one.
LEMMA LaterQueryKeeps ==
    ASSUME CanaryInv,
           UNCHANGED <<tables, audit, ledger, rolled, span, spans, cached, gate, certified, rev>>,
           NEW n \in SnapRecs, scrape'.snap = n,
           n.present = scrape.snap.present, n.rev = scrape.snap.rev, n.events = scrape.snap.events,
           n.quiet = scrape.snap.quiet, n.clean = scrape.snap.clean, n.sure = scrape.snap.sure,
           scrape.pc \in {"errors", "durations"}
    PROVE  /\ ServedInv'
           /\ n.sure <= Cardinality(certified') /\ (n.present => n.rev <= rev')
           /\ (n.present /\ n.rev = rev' => AtMostCells(scrape.snap)')
           /\ (n.clean => n.present /\ n.sure <= Cardinality(LedgerMarks(n)))
           /\ (n.clean /\ n.quiet =>
                 \A s \in Stages, o \in OutcomeKinds : n.events[s][o] = Cell(s, o)')
<1>1. ServedInv' BY QueryStays DEF CanaryInv, ServedInv
<1>2. LedgerMarks(n) = LedgerMarks(scrape.snap) BY DEF LedgerMarks
<1>3. n.sure <= Cardinality(certified') /\ (n.present => n.rev <= rev')
  BY DEF CanaryInv, ScrapeInv
<1>4. n.present /\ n.rev = rev' => AtMostCells(scrape.snap)'
  BY QueryStays DEF CanaryInv, ScrapeInv, AtMostCells
<1>5. n.clean => n.present /\ n.sure <= Cardinality(LedgerMarks(n))
  BY <1>2 DEF CanaryInv, ScrapeInv
<1>6. n.clean /\ n.quiet => \A s \in Stages, o \in OutcomeKinds : n.events[s][o] = Cell(s, o)'
  BY QueryStays DEF CanaryInv, ScrapeInv
<1> QED BY <1>1, <1>3, <1>4, <1>5, <1>6

\* Then the errors, over rows that may have changed.
LEMMA ReadErrorsKeepsInv ==
    ASSUME CanaryInv, NEW ok \in BOOLEAN, ReadErrors(ok) PROVE CanaryInv'
<1>1. /\ UNCHANGED <<tables, audit, ledger, rolled, span, spans, cached, gate, certified, rev>>
      /\ scrape.pc = "errors"
  BY DEF ReadErrors, Query
<1>2. CASE ~ok BY <1>1, <1>2, FailKeepsInv DEF ReadErrors, Query
<1>3. CASE ok
  <2> DEFINE found == [s \in Stages |-> Cardinality(InError(s))]
             n == [scrape.snap EXCEPT !.errors = found]
  <2>1. scrape' = [pc |-> "durations", snap |-> n] BY <1>3 DEF ReadErrors, Query
  <2>2. found \in [Stages -> Nat] BY CountsAreNat DEF CanaryInv
  <2>3. \A s \in Stages : found[s] = Cardinality(InError(s)) OBVIOUS
  <2>4. scrape.snap \in SnapRecs BY DEF CanaryInv, ScrapeInv, ScrapeRecs
  <2> HIDE DEF found
  <2>5. /\ n \in SnapRecs /\ n.present = scrape.snap.present /\ n.rev = scrape.snap.rev
        /\ n.events = scrape.snap.events /\ n.quiet = scrape.snap.quiet
        /\ n.clean = scrape.snap.clean /\ n.sure = scrape.snap.sure /\ n.errors = found
    BY <2>2, <2>4 DEF SnapRecs
  <2> HIDE DEF n
  <2>6. scrape' \in ScrapeRecs /\ scrape'.pc = "durations" /\ scrape'.snap = n
    BY <2>1, <2>5 DEF ScrapeRecs
  <2>7. /\ ServedInv'
        /\ n.sure <= Cardinality(certified') /\ (n.present => n.rev <= rev')
        /\ (n.present /\ n.rev = rev' => AtMostCells(scrape.snap)')
        /\ (n.clean => n.present /\ n.sure <= Cardinality(LedgerMarks(n)))
        /\ (n.clean /\ n.quiet =>
              \A s \in Stages, o \in OutcomeKinds : n.events[s][o] = Cell(s, o)')
    BY <1>1, <2>5, <2>6, LaterQueryKeeps
  <2>8. \A s \in Stages : scrape'.snap.errors[s] = Cardinality(InError(s)')
    BY <1>1, <2>3, <2>5, <2>6, QueryStays
  <2>9. LedgerMarks(scrape'.snap) = LedgerMarks(n) BY <2>6 DEF LedgerMarks
  <2>10. ScrapeInv' BY <2>6, <2>7, <2>8, <2>9 DEF ScrapeInv
  <2> QED BY <1>1, <2>7, <2>10, QueryStays DEF CanaryInv
<1> QED BY <1>2, <1>3

\* Then the durations.
LEMMA ReadDurationsKeepsInv ==
    ASSUME CanaryInv, NEW ok \in BOOLEAN, ReadDurations(ok) PROVE CanaryInv'
<1>1. /\ UNCHANGED <<tables, audit, ledger, rolled, span, spans, cached, gate, certified, rev>>
      /\ scrape.pc = "durations"
  BY DEF ReadDurations, Query
<1>2. CASE ~ok BY <1>1, <1>2, FailKeepsInv DEF ReadDurations, Query
<1>3. CASE ok
  <2> DEFINE found == [s \in Stages |-> Cardinality(Joined(s))]
             n == [scrape.snap EXCEPT !.durations = found]
  <2>1. scrape' = [pc |-> "state", snap |-> n] BY <1>3 DEF ReadDurations, Query
  <2>2. found \in [Stages -> Nat] BY CountsAreNat DEF CanaryInv
  <2>3. \A s \in Stages : found[s] = Cardinality(Joined(s)) OBVIOUS
  <2>4. scrape.snap \in SnapRecs BY DEF CanaryInv, ScrapeInv, ScrapeRecs
  <2> HIDE DEF found
  <2>5. /\ n \in SnapRecs /\ n.present = scrape.snap.present /\ n.rev = scrape.snap.rev
        /\ n.events = scrape.snap.events /\ n.quiet = scrape.snap.quiet
        /\ n.clean = scrape.snap.clean /\ n.sure = scrape.snap.sure
        /\ n.errors = scrape.snap.errors /\ n.durations = found /\ n.sure \in Nat
    BY <2>2, <2>4 DEF SnapRecs
  <2> HIDE DEF n
  <2>6. scrape' \in ScrapeRecs /\ scrape'.pc = "state" /\ scrape'.snap = n
    BY <2>1, <2>5 DEF ScrapeRecs
  <2>7. /\ ServedInv'
        /\ n.sure <= Cardinality(certified') /\ (n.present => n.rev <= rev')
        /\ (n.present /\ n.rev = rev' => AtMostCells(scrape.snap)')
        /\ (n.clean => n.present /\ n.sure <= Cardinality(LedgerMarks(n)))
        /\ (n.clean /\ n.quiet =>
              \A s \in Stages, o \in OutcomeKinds : n.events[s][o] = Cell(s, o)')
    BY <1>1, <2>5, <2>6, LaterQueryKeeps
  <2>8. \A s \in Stages : scrape'.snap.durations[s] = Cardinality(Joined(s)')
    BY <1>1, <2>3, <2>5, <2>6, QueryStays
  <2>9. n.clean /\ n.quiet => \A s \in Stages : scrape'.snap.errors[s] = Cardinality(InError(s)')
    BY <1>1, <2>5, <2>6, QueryStays DEF CanaryInv, ScrapeInv
  <2>10. n.sure <= Cardinality(DurationMarks(n))
    <3>1. /\ IsFiniteSet(DurationMarks(n))
          /\ Cardinality(DOMAIN ledger \intersect DOMAIN audit) <= Cardinality(DurationMarks(n))
      BY <2>3, <2>5, DurationsAreCounted DEF CanaryInv
    <3>2. Cardinality(DurationMarks(n)) \in Nat BY <3>1, FS_CardinalityType
    <3>3. /\ Cardinality(certified) \in Nat
          /\ Cardinality(DOMAIN ledger \intersect DOMAIN audit) \in Nat
          /\ Cardinality(certified) <= Cardinality(DOMAIN ledger \intersect DOMAIN audit)
      BY CertifiedAreFew DEF CanaryInv
    <3>4. n.sure <= Cardinality(certified) BY <1>1, <2>7
    <3> QED BY <2>5, <3>1, <3>2, <3>3, <3>4
  <2>11. LedgerMarks(scrape'.snap) = LedgerMarks(n) /\ DurationMarks(scrape'.snap) = DurationMarks(n)
    BY <2>6 DEF LedgerMarks, DurationMarks
  <2>12. ScrapeInv' BY <2>6, <2>7, <2>8, <2>9, <2>10, <2>11 DEF ScrapeInv
  <2> QED BY <1>1, <2>7, <2>12, QueryStays DEF CanaryInv
<1> QED BY <1>2, <1>3

\* The snapshot is served, or the last good one is kept.
LEMMA PublishKeepsInv == ASSUME CanaryInv, NEW ok \in BOOLEAN, Publish(ok) PROVE CanaryInv'
<1>1. /\ UNCHANGED <<tables, audit, ledger, rolled, span, spans, gate, certified, rev>>
      /\ scrape.pc = "state" /\ scrape' = NoScrape
      /\ cached' = [scrape.snap EXCEPT !.state = IF ok THEN rolled ELSE "unknown"]
  BY DEF Publish
<1>2. scrape.snap \in SnapRecs /\ rolled \in {"unknown", "known"}
  BY DEF CanaryInv, ScrapeInv, ScrapeRecs, TableInv
<1>3. /\ cached' \in SnapRecs /\ cached'.present = scrape.snap.present
      /\ cached'.rev = scrape.snap.rev /\ cached'.events = scrape.snap.events
      /\ cached'.quiet = scrape.snap.quiet /\ cached'.clean = scrape.snap.clean
      /\ cached'.sure = scrape.snap.sure /\ cached'.errors = scrape.snap.errors
      /\ cached'.durations = scrape.snap.durations
  BY <1>1, <1>2 DEF SnapRecs
<1>4. TableInv' /\ SpanInv' /\ VerdictInv'
  BY <1>1, TableStays, SpanStays, VerdictStays DEF CanaryInv
<1>5. ScrapeInv'
  <2>1. Cardinality(certified') \in Nat
    BY <1>1, CertifiedAreFew DEF CanaryInv
  <2> QED BY <1>1, <2>1, EmptySnapshot DEF ScrapeInv
<1>6. CertifiedIsExported'
  <2>1. LedgerMarks(cached') = LedgerMarks(scrape.snap)
        /\ DurationMarks(cached') = DurationMarks(scrape.snap)
    BY <1>3 DEF LedgerMarks, DurationMarks
  <2>2. LedgerMarks(cached') = LedgerMarks(cached)' /\ DurationMarks(cached') = DurationMarks(cached)'
    BY DEF LedgerMarks, DurationMarks
  <2> QED BY <1>1, <1>3, <2>1, <2>2 DEF CanaryInv, ScrapeInv, CertifiedIsExported
<1>7. QuietScrapeAgrees'
  <2> SUFFICES ASSUME cached'.present, cached'.clean, cached'.quiet, NEW s \in Stages
               PROVE  /\ cached'.errors[s] <= cached'.durations[s]
                      /\ cached'.durations[s] <= cached'.events[s]["ok"]
                           + cached'.events[s]["discrepancy"] + cached'.events[s]["data_loss"]
    BY DEF QuietScrapeAgrees, Total
  <2>1. /\ cached'.errors[s] = Cardinality(InError(s))
        /\ cached'.durations[s] = Cardinality(Joined(s))
        /\ \A o \in OutcomeKinds : cached'.events[s][o] = Cell(s, o)
    BY <1>1, <1>3 DEF CanaryInv, ScrapeInv
  <2>2. /\ Cardinality(InError(s)) <= Cardinality(Joined(s))
        /\ Cardinality(Joined(s)) <= Cell(s, "ok") + Cell(s, "discrepancy") + Cell(s, "data_loss")
    BY CountsAgree DEF CanaryInv
  <2>3. {"ok", "discrepancy", "data_loss"} = OutcomeKinds BY DEF OutcomeKinds
  <2> QED BY <2>1, <2>2, <2>3
<1>8. ServedInv'
  <2>1. cached'.present /\ cached'.rev = rev' => AtMostCells(scrape.snap)
    BY <1>1, <1>3 DEF CanaryInv, ScrapeInv
  <2>2. AtMostCells(scrape.snap) => AtMostCells(cached)'
    BY <1>1, <1>3, CountsStay DEF AtMostCells
  <2>3. cached'.present => cached'.rev <= rev' BY <1>1, <1>3 DEF CanaryInv, ScrapeInv
  <2> QED BY <1>1, <1>3, <1>6, <1>7, <2>1, <2>2, <2>3, EmptySnapshot DEF ServedInv
<1> QED BY <1>4, <1>5, <1>8 DEF CanaryInv

-----------------------------------------------------------------------------
\* The gate takes its counts of a stage.
LEMMA SampleKeepsInv == ASSUME CanaryInv, NEW s \in Stages, Sample(s) PROVE CanaryInv'
<1>1. UNCHANGED <<tables, audit, ledger, rolled, span, spans, scrape, cached, certified, rev>>
  BY DEF Sample
<1>2. TableInv' /\ SpanInv' /\ ScrapeInv' /\ ServedInv'
  BY <1>1, TableStays, SpanStays, ScrapeStays, ServedStays DEF CanaryInv
<1>3. VerdictInv'
  <2>1. gate' = [pc |-> "counts", stage |-> s, joined |-> Cardinality(Joined(s)),
                 errors |-> Cardinality(InError(s)), lost |-> LossesOf(s), rev |-> rev]
    BY DEF Sample, LossesOf
  <2>2. Cardinality(Joined(s)) \in Nat /\ Cardinality(InError(s)) \in Nat /\ rev \in Nat
    BY CountsAreNat DEF CanaryInv, SpanInv
  <2>3. LossesOf(s) \subseteq Events BY DEF LossesOf, OfStage, CanaryInv, TableInv
  <2>4. gate' \in GateRecs /\ gate'.pc = "counts" /\ gate'.rev = rev
        /\ gate'.lost = LossesOf(s) /\ gate'.stage = s
    BY <2>1, <2>2, <2>3 DEF GateRecs
  <2>5. LossesOf(s)' = LossesOf(s) BY <1>1, CountsStay
  <2>6. LossesOf(gate'.stage) = LossesOf(gate.stage)' BY <1>1, <2>4 DEF LossesOf, OfStage
  <2> QED BY <1>1, <2>2, <2>4, <2>5, <2>6 DEF VerdictInv, PassIsEarned
<1> QED BY <1>2, <1>3 DEF CanaryInv

\* The gate decides on the counts it took.
LEMMA JudgeKeepsInv == ASSUME CanaryInv, Judge PROVE CanaryInv'
<1>1. UNCHANGED <<tables, audit, ledger, rolled, span, spans, scrape, cached, certified, rev>>
  BY DEF Judge
<1>2. TableInv' /\ SpanInv' /\ ScrapeInv' /\ ServedInv'
  BY <1>1, TableStays, SpanStays, ScrapeStays, ServedStays DEF CanaryInv
<1>3. VerdictInv'
  <2>1. gate \in GateRecs /\ gate.pc = "counts" /\ gate.rev <= rev /\ rev \in Nat /\ gate.rev \in Nat
    BY DEF CanaryInv, VerdictInv, Judge, SpanInv, GateRecs
  <2>2. /\ gate' \in GateRecs /\ gate'.pc \in {"pass", "other"}
        /\ gate'.rev = gate.rev /\ gate'.lost = gate.lost /\ gate'.joined = gate.joined
        /\ gate'.errors = gate.errors
        /\ (gate'.pc = "pass" =>
              Passes(gate.joined, gate.errors, Cardinality(OfStage(gate.stage)),
                     Cell(gate.stage, "discrepancy"), Cell(gate.stage, "data_loss")))
    BY <2>1 DEF Judge, GateRecs
  <2>3. ASSUME gate'.pc = "pass"
        PROVE  /\ gate.joined >= MinHits /\ Below(gate.errors, gate.joined)
               /\ Cell(gate.stage, "data_loss") = 0
    BY <2>2, <2>3 DEF Passes
  <2>4. ASSUME gate'.pc = "pass", gate.rev = rev PROVE gate.lost = {}
    <3>1. gate.lost \subseteq LossesOf(gate.stage) BY <2>1, <2>4 DEF CanaryInv, VerdictInv
    <3>2. Cardinality(LossesOf(gate.stage)) = 0 BY <2>3, <2>4 DEF Cell, LossesOf
    <3>3. LossesOf(gate.stage) \subseteq DOMAIN ledger /\ IsFiniteSet(DOMAIN ledger)
      BY DEF LossesOf, OfStage, CanaryInv, TableInv
    <3>4. LossesOf(gate.stage) = {} BY <3>2, <3>3, FS_Subset, FS_EmptySet
    <3> QED BY <3>1, <3>4
  <2>5. PassIsEarned'
    <3> SUFFICES ASSUME gate'.pc = "pass"
                 PROVE  /\ gate'.joined >= MinHits /\ (gate'.lost = {} \/ rev' > gate'.rev)
                        /\ 100 * gate'.errors < Percent * gate'.joined
      BY DEF PassIsEarned, Below
    <3>1. gate.lost = {} \/ rev > gate.rev BY <2>1, <2>4
    <3> QED BY <1>1, <2>2, <2>3, <3>1 DEF Below
  <2> QED BY <1>1, <2>1, <2>2, <2>5 DEF VerdictInv
<1> QED BY <1>2, <1>3 DEF CanaryInv

\* Every step keeps the invariant.
LEMMA CanaryStepInv == CanaryInv /\ [CanaryNext]_canaryVars => CanaryInv'
<1> SUFFICES ASSUME CanaryInv, [CanaryNext]_canaryVars PROVE CanaryInv'
  OBVIOUS
<1>1. CASE UNCHANGED canaryVars
  BY <1>1, TableStays, SpanStays, ScrapeStays, ServedStays, VerdictStays DEF CanaryInv, canaryVars
<1>2. CASE CanaryNext
  BY <1>2, ProducersKeepInv, PutAuditKeepsInv, PutOutcomeKeepsInv, OpenKeepsInv,
     ReadEventsKeepsInv, ReadErrorsKeepsInv, ReadDurationsKeepsInv, PublishKeepsInv,
     SampleKeepsInv, JudgeKeepsInv
     DEF CanaryNext
<1> QED BY <1>1, <1>2

\* The inductive invariant is at least the one of the runs.
LEMMA CanaryInvSafe == CanaryInv => CanarySafety
<1> SUFFICES ASSUME CanaryInv PROVE CanarySafety OBVIOUS
<1>1. CertifiedIsExported /\ QuietScrapeAgrees /\ PassIsEarned
  BY DEF CanaryInv, ServedInv, VerdictInv
<1>2. rev \in 0..MaxSpans
  <2>1. IsFiniteSet(Unrecorded) /\ rev + Cardinality(Unrecorded) <= spans
        /\ spans \in 0..MaxSpans /\ rev \in Nat
    BY DEF CanaryInv, SpanInv
  <2>2. Cardinality(Unrecorded) \in Nat BY <2>1, FS_CardinalityType
  <2> QED BY <2>1, <2>2, CanaryAssumption
<1>3. CanaryTypeOK
  <2>1. \A e \in DOMAIN ledger : ledger[e] \in [stage : Stages, outcome : OutcomeKinds]
    BY DEF CanaryInv, TableInv, LedgerRows
  <2>2. \A p \in Producers : span[p].pc \in {"idle", "audit", "outcome"}
    BY DEF CanaryInv, SpanInv, SpanRecs
  <2>3. certified \subseteq Events BY DEF CanaryInv, SpanInv, TableInv
  <2> QED BY <1>2, <2>1, <2>2, <2>3
      DEF CanaryTypeOK, CanaryInv, TableInv, SpanInv, ScrapeInv, ScrapeRecs, VerdictInv, GateRecs
<1> QED BY <1>1, <1>3 DEF CanarySafety

\* What the readers of the canary store may conclude: every certified event is
\* tallied, the counts of a quiet scrape agree, and a stage passes the gate on
\* enough rows and over no loss (collect_canary_snapshot, compute_dod).
THEOREM CanaryIsSafe == CanarySpec => []CanarySafety
<1>1. CanarySpec => []CanaryInv BY CanaryInitInv, CanaryStepInv, PTL DEF CanarySpec
<1> QED BY <1>1, CanaryInvSafe, PTL

\* A counter that falls was published over a later revision.
LEMMA NewSnapshotIsLater ==
    CanaryInv /\ [CanaryNext]_canaryVars =>
      (cached.present /\ cached'.present /\ cached' # cached =>
         \A s \in Stages, o \in OutcomeKinds :
           cached'.events[s][o] < cached.events[s][o] => cached'.rev > cached.rev)
<1> SUFFICES ASSUME CanaryInv, [CanaryNext]_canaryVars,
                    cached.present, cached'.present, cached' # cached,
                    NEW s \in Stages, NEW o \in OutcomeKinds,
                    cached'.events[s][o] < cached.events[s][o]
             PROVE  cached'.rev > cached.rev
  OBVIOUS
<1>1. Open \/ \E ok \in BOOLEAN : Publish(ok)
  BY DEF CanaryNext, canaryVars, MakeTable, SaveState, Measure, PutAudit, PutOutcome, Die,
         ReadEvents, ReadErrors, ReadDurations, Query, Sample, Judge
<1>2. ~Open BY EmptySnapshot DEF Open
<1>3. PICK ok \in BOOLEAN : Publish(ok) BY <1>1, <1>2
<1>4. scrape.snap \in SnapRecs /\ cached \in SnapRecs
  BY DEF CanaryInv, ScrapeInv, ScrapeRecs, ServedInv
<1>5. cached'.present = scrape.snap.present /\ cached'.rev = scrape.snap.rev
      /\ cached'.events = scrape.snap.events
  BY <1>3, <1>4 DEF Publish, SnapRecs
<1>6. /\ cached.rev <= scrape.snap.rev
      /\ (cached.rev = scrape.snap.rev => cached.events[s][o] <= scrape.snap.events[s][o])
  BY <1>5 DEF CanaryInv, ServedInv
<1>7. cached.rev \in Nat /\ scrape.snap.rev \in Nat
      /\ cached.events[s][o] \in Nat /\ scrape.snap.events[s][o] \in Nat
  <2>1. cached.events \in [Stages -> [OutcomeKinds -> Nat]]
        /\ scrape.snap.events \in [Stages -> [OutcomeKinds -> Nat]]
    BY <1>4 DEF SnapRecs
  <2> QED BY <1>4, <2>1 DEF SnapRecs
<1> QED BY <1>5, <1>6, <1>7

\* A count that the exporter serves falls only when a row of the ledger was
\* recorded again with another stage or outcome (OutcomeStore.record).
THEOREM CountersFallRarely == CanarySpec => CountersFallOnlyOnRerecord
<1>1. CanarySpec => []CanaryInv BY CanaryInitInv, CanaryStepInv, PTL DEF CanarySpec
<1> QED BY <1>1, NewSnapshotIsLater, PTL DEF CanarySpec, CountersFallOnlyOnRerecord
==============================================================================
