--------------------------- MODULE DualRead_proofs ----------------------------
(***************************************************************************)
(* Theorems about DualRead, for any set of requests, any threshold and any *)
(* number of resets.                                                       *)
(***************************************************************************)
EXTENDS DualRead, SequenceTheorems, TLAPS

\* The breaker's window holds observations since the last reset only, and each
\* of its trips has been counted.
BreakerInv ==
    /\ TripsAreCountedOnce
    /\ TripNeedsFreshWindow
    /\ ReportedTripIsCleared
    /\ Len(window) <= recorded

\* Where r is says which way its snapshot sent it, and how far it got.
RouteMatches(r) ==
    /\ pc[r] # "idle" => snapshot[r] = (enabled /\ entry[r] = "closed")
    /\ pc[r] \in {"idle", "handler", "inline"} => secondary[r] = "none" /\ outcome[r] = "none"
    /\ pc[r] \in {"idle", "handler"} => ~bugTrace[r]
    /\ pc[r] = "inline" => ~snapshot[r] \/ bugTrace[r]
    /\ pc[r] \in {"primary", "secondary", "record"} =>
          snapshot[r] /\ ~bugTrace[r] /\ outcome[r] # "skipped"
    /\ secondary[r] # "none" => snapshot[r] /\ ~bugTrace[r]
    /\ outcome[r] = "skipped" => ~snapshot[r] \/ bugTrace[r]

\* A request past its canonical query has its result; none is answered twice.
AnswerMatches(r) ==
    /\ pc[r] \in {"secondary", "record"} => primary[r] = "result"
    /\ pc[r] # "done" => answer[r] = "none"

RouteInv == \A r \in Requests : RouteMatches(r) /\ AnswerMatches(r)

IInv == TypeOK /\ BreakerInv /\ RouteInv

\* Initially nothing has happened.
LEMMA InvInit == Init => IInv
<1> SUFFICES ASSUME Init PROVE IInv
  OBVIOUS
<1>1. TypeOK
  <2>1. window \in Seq(BOOLEAN) /\ admin \in [pc : {"idle", "read"}, was : BOOLEAN]
    BY DEF Init
  <2>2. resets \in 0 .. MaxResets /\ trips \in Nat /\ cleared \in Nat /\ recorded \in Nat
    BY DualReadAssumption DEF Init
  <2> QED BY <2>1, <2>2 DEF Init, TypeOK
<1>2. BreakerInv
  BY DEF Init, BreakerInv, TripsAreCountedOnce, TripNeedsFreshWindow, ReportedTripIsCleared
<1>3. RouteInv
  BY DEF Init, RouteInv, RouteMatches, AnswerMatches
<1> QED BY <1>1, <1>2, <1>3 DEF IInv

\* What Record leaves in the window: a suffix, and one observation more.
LEMMA WindowAfter ==
  ASSUME TypeOK, NEW k \in 0 .. Len(window), NEW u \in BOOLEAN
  PROVE  LET kept == Append(SubSeq(window, k + 1, Len(window)), u)
         IN  kept \in Seq(BOOLEAN) /\ Len(kept) \in Nat /\ Len(kept) <= Len(window) + 1
<1>w. window \in Seq(BOOLEAN)
  BY DEF TypeOK
<1>1. Len(window) \in Nat /\ \A i \in k + 1 .. Len(window) : window[i] \in BOOLEAN
  BY <1>w, LenProperties
<1> DEFINE suffix == SubSeq(window, k + 1, Len(window))
<1>2. suffix \in Seq(BOOLEAN) /\ Len(suffix) \in Nat /\ Len(suffix) <= Len(window)
  BY <1>1, SubSeqProperties
<1> HIDE DEF suffix
<1>3. Append(suffix, u) \in Seq(BOOLEAN) /\ Len(Append(suffix, u)) = Len(suffix) + 1
  BY <1>2, AppendProperties
<1> QED BY <1>1, <1>2, <1>3 DEF suffix

\* Record keeps the breaker's invariant: it opens the breaker only on a window
\* that is long enough, and all of the window is fresh.
LEMMA RecordKeepsBreaker ==
  ASSUME TypeOK, BreakerInv, NEW r \in Requests, Record(r)
  PROVE  BreakerInv' /\ window' \in Seq(BOOLEAN) /\ tripped' \in BOOLEAN /\ trips' \in Nat
<1>1. PICK k \in 0 .. Len(window) :
        LET kept == Append(SubSeq(window, k + 1, Len(window)), outcome[r] = "aphelion_unreachable")
        IN  window' = kept /\ Trip(kept)
  BY DEF Record
<1>2. /\ window' \in Seq(BOOLEAN) /\ Len(window') \in Nat /\ Len(window') <= Len(window) + 1
      /\ Trip(window')
  BY <1>1, WindowAfter
<1>t. /\ window \in Seq(BOOLEAN) /\ tripped \in BOOLEAN
      /\ recorded \in Nat /\ trips \in Nat /\ cleared \in Nat
  BY DEF TypeOK
<1>3. Len(window) \in Nat /\ recorded' = recorded + 1 /\ Len(window') <= recorded'
  BY <1>2, <1>t, LenProperties DEF BreakerInv, Record
<1>4. tripped' \in BOOLEAN /\ trips' \in Nat
  <2>1. CASE ~tripped /\ Exceeds(window')
    BY <2>1, <1>2, <1>t DEF Trip
  <2>2. CASE ~(~tripped /\ Exceeds(window'))
    BY <2>2, <1>2, <1>t DEF Trip
  <2> QED BY <2>1, <2>2
<1>5. (tripped => tripped') /\ (tripped' => tripped \/ Len(window') >= MinObs)
  BY <1>2 DEF Trip, Exceeds
<1>6. TripsAreCountedOnce'
  <2>1. trips = cleared + (IF tripped THEN 1 ELSE 0) /\ cleared' = cleared
    BY DEF BreakerInv, TripsAreCountedOnce, Record, operator
  <2>2. CASE ~tripped /\ Exceeds(window')
    BY <2>1, <2>2, <1>2, <1>t DEF Trip, TripsAreCountedOnce
  <2>3. CASE ~(~tripped /\ Exceeds(window'))
    BY <2>1, <2>3, <1>2 DEF Trip, TripsAreCountedOnce
  <2> QED BY <2>2, <2>3
<1>7. TripNeedsFreshWindow'
  <2>1. tripped => recorded >= MinObs
    BY DEF BreakerInv, TripNeedsFreshWindow
  <2> QED BY <2>1, <1>2, <1>3, <1>5, <1>t, DualReadAssumption DEF TripNeedsFreshWindow
<1>8. ReportedTripIsCleared'
  BY <1>5 DEF ReportedTripIsCleared, BreakerInv, Record, operator
<1> QED BY <1>2, <1>3, <1>4, <1>6, <1>7, <1>8 DEF BreakerInv

\* The steps of a request other than Record.
Quiet(r) ==
    \/ Enter(r) \/ Dispatch(r) \/ Propagate(r) \/ AwaitPrimary(r)
    \/ SecondaryInTime(r) \/ SecondaryTimeout(r)
    \/ \E s \in {"result", "error"} : PrimaryEnds(r, s)
    \/ \E e \in SecondaryEnd : SecondaryEnds(r, e)

\* The steps before and after the observation leave breaker and operator alone.
LEMMA QuietLeavesBreaker ==
  ASSUME NEW r \in Requests, Quiet(r)
  PROVE  UNCHANGED <<breaker, operator>> /\ enabled' = enabled
<1> QED BY DEF Quiet, Enter, Dispatch, Propagate, AwaitPrimary, SecondaryInTime,
              SecondaryTimeout, PrimaryEnds, SecondaryEnds

\* The outcome of a secondary that ended in time is no "skipped".
LEMMA OutcomeOfEnd ==
  ASSUME NEW e \in SecondaryEnd
  PROVE  Outcome[e] \in {"match or diverge", "primary_only", "aphelion_unreachable"}
<1>1. CASE e = "compared"
  BY <1>1 DEF Outcome
<1>2. CASE e = "unreachable"
  BY <1>2 DEF Outcome
<1>3. CASE e = "faulty"
  BY <1>3 DEF Outcome
<1> QED BY <1>1, <1>2, <1>3 DEF SecondaryEnd

\* The types of what requests write.
LocalsOK ==
    /\ pc \in [Requests -> {"idle", "handler", "inline", "primary", "secondary", "record", "done"}]
    /\ snapshot \in [Requests -> BOOLEAN]
    /\ primary \in [Requests -> {"none", "result", "error"}]
    /\ secondary \in [Requests -> {"none", "running"} \cup SecondaryEnd]
    /\ outcome \in [Requests -> {"none", "skipped", "match or diverge", "primary_only",
                                 "aphelion_unreachable"}]
    /\ answer \in [Requests -> {"none", "result", "error"}]
    /\ entry \in [Requests -> {"none", "open", "closed"}]
    /\ bugTrace \in [Requests -> BOOLEAN]

\* The steps of a request keep them.
LEMMA RequestTypes ==
  ASSUME TypeOK, NEW r \in Requests, Quiet(r) \/ Record(r)
  PROVE  LocalsOK'
<1>t. LocalsOK /\ enabled \in BOOLEAN /\ tripped \in BOOLEAN
  BY DEF TypeOK, LocalsOK
<1>1. CASE Enter(r)
  BY <1>1, <1>t DEF Enter, Goto, LocalsOK
<1>2. CASE Dispatch(r)
  BY <1>2, <1>t DEF Dispatch, Goto, LocalsOK
<1>3. CASE Propagate(r)
  BY <1>3, <1>t DEF Propagate, Goto, LocalsOK, inputs
<1>4. CASE AwaitPrimary(r)
  BY <1>4, <1>t DEF AwaitPrimary, Goto, LocalsOK, inputs
<1>5. CASE SecondaryInTime(r)
  BY <1>5, <1>t, OutcomeOfEnd DEF SecondaryInTime, Classify, Goto, LocalsOK, inputs
<1>6. CASE SecondaryTimeout(r)
  BY <1>6, <1>t DEF SecondaryTimeout, Goto, LocalsOK, inputs
<1>7. ASSUME NEW s \in {"result", "error"}, PrimaryEnds(r, s)
      PROVE  LocalsOK'
  BY <1>7, <1>t DEF PrimaryEnds, LocalsOK, inputs
<1>8. ASSUME NEW e \in SecondaryEnd, SecondaryEnds(r, e)
      PROVE  LocalsOK'
  BY <1>8, <1>t DEF SecondaryEnds, LocalsOK, inputs
<1>9. CASE Record(r)
  BY <1>9, <1>t DEF Record, Goto, LocalsOK, inputs
<1> QED BY <1>1, <1>2, <1>3, <1>4, <1>5, <1>6, <1>7, <1>8, <1>9 DEF Quiet

\* A step of one request leaves what the invariant says of every other one.
LEMMA OthersKept ==
  ASSUME TypeOK, RouteInv, NEW r \in Requests, Quiet(r) \/ Record(r),
         NEW q \in Requests, q # r
  PROVE  RouteMatches(q)' /\ AnswerMatches(q)'
<1> DEFINE SameAt == /\ pc'[q] = pc[q] /\ snapshot'[q] = snapshot[q] /\ primary'[q] = primary[q]
                     /\ secondary'[q] = secondary[q] /\ outcome'[q] = outcome[q]
                     /\ answer'[q] = answer[q] /\ entry'[q] = entry[q] /\ enabled' = enabled
                     /\ bugTrace'[q] = bugTrace[q]
<1>1. SameAt
  <2>1. CASE Enter(r)
    BY <2>1 DEF Enter, Goto, TypeOK
  <2>2. CASE Dispatch(r)
    <3>1. pc'[q] = pc[q]
      BY <2>2 DEF Dispatch, Goto, TypeOK
    <3>2. secondary'[q] = secondary[q]
      BY <2>2 DEF Dispatch, TypeOK
    <3>3. bugTrace'[q] = bugTrace[q]
      BY <2>2 DEF Dispatch, TypeOK
    <3> QED BY <2>2, <3>1, <3>2, <3>3 DEF Dispatch
  <2>3. CASE Propagate(r)
    BY <2>3 DEF Propagate, Goto, TypeOK, inputs
  <2>4. CASE AwaitPrimary(r)
    BY <2>4 DEF AwaitPrimary, Goto, TypeOK, inputs
  <2>5. CASE SecondaryInTime(r)
    BY <2>5 DEF SecondaryInTime, Classify, Goto, TypeOK, inputs
  <2>6. CASE SecondaryTimeout(r)
    BY <2>6 DEF SecondaryTimeout, Goto, TypeOK, inputs
  <2>7. ASSUME NEW s \in {"result", "error"}, PrimaryEnds(r, s) PROVE SameAt
    BY <2>7 DEF PrimaryEnds, TypeOK, inputs
  <2>8. ASSUME NEW e \in SecondaryEnd, SecondaryEnds(r, e) PROVE SameAt
    BY <2>8 DEF SecondaryEnds, TypeOK, inputs
  <2>9. CASE Record(r)
    BY <2>9 DEF Record, Goto, TypeOK, inputs
  <2> QED BY <2>1, <2>2, <2>3, <2>4, <2>5, <2>6, <2>7, <2>8, <2>9 DEF Quiet
<1> QED BY <1>1 DEF RouteInv, RouteMatches, AnswerMatches

\* A request's own steps keep what the invariant says of it.
LEMMA OwnKept ==
  ASSUME TypeOK, RouteInv, NEW r \in Requests, Quiet(r) \/ Record(r)
  PROVE  RouteMatches(r)' /\ AnswerMatches(r)'
<1>r. RouteMatches(r) /\ AnswerMatches(r)
  BY DEF RouteInv
<1>t. /\ DOMAIN pc = Requests /\ DOMAIN snapshot = Requests /\ DOMAIN primary = Requests
      /\ DOMAIN secondary = Requests /\ DOMAIN outcome = Requests
      /\ DOMAIN answer = Requests /\ DOMAIN entry = Requests /\ DOMAIN bugTrace = Requests
      /\ enabled \in BOOLEAN /\ snapshot[r] \in BOOLEAN
  BY DEF TypeOK
<1>1. CASE Enter(r)
  <2>1. /\ pc[r] = "idle" /\ pc'[r] = "handler" /\ snapshot'[r] = (enabled /\ ~tripped)
        /\ entry'[r] = (IF tripped THEN "open" ELSE "closed") /\ enabled' = enabled
        /\ primary' = primary /\ secondary' = secondary /\ outcome' = outcome /\ answer' = answer
        /\ bugTrace' = bugTrace
    BY <1>1, <1>t DEF Enter, Goto
  <2>2. snapshot'[r] = (enabled' /\ entry'[r] = "closed")
    BY <2>1
  <2> QED BY <1>r, <2>1, <2>2 DEF RouteMatches, AnswerMatches
<1>2. CASE Dispatch(r)
  <2>1. /\ pc[r] = "handler" /\ snapshot' = snapshot /\ entry' = entry /\ enabled' = enabled
        /\ primary' = primary /\ outcome' = outcome /\ answer' = answer
    BY <1>2 DEF Dispatch
  <2>2. \/ snapshot[r] /\ pc'[r] = "primary" /\ bugTrace' = bugTrace
        \/ snapshot[r] /\ pc'[r] = "inline" /\ secondary' = secondary /\ bugTrace'[r]
        \/ ~snapshot[r] /\ pc'[r] = "inline" /\ secondary' = secondary /\ bugTrace' = bugTrace
    BY <1>2, <1>t DEF Dispatch, Goto, WantsDual
  <2> QED BY <1>r, <2>1, <2>2 DEF RouteMatches, AnswerMatches
<1>3. CASE Propagate(r)
  <2>1. /\ pc[r] \in {"inline", "primary"} /\ pc'[r] = "done"
        /\ UNCHANGED <<snapshot, inputs, enabled, secondary, outcome>>
    BY <1>3, <1>t DEF Propagate, Goto
  <2> QED BY <1>r, <2>1 DEF RouteMatches, AnswerMatches, inputs
<1>4. CASE AwaitPrimary(r)
  <2>1. primary[r] = "result" /\ UNCHANGED <<snapshot, inputs, enabled, primary, secondary>>
    BY <1>4 DEF AwaitPrimary
  <2>2. \/ pc[r] = "inline" /\ pc'[r] = "done" /\ outcome'[r] = "skipped"
        \/ pc[r] = "primary" /\ pc'[r] = "secondary" /\ UNCHANGED <<outcome, answer>>
    BY <1>4, <1>t DEF AwaitPrimary, Goto
  <2> QED BY <1>r, <2>1, <2>2 DEF RouteMatches, AnswerMatches, inputs
<1>5. CASE SecondaryInTime(r) \/ SecondaryTimeout(r)
  <2>1. /\ pc[r] = "secondary" /\ pc'[r] = "record"
        /\ UNCHANGED <<snapshot, inputs, enabled, primary, secondary, answer>>
    BY <1>5, <1>t DEF SecondaryInTime, SecondaryTimeout, Classify, Goto
  <2>2. outcome'[r] # "skipped"
    BY <1>5, <1>t, OutcomeOfEnd DEF SecondaryInTime, SecondaryTimeout, Classify
  <2> QED BY <1>r, <2>1, <2>2 DEF RouteMatches, AnswerMatches, inputs
<1>6. ASSUME NEW s \in {"result", "error"}, PrimaryEnds(r, s)
      PROVE  RouteMatches(r)' /\ AnswerMatches(r)'
  <2>1. /\ pc[r] \in {"inline", "primary"}
        /\ UNCHANGED <<pc, snapshot, inputs, enabled, secondary, outcome, answer>>
    BY <1>6 DEF PrimaryEnds
  <2> QED BY <1>r, <2>1 DEF RouteMatches, AnswerMatches, inputs
<1>7. ASSUME NEW e \in SecondaryEnd, SecondaryEnds(r, e)
      PROVE  RouteMatches(r)' /\ AnswerMatches(r)'
  <2>1. secondary[r] = "running" /\ UNCHANGED <<pc, snapshot, inputs, enabled, primary, outcome, answer>>
    BY <1>7 DEF SecondaryEnds
  <2> QED BY <1>r, <2>1 DEF RouteMatches, AnswerMatches, inputs
<1>8. CASE Record(r)
  <2>1. /\ pc[r] = "record" /\ pc'[r] = "done"
        /\ UNCHANGED <<snapshot, inputs, enabled, secondary, outcome>>
    BY <1>8, <1>t DEF Record, Goto
  <2> QED BY <1>r, <2>1 DEF RouteMatches, AnswerMatches, inputs
<1> QED BY <1>1, <1>2, <1>3, <1>4, <1>5, <1>6, <1>7, <1>8 DEF Quiet

\* The operator's steps keep the invariant.
LEMMA OperatorKeeps ==
  ASSUME IInv, ReadTripped \/ Reset
  PROVE  IInv'
<1> USE DualReadAssumption DEF IInv
<1>1. RouteInv'
  BY DEF RouteInv, RouteMatches, AnswerMatches, ReadTripped, Reset, inputs
<1>2. TypeOK'
  <2>1. CASE ReadTripped
    <3>1. tripped \in BOOLEAN /\ resets \in 0 .. MaxResets
      BY DEF TypeOK
    <3>2. admin' \in [pc : {"idle", "read"}, was : BOOLEAN]
      BY <2>1, <3>1 DEF ReadTripped
    <3>3. resets' \in 0 .. MaxResets
      BY <2>1, <3>1 DEF ReadTripped
    <3> QED BY <2>1, <3>2, <3>3 DEF ReadTripped, TypeOK, breaker, inputs
  <2>2. CASE Reset
    <3>t. admin \in [pc : {"idle", "read"}, was : BOOLEAN] /\ cleared \in Nat
      BY DEF TypeOK
    <3>w. window' = <<>>
      BY <2>2 DEF Reset, ClearWindow
    <3>1. window' \in Seq(BOOLEAN)
      BY <3>w
    <3>2. admin' \in [pc : {"idle", "read"}, was : BOOLEAN]
      BY <2>2, <3>t DEF Reset
    <3>3. /\ tripped' = FALSE /\ recorded' = 0
          /\ cleared' = cleared + (IF tripped THEN 1 ELSE 0)
      BY <2>2 DEF Reset
    <3>4. tripped' \in BOOLEAN
      BY <3>3
    <3>5. cleared' \in Nat /\ recorded' \in Nat
      <4>1. CASE tripped
        BY <4>1, <3>3, <3>t
      <4>2. CASE ~tripped
        BY <4>2, <3>3, <3>t
      <4> QED BY <4>1, <4>2
    <3> QED BY <2>2, <3>1, <3>2, <3>4, <3>5 DEF Reset, TypeOK, inputs
  <2> QED BY <2>1, <2>2
<1>3. BreakerInv'
  <2>1. CASE ReadTripped
    BY <2>1 DEF ReadTripped, BreakerInv, TripsAreCountedOnce, TripNeedsFreshWindow,
              ReportedTripIsCleared, breaker, TypeOK
  <2>2. CASE Reset
    <3>1. cleared \in Nat /\ trips = cleared + (IF tripped THEN 1 ELSE 0)
      BY DEF TypeOK, BreakerInv, TripsAreCountedOnce
    <3>2. TripsAreCountedOnce'
      BY <2>2, <3>1 DEF Reset, TripsAreCountedOnce
    <3>3. TripNeedsFreshWindow' /\ ReportedTripIsCleared' /\ Len(window') <= recorded'
      <4>1. window' = <<>> /\ recorded' = 0 /\ ~tripped'
        BY <2>2 DEF Reset, ClearWindow
      <4>2. admin'.pc # "read"
        BY <2>2 DEF Reset, TypeOK
      <4> QED BY <4>1, <4>2 DEF TripNeedsFreshWindow, ReportedTripIsCleared
    <3> QED BY <3>2, <3>3 DEF BreakerInv
  <2> QED BY <2>1, <2>2
<1> QED BY <1>1, <1>2, <1>3

\* The invariant is inductive.
LEMMA InvStep == IInv /\ [Next]_vars => IInv'
<1> SUFFICES ASSUME IInv, [Next]_vars PROVE IInv' OBVIOUS
<1>1. ASSUME NEW r \in Requests, Quiet(r) \/ Record(r) PROVE IInv'
  <2>1. RouteInv'
    BY <1>1, OthersKept, OwnKept DEF IInv, RouteInv
  <2>2. BreakerInv' /\ window' \in Seq(BOOLEAN) /\ tripped' \in BOOLEAN /\ trips' \in Nat
        /\ recorded' \in Nat
    <3>1. CASE Quiet(r)
      BY <3>1, QuietLeavesBreaker DEF IInv, BreakerInv, TripsAreCountedOnce,
              TripNeedsFreshWindow, ReportedTripIsCleared, TypeOK, breaker, operator
    <3>2. CASE Record(r)
      <4>1. recorded \in Nat /\ recorded' = recorded + 1
        BY <3>2 DEF IInv, TypeOK, Record
      <4> QED BY <3>2, <4>1, RecordKeepsBreaker DEF IInv
    <3> QED BY <1>1, <3>1, <3>2
  <2>3. UNCHANGED <<operator, enabled>>
    BY <1>1, QuietLeavesBreaker DEF Record
  <2>4. TypeOK'
    BY <1>1, <2>2, <2>3, RequestTypes DEF IInv, TypeOK, LocalsOK, operator
  <2> QED BY <2>1, <2>2, <2>4 DEF IInv
<1>2. CASE ReadTripped \/ Reset
  BY <1>2, OperatorKeeps
<1>3. CASE UNCHANGED vars
  BY <1>3 DEF vars, IInv, TypeOK, BreakerInv, TripsAreCountedOnce, TripNeedsFreshWindow,
              ReportedTripIsCleared, RouteInv, RouteMatches, AnswerMatches
<1> QED BY <1>1, <1>2, <1>3 DEF Next, Handle, Quiet

\* The inductive invariant holds throughout.
LEMMA Inductive == Spec => []IInv
<1> QED BY InvInit, InvStep, PTL DEF Spec

\* circuit_breaker_tripped_total counts every trip once
\* (record_unreachable_observation's test of tripped under the lock); after a
\* reset it takes MIN_OBSERVATIONS new observations to trip again; and a reset
\* that reports a trip clears one.
THEOREM BreakerIsSafe == Spec => []BreakerSafety
<1>1. IInv => BreakerSafety
  BY DEF IInv, BreakerInv, BreakerSafety
<1> QED BY Inductive, <1>1, PTL

\* The middleware's snapshot decides whether a request queries the secondary;
\* only traces of bugs, which query answers alone, skip it all the same.
THEOREM SnapshotsDecide == Spec => []SnapshotDecides
<1>1. IInv => SnapshotDecides
  <2> SUFFICES ASSUME IInv, NEW r \in Requests
               PROVE  /\ secondary[r] # "none" => enabled /\ entry[r] = "closed" /\ ~bugTrace[r]
                      /\ outcome[r] = "skipped" =>
                            ~(enabled /\ entry[r] = "closed") \/ bugTrace[r]
    BY DEF SnapshotDecides
  <2>1. RouteMatches(r)
    BY DEF IInv, RouteInv
  <2> QED BY <2>1 DEF RouteMatches
<1> QED BY Inductive, <1>1, PTL

\* A step of DualRead is a step of CanonicalRead or leaves its variables alone.
LEMMA StepRefines ==
  ASSUME IInv, [Next]_vars
  PROVE  [Canonical!Next]_<<primary, answer>>
<1> USE DEF IInv, RouteInv, AnswerMatches
<1>1. ASSUME NEW r \in Requests, Handle(r)
      PROVE  Canonical!Answer(r) \/ UNCHANGED <<primary, answer>>
  <2>1. CASE Propagate(r)
    BY <2>1 DEF Propagate, Canonical!Answer
  <2>2. CASE AwaitPrimary(r)
    BY <2>2 DEF AwaitPrimary, Canonical!Answer
  <2>3. CASE Record(r)
    BY <2>3 DEF Record, Canonical!Answer
  <2>4. CASE Dispatch(r) \/ SecondaryInTime(r) \/ SecondaryTimeout(r)
    BY <2>4 DEF Dispatch, SecondaryInTime, Classify, SecondaryTimeout
  <2> QED BY <1>1, <2>1, <2>2, <2>3, <2>4 DEF Handle
<1>2. ASSUME NEW r \in Requests, NEW s \in {"result", "error"}, PrimaryEnds(r, s)
      PROVE  Canonical!Say(r, s)
  BY <1>2 DEF PrimaryEnds, Canonical!Say
<1>3. ASSUME NEW r \in Requests, Enter(r) \/ \E e \in SecondaryEnd : SecondaryEnds(r, e)
      PROVE  UNCHANGED <<primary, answer>>
  BY <1>3 DEF Enter, SecondaryEnds
<1>4. CASE ReadTripped \/ Reset \/ UNCHANGED vars
  BY <1>4 DEF ReadTripped, Reset, vars
<1> QED BY <1>1, <1>2, <1>3, <1>4 DEF Next, Canonical!Next, Canonical!Said

\* DualReadRouter.query implements the canonical read: whatever the secondary,
\* the breaker and the operator do, the caller gets the primary's result or its
\* error.
THEOREM DualReadIsCanonical == Spec => ImplementsCanonicalRead
<1>1. Init => Canonical!Init
  BY DEF Init, Canonical!Init
<1>2. IInv /\ [Next]_vars => [Canonical!Next]_<<primary, answer>>
  BY StepRefines
<1> QED BY Inductive, <1>1, <1>2, PTL DEF Spec, ImplementsCanonicalRead, Canonical!Spec
=============================================================================
