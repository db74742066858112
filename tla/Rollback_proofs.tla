---------------------------- MODULE Rollback_proofs ----------------------------
(***************************************************************************)
(* Theorems about Rollback, for any number of threads, triggers, windows   *)
(* and samples.                                                            *)
(***************************************************************************)
EXTENDS Rollback, SequenceTheorems, WellFoundedInduction, TLAPS

Sample == [age : 0 .. OldAge, bad : BOOLEAN]

\* The sample that observe_request records for one trigger.
LEMMA SampleTyped ==
  ASSUME NEW a \in 0 .. MaxLag, NEW b \in BOOLEAN
  PROVE  /\ [age |-> a, bad |-> b] \in Sample
         /\ [age |-> a, bad |-> b].age <= MaxLag
<1>1. a \in 0 .. OldAge /\ a <= MaxLag
  BY RollbackAssumption
<1> QED BY <1>1 DEF Sample

\* A sample may lie in its deque behind younger ones, by the time an observer
\* waited for the lock at most.
NearlySorted(d) == \A i, j \in DOMAIN d : i < j => d[j].age <= d[i].age + MaxLag

\* The deque d is kept from position k on.
SuffixOf(e, d) ==
    \E k \in Nat : /\ Len(e) + k = Len(d)
                   /\ \A i \in 1 .. Len(e) : e[i] = d[i + k]

\* Eviction keeps a suffix whose head, if there is one, is inside the window.
LEMMA EvictKeepsSuffix ==
  ASSUME NEW d \in Deque, NEW width \in Nat, NEW g \in Nat
  PROVE  LET e == Evict(d, width, g)
         IN  /\ e \in Deque
             /\ SuffixOf(e, d)
             /\ Len(e) > 0 => e[1].age <= g + width
<1> DEFINE Young == {i \in DOMAIN d : d[i].age <= g + width}
           e == Evict(d, width, g)
<1>0. d \in Seq(Sample) /\ Len(d) \in Nat /\ DOMAIN d = 1 .. Len(d)
  BY DEF Deque, Sample
<1>1. CASE Young = {}
  <2>1. e = <<>>
    BY <1>1 DEF Evict
  <2>2. Len(e) = 0 /\ e \in Deque
    BY <2>1 DEF Deque
  <2> HIDE DEF e
  <2>3. SuffixOf(e, d)
    <3>1. Len(d) \in Nat /\ Len(e) + Len(d) = Len(d)
      BY <1>0, <2>2
    <3>2. \A i \in 1 .. Len(e) : FALSE
      BY <2>2
    <3> QED BY <3>1, <3>2 DEF SuffixOf
  <2> QED BY <2>2, <2>3 DEF e
<1>2. CASE Young # {}
  <2> DEFINE first == CHOOSE i \in Young : \A j \in Young : i <= j
  <2>1. \E i \in Young : \A j \in Young : i <= j
    <3>1. Young \subseteq Nat
      BY <1>0
    <3>2. PICK i \in Young : \A j \in Young : <<j, i>> \notin OpToRel(<, Nat)
      <4> HIDE DEF Young
      <4> QED BY <1>2, <3>1, NatLessThanWellFounded, WFMin
    <3>3. \A j \in Young : ~(j < i)
      BY <3>1, <3>2 DEF OpToRel
    <3> QED BY <3>1, <3>3
  <2>2. first \in Young
    BY <2>1
  <2>3. e = SubSeq(d, first, Len(d))
    BY <1>2 DEF Evict
  <2>4. first \in 1 .. Len(d) /\ d[first].age <= g + width
    BY <1>0, <2>2
  <2> HIDE DEF first, e, Young
  <2>5. \A i \in first .. Len(d) : d[i] \in Sample
    BY <1>0, <2>4
  <2>6. /\ e \in Seq(Sample)
        /\ Len(e) = Len(d) - first + 1
        /\ \A i \in 1 .. Len(d) - first + 1 : e[i] = d[first + i - 1]
    BY <1>0, <2>3, <2>4, <2>5, SubSeqProperties
  <2>7. e[1] = d[first]
    BY <1>0, <2>4, <2>6
  <2>8. SuffixOf(e, d)
    <3>1. first - 1 \in Nat /\ Len(e) + (first - 1) = Len(d)
      BY <1>0, <2>4, <2>6
    <3>2. \A i \in 1 .. Len(e) : e[i] = d[i + (first - 1)]
      BY <1>0, <2>4, <2>6
    <3> QED BY <3>1, <3>2 DEF SuffixOf
  <2> QED BY <2>4, <2>6, <2>7, <2>8 DEF Deque, Sample, e
<1> QED BY <1>1, <1>2

\* What a suffix inherits from its deque.
LEMMA SuffixInherits ==
  ASSUME NEW d \in Deque, NEW e \in Deque, SuffixOf(e, d)
  PROVE  /\ NearlySorted(d) => NearlySorted(e)
         /\ \A i \in DOMAIN e : \E j \in DOMAIN d : e[i] = d[j]
<1>0. /\ Len(d) \in Nat /\ DOMAIN d = 1 .. Len(d)
      /\ Len(e) \in Nat /\ DOMAIN e = 1 .. Len(e)
  BY DEF Deque
<1> PICK k \in Nat : Len(e) + k = Len(d) /\ \A i \in 1 .. Len(e) : e[i] = d[i + k]
  BY DEF SuffixOf
<1>1. \A i \in DOMAIN e : i + k \in DOMAIN d /\ e[i] = d[i + k]
  BY <1>0
<1>2. \A i, j \in DOMAIN e : i < j => i + k < j + k
  BY <1>0
<1>3. NearlySorted(d) => NearlySorted(e)
  BY <1>1, <1>2 DEF NearlySorted
<1> QED BY <1>1, <1>3

\* An evicted deque is inside its window up to the wait for the lock.
LEMMA EvictBounds ==
  ASSUME NEW d \in Deque, NearlySorted(d), NEW width \in Nat, NEW g \in Nat,
         NEW i \in DOMAIN Evict(d, width, g)
  PROVE  Evict(d, width, g)[i].age <= width + g + MaxLag
<1> DEFINE e == Evict(d, width, g)
<1>1. e \in Deque /\ SuffixOf(e, d) /\ (Len(e) > 0 => e[1].age <= g + width)
  BY EvictKeepsSuffix
<1>2. NearlySorted(e)
  BY <1>1, SuffixInherits
<1>3. Len(e) \in Nat /\ DOMAIN e = 1 .. Len(e) /\ i \in DOMAIN e
  BY <1>1 DEF Deque
<1> HIDE DEF e
<1>4. 1 \in DOMAIN e /\ e[1] \in Sample /\ e[i] \in Sample
  <2>1. 1 \in 1 .. Len(e)
    BY <1>3
  <2>2. e \in Seq(Sample)
    BY <1>1 DEF Deque, Sample
  <2> QED BY <1>3, <2>1, <2>2
<1>5. e[1].age \in Nat /\ e[i].age \in Nat /\ e[1].age <= g + width
  BY <1>1, <1>3, <1>4, RollbackAssumption DEF Sample
<1>6. e[i].age <= e[1].age + MaxLag
  <2>1. CASE i = 1
    BY <1>5, <2>1, RollbackAssumption
  <2>2. CASE i # 1
    BY <1>2, <1>3, <1>4, <2>2 DEF NearlySorted
  <2> QED BY <2>1, <2>2
<1> QED BY <1>5, <1>6, RollbackAssumption DEF e

------------------------------------------------------------------------------
(* Types and order.                                                        *)

\* The deques are sorted up to the wait for the lock.
RollInv ==
    /\ TypeOK
    /\ NearlySorted(hits)
    /\ \A w \in Triggers : NearlySorted(windows[w])

\* A sample appended by a thread that has waited keeps a deque nearly sorted.
LEMMA AppendSorted ==
  ASSUME NEW d \in Deque, NearlySorted(d), NEW s \in Sample, s.age <= MaxLag
  PROVE  /\ Append(d, s) \in Deque
         /\ NearlySorted(Append(d, s))
<1> DEFINE e == Append(d, s)
<1>1. s.age \in Nat /\ MaxLag \in Nat /\ OldAge \in Nat
  BY RollbackAssumption DEF Sample
<1>2. d \in Seq(Sample) /\ s \in Sample
  BY DEF Deque, Sample
<1>3. e \in Seq(Sample) /\ Len(e) = Len(d) + 1
      /\ (\A i \in 1 .. Len(d) : e[i] = d[i]) /\ e[Len(d) + 1] = s
  BY <1>2, AppendProperties
<1>4. DOMAIN e = 1 .. Len(d) + 1 /\ DOMAIN d = 1 .. Len(d) /\ Len(d) \in Nat
  BY <1>2, <1>3
<1>5. \A i \in DOMAIN d : d[i].age \in Nat
  <2>1. \A i \in DOMAIN d : d[i] \in Sample
    BY <1>2, <1>4, ElementOfSeq
  <2> QED BY <1>1, <2>1 DEF Sample
<1>6. ASSUME NEW i \in DOMAIN e, NEW j \in DOMAIN e, i < j
      PROVE  e[j].age <= e[i].age + MaxLag
  <2>1. i \in DOMAIN d /\ e[i] = d[i]
    BY <1>3, <1>4, <1>6
  <2>2. CASE j \in DOMAIN d
    BY <1>3, <1>4, <1>6, <2>1, <2>2 DEF NearlySorted
  <2>3. CASE j = Len(d) + 1
    <3>1. e[j].age <= MaxLag
      BY <1>3, <2>3
    <3> QED BY <1>1, <1>5, <2>1, <3>1
  <2> QED BY <1>4, <2>2, <2>3
<1> HIDE DEF e
<1>7. NearlySorted(e)
  BY <1>6 DEF NearlySorted
<1> QED BY <1>3, <1>7 DEF Deque, Sample, e

\* Time passes for all samples of a deque alike.
LEMMA AgedSorted ==
  ASSUME NEW d \in Deque, NearlySorted(d)
  PROVE  /\ Aged(d) \in Deque
         /\ NearlySorted(Aged(d))
         /\ DOMAIN Aged(d) = DOMAIN d
         /\ \A i \in DOMAIN d : Aged(d)[i].bad = d[i].bad
<1>1. d \in Seq(Sample) /\ OldAge \in Nat /\ MaxLag \in Nat
  BY RollbackAssumption DEF Deque, Sample
<1>2. \A i \in DOMAIN d : /\ d[i].age \in 0 .. OldAge
                          /\ d[i].bad \in BOOLEAN
                          /\ Aged(d)[i] = [age |-> Older(d[i].age), bad |-> d[i].bad]
  <2>1. \A i \in DOMAIN d : d[i] \in Sample
    BY <1>1, ElementOfSeq, LenProperties
  <2>2. \A r \in Sample : [r EXCEPT !.age = Older(r.age)] = [age |-> Older(r.age), bad |-> r.bad]
    BY DEF Sample
  <2>3. \A i \in DOMAIN d : Aged(d)[i] = [d[i] EXCEPT !.age = Older(d[i].age)]
    BY DEF Aged
  <2> QED BY <2>1, <2>2, <2>3 DEF Sample
<1>3. \A a \in 0 .. OldAge : Older(a) \in 0 .. OldAge
  BY <1>1 DEF Older
<1>4. \A a, b \in 0 .. OldAge : b <= a + MaxLag => Older(b) <= Older(a) + MaxLag
  BY <1>1 DEF Older
<1>5. DOMAIN Aged(d) = DOMAIN d /\ DOMAIN d = 1 .. Len(d) /\ Len(d) \in Nat
  BY <1>1 DEF Aged
<1>6. \A i \in 1 .. Len(d) : Aged(d)[i] \in Sample
  BY <1>2, <1>3, <1>5 DEF Sample
<1>7. Aged(d) \in Seq(Sample)
  BY <1>5, <1>6 DEF Aged
<1>8. NearlySorted(Aged(d))
  BY <1>2, <1>4, <1>5 DEF NearlySorted
<1> QED BY <1>2, <1>5, <1>7, <1>8 DEF Deque, Sample

LEMMA RollInit == Init => RollInv
<1> SUFFICES ASSUME Init PROVE RollInv
  OBVIOUS
<1>1. <<>> \in Deque /\ NearlySorted(<<>>)
  BY DEF Deque, NearlySorted
<1>2. windows \in [Triggers -> Deque]
  BY <1>1 DEF Init, Cleared
<1>3. 0 \in 0 .. OldAge /\ 0 \in 0 .. MaxLag
  BY RollbackAssumption
<1>4. TypeOK
  BY <1>1, <1>2, <1>3 DEF Init, TypeOK
<1> QED BY <1>1, <1>4 DEF Init, RollInv, Cleared

\* Every handler keeps the types, and the deques nearly sorted.
LEMMA RollStep == RollInv /\ [Next]_vars => RollInv'
<1> SUFFICES ASSUME RollInv, [Next]_vars PROVE RollInv'
  OBVIOUS
<1>0. /\ TypeOK
      /\ NearlySorted(hits)
      /\ \A w \in Triggers : windows[w] \in Deque /\ NearlySorted(windows[w])
      /\ MaxLag \in Nat /\ OldAge \in Nat /\ MaxLag < OldAge
      /\ GateWindow \in Nat /\ \A w \in Triggers : Window[w] \in Nat
  BY RollbackAssumption DEF RollInv, TypeOK
<1>e. <<>> \in Deque /\ NearlySorted(<<>>)
  BY DEF Deque, NearlySorted
<1> USE DEF RollInv
<1>1. ASSUME NEW t \in Threads, NEW s \in {"observe", "evaluate"}, ReadClock(t, s) PROVE RollInv'
  BY <1>0, <1>1 DEF ReadClock, TypeOK
<1>2. ASSUME NEW t \in Threads, NEW bad \in SUBSET Triggers, Observe(t, bad) PROVE RollInv'
  <2>1. lag[t] \in 0 .. MaxLag /\ hits \in Deque
    BY <1>0 DEF TypeOK
  <2>2. hits' \in Deque /\ NearlySorted(hits')
    BY <1>0, <1>2, <2>1, SampleTyped, AppendSorted DEF Observe
  <2>3. \A w \in Triggers : Append(windows[w], [age |-> lag[t], bad |-> w \in bad]) \in Deque
                           /\ NearlySorted(Append(windows[w], [age |-> lag[t], bad |-> w \in bad]))
    <3> SUFFICES ASSUME NEW w \in Triggers
                 PROVE  LET s == [age |-> lag[t], bad |-> w \in bad]
                        IN  Append(windows[w], s) \in Deque /\ NearlySorted(Append(windows[w], s))
      OBVIOUS
    <3> DEFINE s == [age |-> lag[t], bad |-> w \in bad]
    <3>1. (w \in bad) \in BOOLEAN
      OBVIOUS
    <3>2. s \in Sample /\ s.age <= MaxLag
      BY <2>1, <3>1, SampleTyped
    <3> HIDE DEF s
    <3>3. Append(windows[w], s) \in Deque /\ NearlySorted(Append(windows[w], s))
      BY <1>0, <3>2, AppendSorted
    <3> QED BY <3>3 DEF s
  <2>4. windows' \in [Triggers -> Deque] /\ \A w \in Triggers : NearlySorted(windows'[w])
    BY <1>2, <2>3 DEF Observe
  <2>5. fresh' \in BOOLEAN
    BY <1>0, <1>2 DEF Observe, TypeOK
  <2>6. pc' \in [Threads -> {"idle", "observe", "evaluate"}] /\ lag' \in [Threads -> 0 .. MaxLag]
    BY <1>0, <1>2 DEF Observe, Done, TypeOK
  <2>7. UNCHANGED <<state, trippedAge, loss, durable, missed, restarts>>
    BY <1>2 DEF Observe
  <2> QED BY <1>0, <2>2, <2>4, <2>5, <2>6, <2>7 DEF TypeOK
<1>3. ASSUME NEW t \in Threads, Evaluate(t) PROVE RollInv'
  <2>1. lag[t] \in 0 .. MaxLag /\ lag[t] \in Nat /\ hits \in Deque
    BY <1>0 DEF TypeOK
  <2>2. hits' \in Deque /\ NearlySorted(hits')
    BY <1>0, <1>3, <2>1, EvictKeepsSuffix, SuffixInherits DEF Evaluate
  <2>3. \A w \in Triggers : Evict(windows[w], Window[w], lag[t]) \in Deque
                           /\ NearlySorted(Evict(windows[w], Window[w], lag[t]))
    BY <1>0, <2>1, EvictKeepsSuffix, SuffixInherits
  <2>4. windows' \in [Triggers -> Deque] /\ \A w \in Triggers : NearlySorted(windows'[w])
    BY <1>3, <2>3 DEF Evaluate
  <2>5. /\ state' \in {"running", "tripped", "awaiting_ack"}
        /\ durable' \in {"running", "tripped", "awaiting_ack"}
        /\ missed' \in BOOLEAN
        /\ trippedAge' \in 0 .. OldAge
    <3>1. lag[t] \in 0 .. OldAge
      BY <1>0, <2>1
    <3>2. \/ state' = "tripped" /\ trippedAge' = lag[t] /\ Persist("tripped")
          \/ state' = "awaiting_ack" /\ Persist("awaiting_ack") /\ UNCHANGED trippedAge
          \/ UNCHANGED <<state, trippedAge, durable, missed>>
      BY <1>3 DEF Evaluate
    <3> QED BY <1>0, <3>1, <3>2 DEF Persist, TypeOK
  <2>6. pc' \in [Threads -> {"idle", "observe", "evaluate"}] /\ lag' \in [Threads -> 0 .. MaxLag]
    BY <1>0, <1>3 DEF Evaluate, Done, TypeOK
  <2>7. UNCHANGED <<loss, fresh, restarts>>
    BY <1>3 DEF Evaluate
  <2> QED BY <1>0, <2>2, <2>4, <2>5, <2>6, <2>7 DEF TypeOK
<1>4. CASE ObserveLoss
  BY <1>0, <1>4 DEF ObserveLoss, TypeOK
<1>5. CASE Acknowledge
  <2>1. windows' \in [Triggers -> Deque] /\ \A w \in Triggers : NearlySorted(windows'[w])
    BY <1>e, <1>5 DEF Acknowledge, ResetTriggers, Cleared
  <2>2. /\ state' = "running" /\ trippedAge' = 0 /\ loss' = 0 /\ fresh' = FALSE
        /\ UNCHANGED <<hits, pc, lag, restarts>>
    BY <1>5 DEF Acknowledge, ResetTriggers
  <2>3. durable' \in {"running", "tripped", "awaiting_ack"} /\ missed' \in BOOLEAN
    BY <1>0, <1>5 DEF Acknowledge, PersistAck, Persist, TypeOK
  <2>4. 0 \in 0 .. OldAge
    BY <1>0
  <2> QED BY <1>0, <2>1, <2>2, <2>3, <2>4 DEF TypeOK
<1>6. CASE Restart
  <2>1. windows' \in [Triggers -> Deque] /\ \A w \in Triggers : NearlySorted(windows'[w])
    BY <1>e, <1>6 DEF Restart, Cleared
  <2>2. /\ state' = "running" /\ trippedAge' = 0 /\ loss' = 0 /\ fresh' = FALSE
        /\ hits' = <<>> /\ restarts' \in Nat
    BY <1>0, <1>6 DEF Restart, TypeOK
  <2>3. durable' \in {"running", "tripped", "awaiting_ack"} /\ missed' \in BOOLEAN
    BY <1>0, <1>6 DEF Restart, Persist, TypeOK
  <2>4. 0 \in 0 .. OldAge /\ 0 \in 0 .. MaxLag
    BY <1>0
  <2>5. pc' \in [Threads -> {"idle", "observe", "evaluate"}] /\ lag' \in [Threads -> 0 .. MaxLag]
    BY <1>6, <2>4 DEF Restart
  <2> QED BY <1>e, <2>1, <2>2, <2>3, <2>4, <2>5 DEF TypeOK
<1>7. CASE Tick
  <2>1. hits' \in Deque /\ NearlySorted(hits')
    BY <1>0, <1>7, AgedSorted DEF Tick, TypeOK
  <2>2. windows' \in [Triggers -> Deque] /\ \A w \in Triggers : NearlySorted(windows'[w])
    BY <1>0, <1>7, AgedSorted DEF Tick
  <2>3. trippedAge' \in 0 .. OldAge
    BY <1>0, <1>7 DEF Tick, Older, TypeOK
  <2>4. lag' \in [Threads -> 0 .. MaxLag]
    BY <1>0, <1>7 DEF Tick, TypeOK
  <2>5. UNCHANGED <<state, loss, durable, missed, pc, fresh, restarts>>
    BY <1>7 DEF Tick
  <2> QED BY <1>0, <2>1, <2>2, <2>3, <2>4, <2>5 DEF TypeOK
<1>8. CASE UNCHANGED vars
  BY <1>0, <1>8 DEF vars, TypeOK
<1> QED BY <1>1, <1>2, <1>3, <1>4, <1>5, <1>6, <1>7, <1>8 DEF Next

LEMMA RollAlways == Spec => []RollInv
  BY RollInit, RollStep, PTL DEF Spec

------------------------------------------------------------------------------
\* An evaluation counts no sample that is older than the window by more than an
\* observer's and its own wait for the lock: the eviction from the left is good
\* enough because the deques are nearly sorted.
THEOREM StaleIsBounded == Spec => StaleEvidenceIsBounded
<1> DEFINE Bounded ==
      \A t \in Threads : pc[t] = "evaluate" /\ pc'[t] = "idle" /\ restarts' = restarts =>
         /\ \A i \in DOMAIN hits' : hits'[i].age <= GateWindow + lag[t] + MaxLag
         /\ \A w \in Triggers : \A i \in DOMAIN windows'[w] :
                windows'[w][i].age <= Window[w] + lag[t] + MaxLag
<1>1. RollInv /\ [Next]_vars => [Bounded]_vars
  <2> SUFFICES ASSUME RollInv, Next, NEW t \in Threads, pc[t] = "evaluate", pc'[t] = "idle",
                      restarts' = restarts
               PROVE  /\ \A i \in DOMAIN hits' : hits'[i].age <= GateWindow + lag[t] + MaxLag
                      /\ \A w \in Triggers : \A i \in DOMAIN windows'[w] :
                             windows'[w][i].age <= Window[w] + lag[t] + MaxLag
    BY DEF vars
  <2>1. TypeOK /\ GateWindow \in Nat /\ MaxLag \in Nat /\ (\A w \in Triggers : Window[w] \in Nat)
    BY RollbackAssumption DEF RollInv
  <2>2. Evaluate(t)
    <3>1. ASSUME NEW u \in Threads, u # t, pc' = [pc EXCEPT ![u] = "idle"] PROVE FALSE
      BY <2>1, <3>1 DEF TypeOK
    <3>2. ASSUME NEW u \in Threads, NEW s \in {"observe", "evaluate"}, ReadClock(u, s) PROVE FALSE
      BY <2>1, <3>2 DEF ReadClock, TypeOK
    <3>3. ASSUME NEW u \in Threads, NEW bad, Observe(u, bad) PROVE FALSE
      <4>1. pc[u] = "observe" /\ pc' = [pc EXCEPT ![u] = "idle"]
        BY <3>3 DEF Observe, Done
      <4> QED BY <3>1, <4>1
    <3>4. ASSUME NEW u \in Threads, Evaluate(u) PROVE u = t
      BY <3>1, <3>4 DEF Evaluate, Done
    <3>5. ~ObserveLoss /\ ~Acknowledge /\ ~Tick
      BY DEF ObserveLoss, Acknowledge, Tick
    <3>6. ~Restart
      BY <2>1 DEF Restart, TypeOK
    <3> QED BY <3>2, <3>3, <3>4, <3>5, <3>6 DEF Next
  <2>3. lag[t] \in Nat /\ hits \in Deque /\ \A w \in Triggers : windows[w] \in Deque
    BY <2>1 DEF TypeOK
  <2>4. \A i \in DOMAIN hits' : hits'[i].age <= GateWindow + lag[t] + MaxLag
    BY <2>1, <2>2, <2>3, EvictBounds DEF Evaluate, RollInv
  <2>5. \A w \in Triggers : windows'[w] = Evict(windows[w], Window[w], lag[t])
    BY <2>2 DEF Evaluate
  <2>6. \A w \in Triggers : \A i \in DOMAIN windows'[w] :
           windows'[w][i].age <= Window[w] + lag[t] + MaxLag
    BY <2>1, <2>3, <2>5, EvictBounds DEF RollInv
  <2> QED BY <2>4, <2>6
<1> QED BY <1>1, RollAlways, PTL DEF Spec, StaleEvidenceIsBounded

\* The dashboard's row follows the state unless the last write of it failed.
THEOREM DashboardFollows == Spec => []DashboardAgrees
<1>1. Init => DashboardAgrees
  BY DEF Init, DashboardAgrees
<1>2. DashboardAgrees /\ [Next]_vars => DashboardAgrees'
  <2> SUFFICES ASSUME DashboardAgrees, [Next]_vars PROVE DashboardAgrees'
    OBVIOUS
  <2>1. CASE UNCHANGED <<state, durable, missed>>
    BY <2>1 DEF DashboardAgrees
  <2>2. ASSUME NEW s, state' = s, Persist(s) PROVE DashboardAgrees'
    BY <2>2 DEF Persist, DashboardAgrees
  <2>3. ASSUME NEW t \in Threads, Evaluate(t) PROVE DashboardAgrees'
    BY <2>1, <2>2, <2>3 DEF Evaluate
  <2>4. CASE Acknowledge \/ Restart
    BY <2>2, <2>4 DEF Acknowledge, PersistAck, Restart
  <2> QED BY <2>1, <2>3, <2>4 DEF Next, vars, ReadClock, Observe, ObserveLoss, Tick
<1> QED BY <1>1, <1>2, PTL DEF Spec

------------------------------------------------------------------------------
\* Until something is recorded after a reset, there is nothing to trip on.
EvidenceInv ==
    /\ TripNeedsFreshEvidence
    /\ ~fresh => /\ loss = 0
                 /\ \A w \in Triggers : \A i \in DOMAIN windows[w] : ~windows[w][i].bad

\* A trip means fresh evidence, because evictions only remove samples and an
\* acknowledgement removes them all.
LEMMA EvidenceStep == RollInv /\ EvidenceInv /\ [Next]_vars => EvidenceInv'
<1> SUFFICES ASSUME RollInv, EvidenceInv, [Next]_vars PROVE EvidenceInv'
  OBVIOUS
<1>0. /\ TypeOK
      /\ (\A w \in Triggers : windows[w] \in Deque /\ NearlySorted(windows[w]) /\ Window[w] \in Nat)
      /\ TripNeedsFreshEvidence
  BY RollbackAssumption DEF RollInv, EvidenceInv, TypeOK
<1>1. ASSUME NEW t \in Threads, NEW bad \in SUBSET Triggers, Observe(t, bad) PROVE EvidenceInv'
  <2>1. /\ fresh' = (fresh \/ bad # {})
        /\ UNCHANGED <<state, loss>>
        /\ \A w \in Triggers : windows'[w] = Append(windows[w], [age |-> lag[t], bad |-> w \in bad])
    BY <1>1 DEF Observe
  <2>2. ASSUME ~fresh', NEW w \in Triggers, NEW i \in DOMAIN windows'[w]
        PROVE  ~windows'[w][i].bad
    <3>1. bad = {} /\ ~fresh
      BY <2>1, <2>2
    <3> DEFINE s == [age |-> lag[t], bad |-> w \in bad]
    <3>2. lag[t] \in 0 .. MaxLag /\ (w \in bad) \in BOOLEAN
      BY <1>0 DEF TypeOK
    <3>3. windows[w] \in Seq(Sample) /\ s \in Sample
      BY <1>0, <3>2, SampleTyped DEF Deque, Sample
    <3>4. ~s.bad
      <4>1. s.bad = (w \in bad)
        OBVIOUS
      <4> QED BY <3>1, <4>1
    <3>5. windows'[w] = Append(windows[w], s)
      BY <2>1
    <3> HIDE DEF s
    <3>6. i \in 1 .. Len(windows[w]) + 1
      BY <2>2, <3>3, <3>5, AppendProperties
    <3>7. CASE i \in 1 .. Len(windows[w])
      BY <3>1, <3>3, <3>7, <3>5, AppendProperties, LenProperties DEF EvidenceInv
    <3>8. CASE i = Len(windows[w]) + 1
      BY <3>3, <3>8, <3>4, <3>5, AppendProperties
    <3>9. Len(windows[w]) \in Nat
      BY <3>3
    <3> QED BY <3>6, <3>7, <3>8, <3>9
  <2> QED BY <1>0, <2>1, <2>2 DEF EvidenceInv, TripNeedsFreshEvidence, TypeOK
<1>2. ASSUME NEW t \in Threads, Evaluate(t) PROVE EvidenceInv'
  <2>1. lag[t] \in Nat
    BY <1>0 DEF TypeOK
  <2>2. \A w \in Triggers : \A i \in DOMAIN Evict(windows[w], Window[w], lag[t]) :
          \E j \in DOMAIN windows[w] : Evict(windows[w], Window[w], lag[t])[i] = windows[w][j]
    BY <1>0, <2>1, EvictKeepsSuffix, SuffixInherits
  <2> DEFINE kept == [w \in Triggers |-> Evict(windows[w], Window[w], lag[t])]
  <2>3. windows' = kept /\ UNCHANGED <<loss, fresh>>
    BY <1>2 DEF Evaluate
  <2>4. ~fresh => \A w \in Triggers : \A i \in DOMAIN kept[w] : ~kept[w][i].bad
    BY <2>2 DEF EvidenceInv
  <2>5. state' = "tripped" /\ state # "tripped" => Breach(kept)
    BY <1>2 DEF Evaluate, Trips
  <2>6. ~fresh => ~Breach(kept)
    BY <2>4 DEF Breach, EvidenceInv
  <2> HIDE DEF kept
  <2>7. state' = "tripped" => fresh
    BY <1>0, <2>5, <2>6 DEF TripNeedsFreshEvidence
  <2> QED BY <2>3, <2>4, <2>7 DEF EvidenceInv, TripNeedsFreshEvidence
<1>3. CASE Tick
  <2>1. \A w \in Triggers : windows'[w] = Aged(windows[w])
    BY <1>3 DEF Tick
  <2>2. UNCHANGED <<state, loss, fresh>>
    BY <1>3 DEF Tick
  <2>3. \A w \in Triggers : DOMAIN windows'[w] = DOMAIN windows[w]
                           /\ \A i \in DOMAIN windows[w] : windows'[w][i].bad = windows[w][i].bad
    BY <1>0, <2>1, AgedSorted
  <2> QED BY <2>2, <2>3 DEF EvidenceInv, TripNeedsFreshEvidence
<1>4. CASE Acknowledge \/ Restart
  <2>1. windows' = Cleared /\ loss' = 0 /\ state' = "running"
    BY <1>4 DEF Acknowledge, ResetTriggers, Restart
  <2>2. \A w \in Triggers : DOMAIN windows'[w] = {}
    BY <2>1 DEF Cleared
  <2> QED BY <2>1, <2>2 DEF EvidenceInv, TripNeedsFreshEvidence
<1>5. CASE ObserveLoss
  BY <1>5 DEF ObserveLoss, EvidenceInv, TripNeedsFreshEvidence
<1>6. ASSUME NEW t \in Threads, NEW s, ReadClock(t, s) PROVE EvidenceInv'
  BY <1>6 DEF ReadClock, EvidenceInv, TripNeedsFreshEvidence
<1>7. CASE UNCHANGED vars
  BY <1>7 DEF vars, EvidenceInv, TripNeedsFreshEvidence
<1> QED BY <1>1, <1>2, <1>3, <1>4, <1>5, <1>6, <1>7 DEF Next

\* A controller that tripped did so on evidence that no acknowledgement has seen.
THEOREM TripsAreOnFreshEvidence == Spec => []TripNeedsFreshEvidence
<1>1. Init => EvidenceInv
  BY DEF Init, Cleared, EvidenceInv, TripNeedsFreshEvidence
<1>2. EvidenceInv => TripNeedsFreshEvidence
  BY DEF EvidenceInv
<1> QED BY <1>1, <1>2, EvidenceStep, RollAlways, PTL DEF Spec

=============================================================================
