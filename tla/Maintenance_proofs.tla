------------------------- MODULE Maintenance_proofs --------------------------
(*****************************************************************************)
(* The offline queue, the migrations, backup and restore, the SQLite gate  *)
(* with its index builders, and the Aphelion packages, for any number of   *)
(* processes, rows, packages and faults: each safety invariant of the runs *)
(* follows from an inductive one.                                          *)
(*****************************************************************************)
EXTENDS WalQueue, Migrations, Backup, Gate, Packages, FiniteSetTheorems,
        WellFoundedInduction, TLAPS

------------------------------------------------------------------------------
(* ---------------------------- offline queue ----------------------------- *)

\* The members of S below m.
Below(S, m) == {k \in S : k < m}

\* A set of numbers has a least one: First(d) is a row of the batch.
LEMMA LeastElement ==
    ASSUME NEW S \in SUBSET Nat, S # {}
    PROVE  \E m \in S : \A k \in S : m <= k
<1> DEFINE T == {Below(S, m) : m \in S}
<1>0. \A m \in S : m \in Nat
  OBVIOUS
<1>1. \A m \in S : IsFiniteSet(Below(S, m))
  <2> SUFFICES ASSUME NEW m \in S PROVE IsFiniteSet(Below(S, m)) OBVIOUS
  <2>1. \A k \in Below(S, m) : k \in Nat /\ k <= m
    BY <1>0 DEF Below
  <2> QED BY <1>0, <2>1, FS_BoundedSetOfNaturals
<1>2. T \subseteq FiniteSubsetsOf(S)
  BY <1>1 DEF FiniteSubsetsOf, Below
<1>3. PICK x \in T : \A y \in T : ~(<<y, x>> \in StrictSubsetOrdering(S))
  <2>1. T # {} OBVIOUS
  <2> HIDE DEF T
  <2> QED BY <1>2, <2>1, FS_StrictSubsetOrderingWellFounded, WFMin
<1>4. PICK m \in S : x = Below(S, m)
  OBVIOUS
<1>5. ASSUME NEW k \in S, k < m PROVE FALSE
  <2>1. Below(S, k) \in T
    OBVIOUS
  <2>2. ASSUME NEW j \in Below(S, k) PROVE j \in Below(S, m)
    <3>1. j \in S /\ j < k /\ j \in Nat /\ k \in Nat /\ m \in Nat
      BY <1>0 DEF Below
    <3> QED BY <1>5, <3>1 DEF Below
  <2>3. k \in Below(S, m) /\ k \notin Below(S, k)
    BY <1>0, <1>5 DEF Below
  <2>4. Below(S, k) \subseteq S /\ Below(S, m) \subseteq S
    BY DEF Below
  <2> HIDE DEF T
  <2> QED BY <1>3, <1>4, <2>1, <2>2, <2>3, <2>4 DEF StrictSubsetOrdering
<1> QED BY <1>0, <1>5
------------------------------------------------------------------------------
\* What a drain may hold.
DrainRecs == [pc : {"idle", "sending", "answered"}, answer : {"none", "2xx", "4xx", "retry"},
              rows : UNION {[S -> Nat] : S \in SUBSET Seqs}]

\* The drains that will try to send row s.
Triers(s) == {d \in Drains : s \in Rest(d) /\ drn[d].rows[s] < MaxAttempts}

\* The types that are not in WalTypeOK because of its bound on the attempts.
TablesInv ==
    /\ lastSeq \in 0..MaxSeq
    /\ arrived \in [Seqs -> Nat]
    /\ fate \in [Seqs -> {"queued", "sent", "refused", "evicted"}]
    /\ disturbed \subseteq Seqs
    /\ Queued \subseteq 1..lastSeq

\* A drain holds rows that were enqueued, and one that waits to settle has sent
\* its first row.
DrainsInv ==
    /\ drn \in [Drains -> DrainRecs]
    /\ \A d \in Drains :
         /\ Rest(d) \subseteq 1..lastSeq
         /\ drn[d].pc = "idle" => Rest(d) = {}
         /\ drn[d].pc = "answered" =>
              /\ Rest(d) # {} /\ drn[d].rows[First(d)] < MaxAttempts
              /\ drn[d].answer # "none"
              /\ drn[d].answer = "2xx" => arrived[First(d)] > 0

\* A row's attempts leave room for those of every drain that will try it.
AttemptsInv ==
    \A s \in Queued : /\ queue[s] \in Nat
                      /\ queue[s] + Cardinality(Triers(s)) <= MaxAttempts + Cardinality(Drains)

\* A row is without a fate until it leaves the queue.
FateInv ==
    /\ \A s \in Seqs : s \in Queued \/ s > lastSeq => fate[s] = "queued"
    /\ NothingLostFromQueue

\* What holds of a row that nothing disturbed: one drain has it, and it arrived
\* at most once, just before that drain settles it for good.
Once(s) ==
    /\ \A d, e \in Drains : s \in Rest(d) /\ s \in Rest(e) => d = e
    /\ arrived[s] <= 1
    /\ arrived[s] = 1 =>
         \/ s \notin Queued /\ \A d \in Drains : s \notin Rest(d)
         \/ \E d \in Drains : drn[d].pc = "answered" /\ drn[d].answer = "2xx" /\ First(d) = s

OnceInv == \A s \in Seqs : /\ s \notin disturbed => Once(s)
                           /\ s > lastSeq => arrived[s] = 0

\* The inductive invariant.
WalInv == TablesInv /\ DrainsInv /\ AttemptsInv /\ FateInv /\ OnceInv

\* The inductive invariant is at least the one of the runs.
LEMMA WalInvImplies == WalInv => QueueSafety
<1> SUFFICES ASSUME WalInv PROVE QueueSafety OBVIOUS
<1>1. ASSUME NEW s \in Queued PROVE queue[s] \in 0..(MaxAttempts + Cardinality(Drains))
  <2>1. IsFiniteSet(Triers(s))
    BY WalAssumption, FS_Subset DEF Triers
  <2>2. Cardinality(Triers(s)) \in Nat /\ Cardinality(Drains) \in Nat
    BY <2>1, WalAssumption, FS_CardinalityType
  <2> QED BY <2>2, WalAssumption DEF WalInv, AttemptsInv
<1>2. \A d \in Drains : /\ drn[d].pc \in {"idle", "sending", "answered"}
                        /\ DOMAIN drn[d].rows \subseteq Seqs
  BY DEF WalInv, DrainsInv, DrainRecs
<1>3. WalTypeOK
  BY <1>1, <1>2 DEF WalInv, TablesInv, WalTypeOK
<1>4. NothingLostFromQueue
  BY DEF WalInv, FateInv
<1>5. DuplicatesAreExplained
  BY DEF WalInv, TablesInv, OnceInv, Once, DuplicatesAreExplained
<1> QED BY <1>3, <1>4, <1>5 DEF QueueSafety

\* Rows that were enqueued are rows.
LEMMA EnqueuedAreSeqs == ASSUME TablesInv, NEW s \in 1..lastSeq PROVE s \in Seqs /\ s <= lastSeq
<1>1. lastSeq \in Nat /\ MaxSeq \in Nat /\ lastSeq <= MaxSeq
  BY WalAssumption DEF TablesInv
<1> QED BY <1>1 DEF Seqs

\* First(d) is the least row of a drain that has rows.
LEMMA FirstIsRow ==
    ASSUME TablesInv, DrainsInv, NEW d \in Drains, Rest(d) # {}
    PROVE  First(d) \in Rest(d) /\ First(d) \in Seqs /\ First(d) <= lastSeq
<1>1. Rest(d) \subseteq Nat
  BY DEF DrainsInv, DrainRecs, Rest, Seqs
<1>2. \E s \in Rest(d) : \A t \in Rest(d) : s <= t
  BY <1>1, LeastElement
<1>3. First(d) \in Rest(d)
  BY <1>2 DEF First
<1> QED BY <1>3, EnqueuedAreSeqs DEF DrainsInv

\* The queue is empty at first, and nobody drains it.
LEMMA WalInitInv == WalInit => WalInv
<1> SUFFICES ASSUME WalInit PROVE WalInv OBVIOUS
<1>1. Queued = {} /\ \A d \in Drains : drn[d] = NoDrain /\ Rest(d) = {}
  <2>1. DOMAIN [s \in {} |-> 0] = {}
    OBVIOUS
  <2>2. Queued = {}
    BY <2>1 DEF WalInit, Queued
  <2>3. DOMAIN NoDrain.rows = {}
    BY <2>1 DEF NoDrain
  <2> QED BY <2>2, <2>3 DEF WalInit, Rest
<1>2. TablesInv
  BY <1>1, WalAssumption DEF TablesInv, WalInit
<1>3. NoDrain \in DrainRecs
  <2>1. [s \in {} |-> 0] \in [{} -> Nat]
    OBVIOUS
  <2>2. [s \in {} |-> 0] \in UNION {[S -> Nat] : S \in SUBSET Seqs}
    BY <2>1
  <2> QED BY <2>2 DEF DrainRecs, NoDrain
<1>4. DrainsInv
  BY <1>1, <1>3 DEF DrainsInv, WalInit, NoDrain
<1>5. AttemptsInv
  BY <1>1 DEF AttemptsInv
<1>6. FateInv
  BY <1>1 DEF FateInv, NothingLostFromQueue, WalInit
<1>7. OnceInv
  BY <1>1 DEF OnceInv, Once, WalInit
<1> QED BY <1>2, <1>4, <1>5, <1>6, <1>7 DEF WalInv
------------------------------------------------------------------------------
\* A row's bound is kept by steps after which no more drains will try it.
LEMMA LessToTry ==
    ASSUME AttemptsInv, Queued' \subseteq Queued, \A s \in Queued' : queue'[s] = queue[s],
           \A e \in Drains : /\ Rest(e)' \subseteq Rest(e)
                             /\ \A s \in Rest(e)' : drn'[e].rows[s] = drn[e].rows[s]
    PROVE  AttemptsInv'
<1> SUFFICES ASSUME NEW s \in Queued'
             PROVE  /\ queue'[s] \in Nat
                    /\ queue'[s] + Cardinality(Triers(s)') <= MaxAttempts + Cardinality(Drains)
  BY DEF AttemptsInv
<1>1. Triers(s)' \subseteq Triers(s)
  BY DEF Triers
<1>2. IsFiniteSet(Triers(s)) /\ IsFiniteSet(Triers(s)')
  BY WalAssumption, FS_Subset DEF Triers
<1>3. Cardinality(Triers(s)') <= Cardinality(Triers(s))
  BY <1>1, <1>2, FS_Subset
<1>4. Cardinality(Triers(s)) \in Nat /\ Cardinality(Triers(s)') \in Nat /\ Cardinality(Drains) \in Nat
  BY <1>2, WalAssumption, FS_CardinalityType
<1> QED BY <1>3, <1>4, WalAssumption DEF AttemptsInv

\* A drain is done with its first row.
LEMMA PassEffect ==
    ASSUME DrainsInv, NEW d \in Drains, Rest(d) # {}, drn' = [drn EXCEPT ![d] = Pass(d)]
    PROVE  /\ drn' \in [Drains -> DrainRecs]
           /\ drn'[d].pc = "sending" /\ Rest(d)' = Rest(d) \ {First(d)}
           /\ \A s \in Rest(d)' : drn'[d].rows[s] = drn[d].rows[s]
           /\ \A e \in Drains : e # d => drn'[e] = drn[e] /\ Rest(e)' = Rest(e) /\ First(e)' = First(e)
<1>1. drn \in [Drains -> DrainRecs]
  BY DEF DrainsInv
<1>2. drn'[d] = Pass(d) /\ \A e \in Drains : e # d => drn'[e] = drn[e]
  BY <1>1
<1>3. DOMAIN Pass(d).rows = Rest(d) \ {First(d)} /\ Pass(d).pc = "sending"
  BY DEF Pass
<1>4. \A s \in Rest(d) \ {First(d)} : Pass(d).rows[s] = drn[d].rows[s]
  BY DEF Pass
<1>5. Pass(d) \in DrainRecs
  <2>1. PICK S \in SUBSET Seqs : drn[d].rows \in [S -> Nat]
    BY <1>1 DEF DrainRecs
  <2>2. Rest(d) = S
    BY <2>1 DEF Rest
  <2>3. [s \in Rest(d) \ {First(d)} |-> drn[d].rows[s]] \in [Rest(d) \ {First(d)} -> Nat]
    BY <2>1, <2>2
  <2>4. [s \in Rest(d) \ {First(d)} |-> drn[d].rows[s]] \in UNION {[Z -> Nat] : Z \in SUBSET Seqs}
    BY <2>2, <2>3
  <2> QED BY <2>4 DEF Pass, DrainRecs
<1>6. drn' \in [Drains -> DrainRecs]
  BY <1>1, <1>5
<1>7. Rest(d)' = Rest(d) \ {First(d)}
  BY <1>2, <1>3 DEF Rest
<1>8. \A e \in Drains : e # d => Rest(e)' = Rest(e) /\ First(e)' = First(e)
  BY <1>2 DEF Rest, First
<1> QED BY <1>2, <1>3, <1>4, <1>6, <1>7, <1>8

\* A drain ends, or dies.
LEMMA EndEffect ==
    ASSUME DrainsInv, NEW d \in Drains, drn' = [drn EXCEPT ![d] = NoDrain]
    PROVE  /\ drn' \in [Drains -> DrainRecs]
           /\ drn'[d].pc = "idle" /\ Rest(d)' = {}
           /\ \A e \in Drains : e # d => drn'[e] = drn[e] /\ Rest(e)' = Rest(e) /\ First(e)' = First(e)
<1>1. drn \in [Drains -> DrainRecs]
  BY DEF DrainsInv
<1>2. drn'[d] = NoDrain /\ \A e \in Drains : e # d => drn'[e] = drn[e]
  BY <1>1
<1>3. DOMAIN NoDrain.rows = {} /\ NoDrain.pc = "idle" /\ NoDrain \in DrainRecs
  <2>1. [s \in {} |-> 0] \in [{} -> Nat] /\ DOMAIN [s \in {} |-> 0] = {}
    OBVIOUS
  <2>2. [s \in {} |-> 0] \in UNION {[S -> Nat] : S \in SUBSET Seqs}
    BY <2>1
  <2> QED BY <2>1, <2>2 DEF DrainRecs, NoDrain
<1>4. \A e \in Drains : e # d => Rest(e)' = Rest(e) /\ First(e)' = First(e)
  BY <1>2 DEF Rest, First
<1> QED BY <1>1, <1>2, <1>3, <1>4 DEF Rest

\* Enqueuing: a new row that no drain has.
LEMMA EnqueueKeeps == WalInv /\ Enqueue => WalInv'
<1> SUFFICES ASSUME WalInv, Enqueue PROVE WalInv' OBVIOUS
<1> USE DEF WalInv
<1>1. /\ lastSeq' = lastSeq + 1 /\ lastSeq' \in 1..MaxSeq
      /\ Queued' = Queued \union {lastSeq'} /\ lastSeq' \notin Queued
      /\ \A s \in Queued' : queue'[s] = IF s = lastSeq' THEN 0 ELSE queue[s]
  <2>1. lastSeq' = lastSeq + 1 /\ lastSeq' \in 1..MaxSeq /\ lastSeq' \notin Queued
    BY WalAssumption DEF Enqueue, TablesInv
  <2>2. queue' = [s \in Queued \union {lastSeq'} |-> IF s = lastSeq' THEN 0 ELSE queue[s]]
    BY DEF Enqueue
  <2>3. Queued' = Queued \union {lastSeq'}
    BY <2>2 DEF Queued
  <2> QED BY <2>1, <2>2, <2>3
<1>2. UNCHANGED <<drn, arrived, fate, disturbed>>
  BY DEF Enqueue
<1>3. \A e \in Drains : Rest(e)' = Rest(e) /\ First(e)' = First(e)
  BY <1>2 DEF Rest, First
<1>4. \A e \in Drains : lastSeq' \notin Rest(e)
  BY <1>1 DEF DrainsInv, TablesInv
<1>5. TablesInv'
  BY <1>1, <1>2 DEF TablesInv
<1>6. DrainsInv'
  BY <1>1, <1>2, <1>3 DEF DrainsInv, TablesInv
<1>7. AttemptsInv'
  <2> SUFFICES ASSUME NEW s \in Queued'
               PROVE  /\ queue'[s] \in Nat
                      /\ queue'[s] + Cardinality(Triers(s)') <= MaxAttempts + Cardinality(Drains)
    BY DEF AttemptsInv
  <2>1. Triers(s)' = Triers(s)
    BY <1>2, <1>3 DEF Triers
  <2>2. CASE s # lastSeq'
    BY <1>1, <2>1, <2>2 DEF AttemptsInv
  <2>3. CASE s = lastSeq'
    <3>1. Triers(s)' = {}
      BY <1>4, <2>1, <2>3 DEF Triers
    <3>2. Cardinality(Triers(s)') = 0 /\ Cardinality(Drains) \in Nat
      BY <3>1, FS_EmptySet, WalAssumption, FS_CardinalityType
    <3> QED BY <1>1, <2>3, <3>2, WalAssumption
  <2> QED BY <2>2, <2>3
<1>8. FateInv'
  <2>1. \A s \in Seqs : s \in Queued' \/ s > lastSeq' => s \in Queued \/ s > lastSeq
    BY <1>1 DEF TablesInv, Seqs
  <2>2. \A s \in 1..lastSeq' : s \in 1..lastSeq \/ s = lastSeq'
    BY <1>1 DEF TablesInv
  <2> QED BY <1>1, <1>2, <2>1, <2>2 DEF FateInv, NothingLostFromQueue
<1>9. OnceInv'
  <2> SUFFICES ASSUME NEW s \in Seqs
               PROVE  (s \notin disturbed => Once(s)') /\ (s > lastSeq' => arrived[s] = 0)
    BY <1>2 DEF OnceInv
  <2>1. s > lastSeq' => s > lastSeq
    BY <1>1 DEF TablesInv, Seqs
  <2>2. s = lastSeq' => arrived[s] = 0
    BY <1>1 DEF OnceInv, TablesInv
  <2>3. s # lastSeq' => (s \in Queued' <=> s \in Queued)
    BY <1>1
  <2> QED BY <1>2, <1>3, <2>1, <2>2, <2>3 DEF OnceInv, Once
<1> QED BY <1>5, <1>6, <1>7, <1>8, <1>9

\* A drain that passes its first row keeps what is known of the drains.
LEMMA PassKeepsDrains ==
    ASSUME DrainsInv, NEW d \in Drains, Rest(d) # {}, drn' = [drn EXCEPT ![d] = Pass(d)],
           UNCHANGED <<lastSeq, arrived>>
    PROVE  DrainsInv'
<1>1. /\ drn' \in [Drains -> DrainRecs] /\ drn'[d].pc = "sending" /\ Rest(d)' \subseteq Rest(d)
      /\ \A e \in Drains : e # d => drn'[e] = drn[e] /\ Rest(e)' = Rest(e) /\ First(e)' = First(e)
  BY PassEffect
<1> DEFINE Kept(e) == /\ Rest(e) \subseteq 1..lastSeq
                      /\ drn[e].pc = "idle" => Rest(e) = {}
                      /\ drn[e].pc = "answered" =>
                           /\ Rest(e) # {} /\ drn[e].rows[First(e)] < MaxAttempts
                           /\ drn[e].answer # "none"
                           /\ drn[e].answer = "2xx" => arrived[First(e)] > 0
<1>2. \A e \in Drains : Kept(e)
  BY DEF DrainsInv
<1>3. Kept(d)'
  <2>1. Rest(d)' \subseteq 1..lastSeq'
    BY <1>1, <1>2
  <2> QED BY <1>1, <2>1
<1>4. ASSUME NEW e \in Drains \ {d} PROVE Kept(e)'
  <2>1. drn'[e] = drn[e] /\ Rest(e)' = Rest(e) /\ First(e)' = First(e)
    BY <1>1
  <2> QED BY <1>2, <2>1
<1>5. \A e \in Drains : Kept(e)'
  BY <1>3, <1>4
<1> QED BY <1>1, <1>5 DEF DrainsInv

\* A row that nothing disturbed stays so while its drain goes on elsewhere: no
\* drain takes it, the server does not see it, and who has settled it has.
LEMMA OnceKept ==
    ASSUME NEW s \in Seqs, Once(s), arrived'[s] = arrived[s], Queued' \subseteq Queued,
           \A e \in Drains : s \in Rest(e)' => s \in Rest(e),
           arrived[s] = 1 => \A e \in Drains :
             drn[e].pc = "answered" /\ drn[e].answer = "2xx" /\ First(e) = s =>
               drn'[e] = drn[e] /\ First(e)' = First(e)
    PROVE  Once(s)'
<1>1. \A d, e \in Drains : s \in Rest(d)' /\ s \in Rest(e)' => d = e
  BY DEF Once
<1>2. ASSUME arrived'[s] = 1
      PROVE  \/ s \notin Queued' /\ \A d \in Drains : s \notin Rest(d)'
             \/ \E d \in Drains : drn'[d].pc = "answered" /\ drn'[d].answer = "2xx" /\ First(d)' = s
  BY <1>2 DEF Once
<1> QED BY <1>1, <1>2 DEF Once

\* A drain skips a dead row.
LEMMA SkipKeeps == ASSUME WalInv, NEW d \in Drains, Skip(d) PROVE WalInv'
<1> USE DEF WalInv
<1>1. /\ UNCHANGED <<queue, lastSeq, arrived, fate, disturbed>>
      /\ Rest(d) # {} /\ drn[d].pc = "sending" /\ drn' = [drn EXCEPT ![d] = Pass(d)]
  BY DEF Skip
<1>2. Queued' = Queued
  BY <1>1 DEF Queued
<1>3. TablesInv' /\ FateInv'
  BY <1>1, <1>2 DEF TablesInv, FateInv, NothingLostFromQueue
<1>4. DrainsInv'
  BY <1>1, PassKeepsDrains
<1>5. AttemptsInv'
  BY <1>1, <1>2, PassEffect, LessToTry
<1>6. ASSUME NEW s \in Seqs, s \notin disturbed PROVE Once(s)'
  BY <1>1, <1>2, <1>6, PassEffect, OnceKept DEF OnceInv
<1> QED BY <1>1, <1>3, <1>4, <1>5, <1>6 DEF OnceInv

\* A drain ends.
LEMMA EndKeeps == ASSUME WalInv, NEW d \in Drains, EndDrain(d) PROVE WalInv'
<1> USE DEF WalInv
<1>1. /\ UNCHANGED <<queue, lastSeq, arrived, fate, disturbed>>
      /\ drn[d].pc = "sending" /\ drn' = [drn EXCEPT ![d] = NoDrain]
  BY DEF EndDrain
<1>2. Queued' = Queued
  BY <1>1 DEF Queued
<1>3. TablesInv' /\ FateInv'
  BY <1>1, <1>2 DEF TablesInv, FateInv, NothingLostFromQueue
<1>4. DrainsInv'
  BY <1>1, EndEffect DEF DrainsInv
<1>5. AttemptsInv'
  BY <1>1, <1>2, EndEffect, LessToTry
<1>6. ASSUME NEW s \in Seqs, s \notin disturbed PROVE Once(s)'
  BY <1>1, <1>2, <1>6, EndEffect, OnceKept DEF OnceInv
<1> QED BY <1>1, <1>3, <1>4, <1>5, <1>6 DEF OnceInv

\* A drain dies: the row it had sent is disturbed.
LEMMA KillKeeps == ASSUME WalInv, NEW d \in Drains, KillDrain(d) PROVE WalInv'
<1> USE DEF WalInv
<1>1. /\ UNCHANGED <<queue, lastSeq, arrived, fate>> /\ drn' = [drn EXCEPT ![d] = NoDrain]
      /\ disturbed \subseteq disturbed' /\ disturbed' \subseteq disturbed \union {First(d)}
      /\ drn[d].pc = "answered" => First(d) \in disturbed'
      /\ drn[d].pc # "answered" => disturbed' = disturbed
  BY DEF KillDrain
<1>2. Queued' = Queued
  BY <1>1 DEF Queued
<1>3. disturbed' \subseteq Seqs
  <2>1. CASE drn[d].pc = "answered"
    <3>1. First(d) \in Seqs
      BY <2>1, FirstIsRow DEF DrainsInv
    <3> QED BY <1>1, <3>1 DEF TablesInv
  <2>2. CASE drn[d].pc # "answered"
    BY <1>1, <2>2 DEF TablesInv
  <2> QED BY <2>1, <2>2
<1>4. TablesInv' /\ FateInv'
  BY <1>1, <1>2, <1>3 DEF TablesInv, FateInv, NothingLostFromQueue
<1>5. DrainsInv'
  BY <1>1, EndEffect DEF DrainsInv
<1>6. AttemptsInv'
  BY <1>1, <1>2, EndEffect, LessToTry
<1>7. ASSUME NEW s \in Seqs, s \notin disturbed' PROVE Once(s)'
  <2>1. s \notin disturbed /\ ~(drn[d].pc = "answered" /\ First(d) = s)
    BY <1>1, <1>7
  <2> QED BY <1>1, <1>2, <2>1, EndEffect, OnceKept DEF OnceInv
<1> QED BY <1>1, <1>4, <1>5, <1>6, <1>7 DEF OnceInv

\* A row is sent: if nothing disturbed it, it has not arrived before.
LEMMA PostKeeps == ASSUME WalInv, NEW d \in Drains, Post(d) PROVE WalInv'
<1> USE DEF WalInv
<1> DEFINE f == First(d)
<1>0. Rest(d) # {} /\ drn[d].pc = "sending" /\ drn[d].rows[f] < MaxAttempts
  BY DEF Post
<1>1. UNCHANGED <<queue, lastSeq, fate>>
  BY DEF Post
<1>2. f \in Rest(d) /\ f \in Seqs /\ f <= lastSeq
  BY <1>0, FirstIsRow
<1>3. PICK answer \in {"2xx", "4xx", "retry"}, acted \in BOOLEAN :
          /\ answer = "2xx" => acted
          /\ answer = "4xx" => ~acted
          /\ arrived' = [arrived EXCEPT ![f] = @ + (IF acted THEN 1 ELSE 0)]
          /\ disturbed' = IF answer = "retry" /\ acted THEN disturbed \union {f} ELSE disturbed
          /\ drn' = [drn EXCEPT ![d].pc = "answered", ![d].answer = answer]
  BY DEF Post
<1>4. /\ drn' \in [Drains -> DrainRecs]
      /\ drn'[d].pc = "answered" /\ drn'[d].answer = answer /\ drn'[d].rows = drn[d].rows
      /\ \A e \in Drains : e # d => drn'[e] = drn[e]
  <2>1. drn \in [Drains -> DrainRecs]
    BY DEF DrainsInv
  <2> QED BY <1>3, <2>1 DEF DrainRecs
<1>5. \A e \in Drains : Rest(e)' = Rest(e) /\ First(e)' = First(e) /\ drn'[e].rows = drn[e].rows
  BY <1>4 DEF Rest, First
<1>6. Queued' = Queued
  BY <1>1 DEF Queued
<1>7. /\ arrived' \in [Seqs -> Nat] /\ arrived'[f] = arrived[f] + (IF acted THEN 1 ELSE 0)
      /\ \A s \in Seqs : s # f => arrived'[s] = arrived[s]
  BY <1>2, <1>3 DEF TablesInv
<1>8. \A s \in Seqs : arrived[s] > 0 => arrived'[s] > 0
  BY <1>2, <1>7 DEF TablesInv
<1>9. TablesInv'
  BY <1>1, <1>2, <1>3, <1>6, <1>7 DEF TablesInv
<1>10. FateInv'
  <2>1. \A s \in 1..lastSeq : s \in Seqs
    BY EnqueuedAreSeqs
  <2> QED BY <1>1, <1>6, <1>8, <2>1 DEF FateInv, NothingLostFromQueue
<1>11. DrainsInv'
  <2> SUFFICES ASSUME NEW e \in Drains
               PROVE  /\ Rest(e) \subseteq 1..lastSeq
                      /\ drn'[e].pc = "idle" => Rest(e) = {}
                      /\ drn'[e].pc = "answered" =>
                           /\ Rest(e) # {} /\ drn[e].rows[First(e)] < MaxAttempts
                           /\ drn'[e].answer # "none"
                           /\ drn'[e].answer = "2xx" => arrived'[First(e)] > 0
    BY <1>1, <1>4, <1>5 DEF DrainsInv
  <2>1. CASE e = d
    <3>1. answer = "2xx" => arrived'[f] > 0
      BY <1>2, <1>3, <1>7 DEF TablesInv
    <3> QED BY <1>0, <1>4, <2>1, <3>1 DEF DrainsInv
  <2>2. CASE e # d
    <3>1. Rest(e) # {} => First(e) \in Seqs
      BY FirstIsRow
    <3> QED BY <1>4, <1>8, <2>2, <3>1 DEF DrainsInv
  <2> QED BY <2>1, <2>2
<1>12. AttemptsInv'
  BY <1>1, <1>5, <1>6, LessToTry
<1>13. ASSUME NEW s \in Seqs, s \notin disturbed' PROVE Once(s)'
  <2>1. s \notin disturbed /\ Once(s)
    BY <1>3, <1>13 DEF OnceInv
  <2>2. CASE s # f \/ ~acted
    <3>1. arrived'[s] = arrived[s]
      BY <1>2, <1>7, <2>2 DEF TablesInv
    <3>2. \A e \in Drains : drn[e].pc = "answered" => drn'[e] = drn[e]
      BY <1>0, <1>4
    <3> QED BY <1>5, <1>6, <2>1, <3>1, <3>2, OnceKept
  <2>3. CASE s = f /\ acted
    <3>1. answer = "2xx"
      BY <1>3, <1>13, <2>3
    <3>2. arrived[s] = 0
      <4>1. arrived[s] \in Nat /\ arrived[s] <= 1
        BY <2>1 DEF Once, TablesInv
      <4>2. ASSUME NEW e \in Drains, drn[e].pc = "answered", First(e) = s PROVE FALSE
        <5>1. First(e) \in Rest(e)
          BY <4>2, FirstIsRow DEF DrainsInv
        <5> QED BY <1>0, <1>2, <2>1, <2>3, <4>2, <5>1 DEF Once
      <4>3. arrived[s] # 1
        BY <1>2, <2>1, <2>3, <4>2 DEF Once
      <4> QED BY <4>1, <4>3
    <3>3. arrived'[s] = 1
      BY <1>7, <2>3, <3>2
    <3>4. \A a, e \in Drains : s \in Rest(a)' /\ s \in Rest(e)' => a = e
      BY <1>5, <2>1 DEF Once
    <3> QED BY <1>4, <1>5, <2>3, <3>1, <3>3, <3>4 DEF Once
  <2> QED BY <2>2, <2>3
<1>14. OnceInv'
  <2>1. ASSUME NEW s \in Seqs, s > lastSeq PROVE arrived'[s] = 0
    <3>1. s # f
      BY <1>2, <2>1 DEF TablesInv, Seqs
    <3> QED BY <1>7, <2>1, <3>1 DEF OnceInv
  <2> QED BY <1>1, <1>13, <2>1 DEF OnceInv
<1> QED BY <1>9, <1>10, <1>11, <1>12, <1>14
\* A row is settled: if it leaves the queue, it has been sent or refused.
LEMMA SettleKeeps == ASSUME WalInv, NEW d \in Drains, Settle(d) PROVE WalInv'
<1> USE DEF WalInv
<1> DEFINE f == First(d)
           answer == drn[d].answer
<1>0. /\ drn[d].pc = "answered" /\ Rest(d) # {} /\ drn[d].rows[f] < MaxAttempts
      /\ answer # "none" /\ (answer = "2xx" => arrived[f] > 0)
  BY DEF Settle, DrainsInv
<1>1. f \in Rest(d) /\ f \in Seqs /\ f <= lastSeq
  BY <1>0, FirstIsRow
<1>2. UNCHANGED <<lastSeq, arrived, disturbed>> /\ drn' = [drn EXCEPT ![d] = Pass(d)]
  BY DEF Settle
<1>3. /\ Queued' = IF answer # "retry" THEN Queued \ {f} ELSE Queued
      /\ \A s \in Queued' : queue'[s] = queue[s] + (IF answer = "retry" /\ s = f THEN 1 ELSE 0)
  <2>1. CASE answer # "retry"
    <3>1. queue' = [s \in Queued \ {f} |-> queue[s]]
      BY <2>1 DEF Settle, Without
    <3>2. Queued' = Queued \ {f}
      BY <3>1 DEF Queued
    <3>3. \A s \in Queued : queue[s] \in Nat
      BY DEF AttemptsInv
    <3> QED BY <2>1, <3>1, <3>2, <3>3
  <2>2. CASE answer = "retry"
    <3>1. queue' = [s \in Queued |-> queue[s] + (IF s = f THEN 1 ELSE 0)]
      BY <2>2 DEF Settle
    <3>2. Queued' = Queued
      BY <3>1 DEF Queued
    <3> QED BY <2>2, <3>1, <3>2
  <2> QED BY <2>1, <2>2
<1>4. fate' = IF f \in Queued /\ answer # "retry"
                THEN [fate EXCEPT ![f] = IF answer = "2xx" THEN "sent" ELSE "refused"]
                ELSE fate
  BY DEF Settle
<1>5. /\ fate' \in [Seqs -> {"queued", "sent", "refused", "evicted"}]
      /\ \A s \in Seqs : s # f => fate'[s] = fate[s]
  BY <1>1, <1>4 DEF TablesInv
<1>6. TablesInv'
  BY <1>2, <1>3, <1>5 DEF TablesInv
<1>7. DrainsInv'
  BY <1>0, <1>2, PassKeepsDrains
<1>8. FateInv'
  <2>1. \A s \in Seqs : s \in Queued' \/ s > lastSeq => fate'[s] = "queued"
    <3> SUFFICES ASSUME NEW s \in Seqs, s \in Queued' \/ s > lastSeq PROVE fate'[s] = "queued"
      OBVIOUS
    <3>1. fate[s] = "queued"
      BY <1>3 DEF FateInv
    <3>2. s # f \/ answer = "retry"
      BY <1>1, <1>3 DEF TablesInv, Seqs
    <3> QED BY <1>4, <1>5, <3>1, <3>2
  <2>2. ASSUME NEW s \in 1..lastSeq
        PROVE  \/ s \in Queued'
               \/ fate'[s] = "sent" /\ arrived[s] > 0
               \/ fate'[s] \in {"refused", "evicted"}
    <3>1. s \in Seqs
      BY EnqueuedAreSeqs
    <3>2. CASE s # f \/ answer = "retry" \/ f \notin Queued
      <4>1. fate'[s] = fate[s] /\ (s \in Queued => s \in Queued')
        BY <1>3, <1>4, <1>5, <3>1, <3>2
      <4> QED BY <4>1 DEF FateInv, NothingLostFromQueue
    <3>3. CASE s = f /\ answer # "retry" /\ f \in Queued
      <4>1. fate'[s] = IF answer = "2xx" THEN "sent" ELSE "refused"
        BY <1>1, <1>4, <3>3 DEF TablesInv
      <4> QED BY <1>0, <3>3, <4>1
    <3> QED BY <3>2, <3>3
  <2> QED BY <1>2, <2>1, <2>2 DEF FateInv, NothingLostFromQueue
<1>9. AttemptsInv'
  <2>1. CASE answer # "retry"
    <3>1. Queued' \subseteq Queued /\ \A s \in Queued' : queue'[s] = queue[s]
      BY <1>3, <2>1 DEF AttemptsInv
    <3> QED BY <1>0, <1>2, <3>1, PassEffect, LessToTry
  <2>2. CASE answer = "retry"
    <3> SUFFICES ASSUME NEW s \in Queued'
                 PROVE  /\ queue'[s] \in Nat
                        /\ queue'[s] + Cardinality(Triers(s)') <= MaxAttempts + Cardinality(Drains)
      BY DEF AttemptsInv
    <3>1. /\ s \in Queued /\ queue[s] \in Nat
          /\ queue[s] + Cardinality(Triers(s)) <= MaxAttempts + Cardinality(Drains)
      BY <1>3, <2>2 DEF AttemptsInv
    <3>2. IsFiniteSet(Triers(s)) /\ Cardinality(Triers(s)) \in Nat /\ Cardinality(Drains) \in Nat
      BY WalAssumption, FS_Subset, FS_CardinalityType DEF Triers
    <3>3. CASE s = f
      <4>1. Triers(s)' = Triers(s) \ {d} /\ d \in Triers(s)
        BY <1>0, <1>1, <1>2, <3>3, PassEffect DEF Triers
      <4>2. Cardinality(Triers(s)') = Cardinality(Triers(s)) - 1
        BY <3>2, <4>1, FS_RemoveElement
      <4>3. queue'[s] = queue[s] + 1
        BY <1>3, <2>2, <3>3
      <4> QED BY <3>1, <3>2, <4>2, <4>3, WalAssumption
    <3>4. CASE s # f
      <4>1. \A e \in Drains : (s \in Rest(e)' <=> s \in Rest(e))
                             /\ (s \in Rest(e) => drn'[e].rows[s] = drn[e].rows[s])
        <5>1. /\ Rest(d)' = Rest(d) \ {f} /\ \A t \in Rest(d)' : drn'[d].rows[t] = drn[d].rows[t]
              /\ \A e \in Drains : e # d => drn'[e] = drn[e] /\ Rest(e)' = Rest(e)
          BY <1>0, <1>2, PassEffect
        <5> HIDE DEF f
        <5> QED BY <3>4, <5>1
      <4>2. Triers(s)' = Triers(s)
        BY <4>1 DEF Triers
      <4>3. queue'[s] = queue[s]
        BY <1>3, <3>1, <3>4
      <4> QED BY <3>1, <4>2, <4>3
    <3> QED BY <3>3, <3>4
  <2> QED BY <2>1, <2>2
<1>10. ASSUME NEW s \in Seqs, s \notin disturbed PROVE Once(s)'
  <2>1. Once(s)
    BY <1>10 DEF OnceInv
  <2>2. Queued' \subseteq Queued
    BY <1>3
  <2>3. CASE s = f /\ answer = "2xx"
    <3>1. s \notin Queued'
      BY <1>3, <2>3
    <3>2. \A e \in Drains : s \notin Rest(e)'
      <4>1. \A e \in Drains : e # d => s \notin Rest(e)
        BY <1>1, <2>1, <2>3 DEF Once
      <4> QED BY <1>0, <1>2, <2>3, <4>1, PassEffect
    <3> QED BY <1>2, <2>1, <3>1, <3>2 DEF Once
  <2>4. CASE ~(s = f /\ answer = "2xx")
    <3>1. \A e \in Drains :
            drn[e].pc = "answered" /\ drn[e].answer = "2xx" /\ First(e) = s =>
              drn'[e] = drn[e] /\ First(e)' = First(e)
      BY <1>0, <1>2, <2>4, PassEffect
    <3>2. \A e \in Drains : s \in Rest(e)' => s \in Rest(e)
      BY <1>0, <1>2, PassEffect
    <3> QED BY <1>2, <2>1, <2>2, <3>1, <3>2, OnceKept
  <2> QED BY <2>3, <2>4
<1>11. OnceInv'
  BY <1>2, <1>10 DEF OnceInv
<1> QED BY <1>6, <1>7, <1>8, <1>9, <1>11

\* A drain begins: it evicts dead rows, and what it reads while another drain
\* runs is disturbed.
LEMMA StartKeeps ==
    ASSUME WalInv, NEW d \in Drains, NEW expired \in SUBSET Queued, StartDrain(d, expired)
    PROVE  WalInv'
<1> USE DEF WalInv
<1> DEFINE left == Queued \ expired
           taken == Batch(left)
<1>1. UNCHANGED <<lastSeq, arrived>> /\ drn[d].pc = "idle" /\ Rest(d) = {}
  BY DEF StartDrain, DrainsInv
<1>2. queue' = [s \in left |-> queue[s]]
  BY DEF StartDrain
<1>3. Queued' = left /\ \A s \in Queued' : queue'[s] = queue[s]
  BY <1>2 DEF Queued
<1>4. drn' = [drn EXCEPT ![d] = [pc |-> "sending", answer |-> "none",
                                 rows |-> [s \in taken |-> queue[s]]]]
  BY DEF StartDrain
<1>5. disturbed' = disturbed \union (IF \E e \in Drains : drn[e].pc # "idle" THEN taken ELSE {})
  BY DEF StartDrain
<1>6. /\ fate' \in [Seqs -> {"queued", "sent", "refused", "evicted"}]
      /\ \A s \in Seqs : fate'[s] = IF s \in expired /\ fate[s] = "queued" THEN "evicted" ELSE fate[s]
  BY DEF StartDrain, TablesInv
<1>7. taken \subseteq Queued /\ Queued \subseteq 1..lastSeq /\ Queued \subseteq Seqs
  BY EnqueuedAreSeqs DEF Batch, TablesInv
<1>8. \A s \in taken : queue[s] \in Nat
  BY <1>7 DEF AttemptsInv
<1>9. [s \in taken |-> queue[s]] \in UNION {[S -> Nat] : S \in SUBSET Seqs}
  <2> HIDE DEF taken
  <2>1. [s \in taken |-> queue[s]] \in [taken -> Nat] /\ taken \in SUBSET Seqs
    BY <1>7, <1>8
  <2> QED BY <2>1
<1>10. /\ drn' \in [Drains -> DrainRecs]
       /\ drn'[d].pc = "sending" /\ Rest(d)' = taken /\ \A s \in taken : drn'[d].rows[s] = queue[s]
       /\ \A e \in Drains : e # d => drn'[e] = drn[e] /\ Rest(e)' = Rest(e) /\ First(e)' = First(e)
  <2> HIDE DEF taken
  <2>1. drn \in [Drains -> DrainRecs]
    BY DEF DrainsInv
  <2>2. drn' \in [Drains -> DrainRecs]
    BY <1>4, <1>9, <2>1 DEF DrainRecs
  <2>3. /\ drn'[d] = [pc |-> "sending", answer |-> "none", rows |-> [s \in taken |-> queue[s]]]
        /\ \A e \in Drains : e # d => drn'[e] = drn[e]
    BY <1>4, <2>1
  <2>4. drn'[d].pc = "sending" /\ drn'[d].rows = [s \in taken |-> queue[s]]
    BY <2>3
  <2>5. Rest(d)' = taken
    BY <2>4 DEF Rest
  <2>6. \A e \in Drains : e # d => Rest(e)' = Rest(e) /\ First(e)' = First(e)
    BY <2>3 DEF Rest, First
  <2> QED BY <2>2, <2>3, <2>4, <2>5, <2>6
<1> HIDE DEF taken
<1>11. TablesInv'
  BY <1>1, <1>3, <1>5, <1>6, <1>7 DEF TablesInv
<1>12. DrainsInv'
  BY <1>1, <1>7, <1>10 DEF DrainsInv
<1>13. FateInv'
  <2>1. \A s \in Seqs : s \in Queued' \/ s > lastSeq => fate'[s] = "queued"
    <3>1. \A s \in Queued : s <= lastSeq
      BY <1>7, EnqueuedAreSeqs
    <3>2. \A s \in Seqs : s > lastSeq => ~(s <= lastSeq)
      BY DEF TablesInv, Seqs
    <3> QED BY <1>3, <1>6, <3>1, <3>2 DEF FateInv
  <2>2. ASSUME NEW s \in 1..lastSeq
        PROVE  \/ s \in Queued'
               \/ fate'[s] = "sent" /\ arrived[s] > 0
               \/ fate'[s] \in {"refused", "evicted"}
    <3>1. s \in Seqs
      BY EnqueuedAreSeqs
    <3> QED BY <1>3, <1>6, <3>1 DEF FateInv, NothingLostFromQueue
  <2> QED BY <1>1, <2>1, <2>2 DEF FateInv, NothingLostFromQueue
<1>14. AttemptsInv'
  <2> SUFFICES ASSUME NEW s \in Queued'
               PROVE  /\ queue[s] \in Nat
                      /\ queue[s] + Cardinality(Triers(s)') <= MaxAttempts + Cardinality(Drains)
    BY <1>3 DEF AttemptsInv
  <2>1. /\ s \in Queued /\ queue[s] \in Nat
        /\ queue[s] + Cardinality(Triers(s)) <= MaxAttempts + Cardinality(Drains)
    BY <1>3 DEF AttemptsInv
  <2>2. /\ Triers(s)' \subseteq Drains /\ Cardinality(Triers(s)') <= Cardinality(Drains)
        /\ Cardinality(Triers(s)') \in Nat /\ Cardinality(Drains) \in Nat
    BY WalAssumption, FS_Subset, FS_CardinalityType DEF Triers
  <2>3. CASE s \in taken /\ queue[s] < MaxAttempts
    BY <2>1, <2>2, <2>3, WalAssumption
  <2>4. CASE ~(s \in taken /\ queue[s] < MaxAttempts)
    <3>1. Triers(s)' = Triers(s)
      BY <1>1, <1>10, <2>4 DEF Triers
    <3> QED BY <2>1, <3>1
  <2> QED BY <2>3, <2>4
<1>15. ASSUME NEW s \in Seqs, s \notin disturbed' PROVE Once(s)'
  <2>1. Once(s)
    BY <1>5, <1>15 DEF OnceInv
  <2>2. Queued' \subseteq Queued
    BY <1>3
  <2>3. CASE s \notin taken
    <3>1. \A e \in Drains : s \in Rest(e)' => s \in Rest(e)
      BY <1>10, <2>3
    <3>2. \A e \in Drains : drn[e].pc = "answered" => drn'[e] = drn[e] /\ First(e)' = First(e)
      BY <1>1, <1>10
    <3> QED BY <1>1, <2>1, <2>2, <3>1, <3>2, OnceKept
  <2>4. CASE s \in taken
    <3>1. \A e \in Drains : drn[e].pc = "idle"
      BY <1>5, <1>15, <2>4
    <3>2. \A e \in Drains : e # d => s \notin Rest(e)'
      BY <1>10, <3>1 DEF DrainsInv
    <3>3. arrived[s] # 1
      BY <1>7, <2>1, <2>4, <3>1 DEF Once
    <3> QED BY <1>1, <2>1, <3>2, <3>3 DEF Once
  <2> QED BY <2>3, <2>4
<1>16. OnceInv'
  BY <1>1, <1>15 DEF OnceInv
<1> QED BY <1>11, <1>12, <1>13, <1>14, <1>16

\* The invariant is inductive.
LEMMA WalStep == WalInv /\ [WalNext]_walVars => WalInv'
<1> SUFFICES ASSUME WalInv, [WalNext]_walVars PROVE WalInv' OBVIOUS
<1>1. CASE Enqueue
  BY <1>1, EnqueueKeeps
<1>2. ASSUME NEW d \in Drains, DrainGoesOn(d) PROVE WalInv'
  BY <1>2, SkipKeeps, PostKeeps, SettleKeeps, EndKeeps DEF DrainGoesOn
<1>3. ASSUME NEW d \in Drains, KillDrain(d) PROVE WalInv'
  BY <1>3, KillKeeps
<1>4. ASSUME NEW d \in Drains, NEW expired \in SUBSET Queued, StartDrain(d, expired) PROVE WalInv'
  BY <1>4, StartKeeps
<1>5. CASE UNCHANGED walVars
  <2>1. UNCHANGED <<queue, lastSeq, drn, arrived, fate, disturbed>>
    BY <1>5 DEF walVars
  <2>2. Queued' = Queued
    BY <2>1 DEF Queued
  <2>3. \A d \in Drains : Rest(d)' = Rest(d) /\ First(d)' = First(d)
    BY <2>1 DEF Rest, First
  <2>4. \A s : Triers(s)' = Triers(s)
    BY <2>1, <2>3 DEF Triers
  <2>5. TablesInv' /\ FateInv'
    BY <2>1, <2>2 DEF WalInv, TablesInv, FateInv, NothingLostFromQueue
  <2>6. DrainsInv'
    BY <2>1, <2>3 DEF WalInv, DrainsInv
  <2>7. AttemptsInv'
    BY <2>1, <2>2, <2>4 DEF WalInv, AttemptsInv
  <2>8. OnceInv'
    BY <2>1, <2>2, <2>3 DEF WalInv, OnceInv, Once
  <2> QED BY <2>5, <2>6, <2>7, <2>8 DEF WalInv
<1> QED BY <1>1, <1>2, <1>3, <1>4, <1>5 DEF WalNext

\* An event leaves the offline queue only when the server acted on it, refused
\* it, or five attempts failed (drain, whatever dies and whoever drains at the
\* same time), and one the server acted on twice was hit by a crash, a lost
\* answer or a second drain.
THEOREM QueueIsSafe == WalSpec => []QueueSafety
<1> QED BY WalInitInv, WalStep, WalInvImplies, PTL DEF WalSpec

------------------------------------------------------------------------------
(* ------------------------------ migrations ------------------------------ *)

------------------------------------------------------------------------------
\* The table of the migrations, for the provers.
LEMMA VersionsAre == Versions = 1..14
<1>1. DOMAIN MIGRATIONS = 1..14
  BY DEF MIGRATIONS
<1> QED BY <1>1 DEF Versions

\* What each migration brings, read off MIGRATIONS.
LEMMA AddsAre ==
    /\ MIGRATIONS[1].adds = {"events", "claims"} /\ MIGRATIONS[2].adds = {"appendOnly"}
    /\ MIGRATIONS[3].adds = {"metadata"} /\ MIGRATIONS[4].adds = {"userTimeIndex"}
    /\ MIGRATIONS[5].adds = {"metadataFk"} /\ MIGRATIONS[6].adds = {"sessionId"}
    /\ MIGRATIONS[7].adds = {"hashWithUser"} /\ MIGRATIONS[8].adds = {"appendOnly"}
    /\ MIGRATIONS[9].adds = {"apiTokens"} /\ MIGRATIONS[10].adds = {"memoryCards"}
    /\ MIGRATIONS[11].adds = {"crosswalk"} /\ MIGRATIONS[12].adds = {"aphelionDocId"}
    /\ MIGRATIONS[13].adds = {"correlationIndex"} /\ MIGRATIONS[14].adds = {"fts"}
BY DEF MIGRATIONS, Migration, M1, M2, M3, M4, M5, M6, M7, M8, M9, M10, M11, M12, M13, M14

\* Only the last migration brings the full-text triggers.
LEMMA AddsOfVersion ==
    ASSUME NEW v \in Versions
    PROVE  /\ "fts" \in MIGRATIONS[v].adds <=> v = 14
           /\ v \in Nat
<1>1. v \in 1..14 BY VersionsAre
<1>2. \/ v = 1 \/ v = 2 \/ v = 3 \/ v = 4 \/ v = 5 \/ v = 6 \/ v = 7 \/ v = 8
      \/ v = 9 \/ v = 10 \/ v = 11 \/ v = 12 \/ v = 13 \/ v = 14
  BY <1>1
<1> QED BY <1>2, AddsAre

\* What down() takes away and puts back.
LEMMA DownsAre ==
    /\ DownDrops(1) = {"events", "claims", "appendOnly", "userTimeIndex", "sessionId",
                       "hashWithUser", "correlationIndex"}
    /\ DownDrops(2) = {"appendOnly"} /\ DownDrops(3) = {"metadata", "metadataFk"}
    /\ DownDrops(4) = {"userTimeIndex"} /\ DownDrops(5) = {"metadataFk"}
    /\ DownDrops(6) = {"sessionId", "appendOnly"} /\ DownDrops(7) = {"hashWithUser"}
    /\ DownDrops(8) = {} /\ DownDrops(9) = {"apiTokens"} /\ DownDrops(10) = {"memoryCards"}
    /\ DownDrops(11) = {"crosswalk", "aphelionDocId"} /\ DownDrops(12) = {"aphelionDocId"}
    /\ DownDrops(13) = {"correlationIndex"} /\ DownDrops(14) = {"fts"}
    /\ DownAdds(6) = {"appendOnly"} /\ \A v \in Versions : v # 6 => DownAdds(v) = {}
BY AddsAre DEF DownDrops, DownAdds

AddsOf(ledger) == UNION {MIGRATIONS[v].adds : v \in ledger}

MigRecs == [ledger : SUBSET Versions, schema : SUBSET Parts,
            events : SUBSET EventIds, fts : SUBSET EventIds]
CmdRecs == [pc : {"idle", "planned", "begun", "changed"}, todo : SUBSET Versions, up : BOOLEAN]

\* A database as whole migrations leave it.
Sound(d) ==
    /\ d.schema = AddsOf(d.ledger)
    /\ \A v \in d.ledger : 1..v \subseteq d.ledger
    /\ d.fts = IF "fts" \in d.schema THEN d.events ELSE {}

\* The schema of the versions up to v, less what down() of v takes, is that of the
\* versions below v: version 8 has no inverse, version 6 rebuilds a table.
LEMMA DownIsInverse ==
    ASSUME NEW v \in Versions
    PROVE  (AddsOf(1..v) \ DownDrops(v)) \union DownAdds(v) = AddsOf(1..(v - 1))
<1>1. v \in 1..14 BY VersionsAre
<1>2. \/ v = 1 \/ v = 2 \/ v = 3 \/ v = 4 \/ v = 5 \/ v = 6 \/ v = 7 \/ v = 8
      \/ v = 9 \/ v = 10 \/ v = 11 \/ v = 12 \/ v = 13 \/ v = 14
  BY <1>1
<1>3. \A n \in 1..14 : 1..n = 1..(n - 1) \union {n}
  OBVIOUS
<1>4. \A n \in 1..14 : AddsOf(1..n) = AddsOf(1..(n - 1)) \union MIGRATIONS[n].adds
  BY <1>3 DEF AddsOf
<1>5. AddsOf(1..0) = {}
  BY DEF AddsOf
<1>6. /\ AddsOf(1..1) = {"events", "claims"}
      /\ AddsOf(1..2) = {"events", "claims", "appendOnly"}
      /\ AddsOf(1..3) = {"events", "claims", "appendOnly", "metadata"}
  BY <1>4, <1>5, AddsAre
<1>7. /\ AddsOf(1..4) = AddsOf(1..3) \union {"userTimeIndex"}
      /\ AddsOf(1..5) = AddsOf(1..4) \union {"metadataFk"}
      /\ AddsOf(1..6) = AddsOf(1..5) \union {"sessionId"}
  BY <1>4, AddsAre
<1>8. /\ AddsOf(1..7) = AddsOf(1..6) \union {"hashWithUser"}
      /\ AddsOf(1..8) = AddsOf(1..7) \union {"appendOnly"}
      /\ AddsOf(1..9) = AddsOf(1..8) \union {"apiTokens"}
      /\ AddsOf(1..10) = AddsOf(1..9) \union {"memoryCards"}
  BY <1>4, AddsAre
<1>9. /\ AddsOf(1..11) = AddsOf(1..10) \union {"crosswalk"}
      /\ AddsOf(1..12) = AddsOf(1..11) \union {"aphelionDocId"}
      /\ AddsOf(1..13) = AddsOf(1..12) \union {"correlationIndex"}
      /\ AddsOf(1..14) = AddsOf(1..13) \union {"fts"}
  BY <1>4, AddsAre
<1>10. CASE v = 1 BY <1>5, <1>6, <1>10, AddsAre, DownsAre, VersionsAre
<1>11. CASE v = 2 BY <1>5, <1>6, <1>11, AddsAre, DownsAre, VersionsAre
<1>12. CASE v = 3 BY <1>5, <1>6, <1>12, AddsAre, DownsAre, VersionsAre
<1>13. CASE v = 4 BY <1>5, <1>6, <1>7, <1>13, AddsAre, DownsAre, VersionsAre
<1>14. CASE v = 5 BY <1>5, <1>6, <1>7, <1>14, AddsAre, DownsAre, VersionsAre
<1>15. CASE v = 6 BY <1>5, <1>6, <1>7, <1>15, AddsAre, DownsAre, VersionsAre
<1>16. CASE v = 7 BY <1>5, <1>6, <1>7, <1>8, <1>16, AddsAre, DownsAre, VersionsAre
<1>17. CASE v = 8 BY <1>5, <1>6, <1>7, <1>8, <1>17, AddsAre, DownsAre, VersionsAre
<1>18. CASE v = 9 BY <1>5, <1>6, <1>7, <1>8, <1>18, AddsAre, DownsAre, VersionsAre
<1>19. CASE v = 10 BY <1>5, <1>6, <1>7, <1>8, <1>19, AddsAre, DownsAre, VersionsAre
<1>20. CASE v = 11 BY <1>5, <1>6, <1>7, <1>8, <1>9, <1>20, AddsAre, DownsAre, VersionsAre
<1>21. CASE v = 12 BY <1>5, <1>6, <1>7, <1>8, <1>9, <1>21, AddsAre, DownsAre, VersionsAre
<1>22. CASE v = 13 BY <1>5, <1>6, <1>7, <1>8, <1>9, <1>22, AddsAre, DownsAre, VersionsAre
<1>23. CASE v = 14 BY <1>5, <1>6, <1>7, <1>8, <1>9, <1>23, AddsAre, DownsAre, VersionsAre
<1> QED BY <1>2, <1>10, <1>11, <1>12, <1>13, <1>14, <1>15, <1>16, <1>17, <1>18, <1>19, <1>20, <1>21, <1>22, <1>23

\* up() of the next version.
LEMMA UpKeepsSound ==
    ASSUME NEW d \in MigRecs, Sound(d), NEW v \in Versions, v \notin d.ledger,
           1..(v - 1) \subseteq d.ledger
    PROVE  Sound(Up(v, d))
<1>1. /\ Up(v, d).ledger = d.ledger \union {v}
      /\ Up(v, d).schema = d.schema \union MIGRATIONS[v].adds
      /\ Up(v, d).events = d.events
      /\ Up(v, d).fts = IF v = 14 /\ d.fts = {} THEN d.events ELSE d.fts
  BY DEF Up, MigRecs
<1>2. Up(v, d).schema = AddsOf(Up(v, d).ledger)
  BY <1>1 DEF Sound, AddsOf
<1>3. \A w \in Up(v, d).ledger : 1..w \subseteq Up(v, d).ledger
  <2>1. v \in Nat BY AddsOfVersion
  <2>2. 1..v \subseteq 1..(v - 1) \union {v} BY <2>1
  <2> QED BY <1>1, <2>2 DEF Sound
<1>4. v = 14 => "fts" \notin d.schema
  <2> SUFFICES ASSUME v = 14, "fts" \in d.schema PROVE FALSE OBVIOUS
  <2>1. PICK w \in d.ledger : "fts" \in MIGRATIONS[w].adds
    BY DEF Sound, AddsOf
  <2> QED BY <2>1, AddsOfVersion DEF MigRecs
<1>5. Up(v, d).fts = IF "fts" \in Up(v, d).schema THEN Up(v, d).events ELSE {}
  BY <1>1, <1>4, AddsOfVersion DEF Sound
<1> QED BY <1>2, <1>3, <1>5 DEF Sound

\* down() of the newest version.
LEMMA DownKeepsSound ==
    ASSUME NEW d \in MigRecs, Sound(d), NEW v \in d.ledger, \A w \in d.ledger : w <= v
    PROVE  Sound(Down(v, d))
<1>0. v \in Versions /\ v \in 1..14 /\ d.ledger \subseteq 1..14
  BY VersionsAre DEF MigRecs
<1>1. d.ledger = 1..v
  <2>1. 1..v \subseteq d.ledger BY DEF Sound
  <2>2. d.ledger \subseteq 1..v BY <1>0
  <2> QED BY <2>1, <2>2
<1>2. /\ Down(v, d).ledger = d.ledger \ {v}
      /\ Down(v, d).schema = (d.schema \ DownDrops(v)) \union DownAdds(v)
      /\ Down(v, d).events = IF v = 1 THEN {} ELSE d.events
      /\ Down(v, d).fts = IF v = 14 THEN {} ELSE d.fts
  BY DEF Down, MigRecs
<1>3. Down(v, d).ledger = 1..(v - 1)
  BY <1>0, <1>1, <1>2
<1>4. Down(v, d).schema = AddsOf(1..(v - 1))
  BY <1>0, <1>1, <1>2, DownIsInverse DEF Sound
<1>5. "fts" \notin AddsOf(1..(v - 1))
  <2> SUFFICES ASSUME "fts" \in AddsOf(1..(v - 1)) PROVE FALSE OBVIOUS
  <2>1. PICK w \in 1..(v - 1) : "fts" \in MIGRATIONS[w].adds
    BY DEF AddsOf
  <2>2. w \in Versions /\ w # 14
    BY <1>0, VersionsAre
  <2> QED BY <2>1, <2>2, AddsOfVersion
<1>6. Down(v, d).fts = {}
  <2>1. CASE v = 14 BY <1>2, <2>1
  <2>2. CASE v # 14
    <3>1. "fts" \notin d.schema
      <4> SUFFICES ASSUME "fts" \in AddsOf(1..v) PROVE FALSE BY <1>1 DEF Sound
      <4>1. PICK w \in 1..v : "fts" \in MIGRATIONS[w].adds
        BY DEF AddsOf
      <4> QED BY <1>0, <2>2, <4>1, AddsOfVersion, VersionsAre
    <3> QED BY <1>2, <2>2, <3>1 DEF Sound
  <2> QED BY <2>1, <2>2
<1>7. \A w \in 1..(v - 1) : 1..w \subseteq 1..(v - 1)
  BY <1>0
<1> QED BY <1>3, <1>4, <1>5, <1>6, <1>7 DEF Sound
------------------------------------------------------------------------------
Working(p) == cmd[p].pc \in {"begun", "changed"}

\* The types; one command at a time is in a transaction, and has a version to run.
MigTypes ==
    /\ db \in MigRecs /\ txn \in MigRecs
    /\ cmd \in [Commands -> CmdRecs]
    /\ crossed \in BOOLEAN
    /\ \A p \in Commands : Working(p) => cmd[p].todo # {}
    /\ \A p, q \in Commands : Working(p) /\ Working(q) => p = q

\* The open transaction is the file, with or without the one version of its command.
TxnInv ==
    /\ \A p \in Commands : cmd[p].pc = "changed" =>
         /\ cmd[p].up => CanUp(Step(p), db) /\ txn = Up(Step(p), db)
         /\ ~cmd[p].up => txn = Down(Step(p), db)
    /\ (\A p \in Commands : cmd[p].pc # "changed") => txn = db

\* Nothing overlaps a downgrade; of an upgrade's plan only what is applied is missing;
\* of a downgrade's plan only what is no longer applied, from the newest on.
PlanInv ==
    /\ \A p, q \in Commands : cmd[p].pc # "idle" /\ cmd[q].pc # "idle" /\ p # q => cmd[p].up
    /\ \A p \in Commands : cmd[p].pc # "idle" /\ cmd[p].up => Versions \ cmd[p].todo \subseteq db.ledger
    /\ \A p \in Commands : cmd[p].pc # "idle" /\ ~cmd[p].up =>
         /\ cmd[p].todo \subseteq db.ledger
         /\ \A t \in cmd[p].todo, w \in db.ledger : w > t => w \in cmd[p].todo

MigInv == MigTypes /\ TxnInv /\ (crossed \/ (PlanInv /\ Sound(db)))

\* An upgrade runs its versions from the oldest, a downgrade from the newest.
LEMMA StepIsNext ==
    ASSUME NEW p \in Commands, cmd[p].todo \in SUBSET Versions, cmd[p].todo # {}
    PROVE  /\ Step(p) \in cmd[p].todo
           /\ \A w \in cmd[p].todo : IF cmd[p].up THEN Step(p) <= w ELSE Step(p) >= w
<1> DEFINE T == cmd[p].todo
           Reversed == {15 - w : w \in T}
           Is(v) == \A w \in T : IF cmd[p].up THEN v <= w ELSE v >= w
<1>0. T \in SUBSET Nat /\ Reversed \in SUBSET Nat /\ Reversed # {}
  BY VersionsAre
<1>1. PICK m \in T : \A k \in T : m <= k
  <2> HIDE DEF T
  <2> QED BY <1>0, LeastElement DEF T
<1>2. PICK n \in Reversed : \A k \in Reversed : n <= k
  <2> HIDE DEF Reversed
  <2> QED BY <1>0, LeastElement
<1>3. 15 - n \in T /\ \A k \in T : 15 - n >= k
  <2>1. PICK w \in T : n = 15 - w
    BY <1>2
  <2>2. \A k \in T : k \in 1..14 /\ 15 - k \in Reversed
    BY VersionsAre
  <2> HIDE DEF T, Reversed
  <2>3. \A k \in T : 15 - w <= 15 - k /\ k \in 1..14 /\ w \in 1..14
    BY <1>2, <2>1, <2>2
  <2> QED BY <2>1, <2>3
<1>4. \E v \in T : Is(v)
  BY <1>1, <1>3
<1> QED BY <1>4 DEF Step

\* A database with an empty ledger has an empty schema.
LEMMA MigInitInv == MigInit => MigInv
<1> SUFFICES ASSUME MigInit PROVE MigInv OBVIOUS
<1>1. MigTypes /\ TxnInv /\ PlanInv
  BY DEF MigInit, MigTypes, MigRecs, CmdRecs, Idle, Working, TxnInv, PlanInv
<1>2. Sound(db)
  BY DEF MigInit, Sound, AddsOf
<1> QED BY <1>1, <1>2 DEF MigInv

\* What up() and down() make of a database is one.
LEMMA UpDownTypes ==
    ASSUME NEW d \in MigRecs, NEW v \in Versions
    PROVE  Up(v, d) \in MigRecs /\ Down(v, d) \in MigRecs
<1>1. MIGRATIONS[v].adds \subseteq Parts
  BY DEF Parts
<1>2. DownAdds(v) \subseteq Parts
  <2>1. 2 \in Versions /\ MIGRATIONS[2].adds = {"appendOnly"}
    BY VersionsAre, AddsAre
  <2> QED BY <2>1 DEF DownAdds, Parts
<1>3. Up(v, d) \in MigRecs
  BY <1>1 DEF Up, MigRecs
<1>4. Down(v, d) \in MigRecs
  BY <1>2 DEF Down, MigRecs
<1> QED BY <1>3, <1>4

\* A plan is made from the ledger as it is.
LEMMA PlanKeepsInv ==
    ASSUME MigInv, NEW p \in Commands, NEW todo \in SUBSET Versions, NEW up \in BOOLEAN,
           Plan(p, todo, up),
           up => todo = Versions \ db.ledger,
           ~up => \E target \in Nat : todo = {v \in db.ledger : v > target}
    PROVE  MigInv'
<1> USE DEF MigInv, Plan
<1>1. /\ cmd'[p] = [pc |-> "planned", todo |-> todo, up |-> up]
      /\ \A q \in Commands \ {p} : cmd'[q] = cmd[q]
      /\ cmd[p].pc = "idle"
  BY DEF MigTypes
<1>2. MigTypes'
  BY <1>1 DEF MigTypes, CmdRecs, Working
<1>3. \A q \in Commands : q # p => Step(q)' = Step(q)
  BY <1>1 DEF Step
<1>4. TxnInv'
  <2>1. ASSUME NEW q \in Commands, cmd'[q].pc = "changed"
        PROVE  q # p /\ cmd[q].pc = "changed" /\ cmd'[q] = cmd[q] /\ Step(q)' = Step(q)
    BY <1>1, <1>3, <2>1
  <2>2. db' = db /\ txn' = txn
    OBVIOUS
  <2>3. \A q \in Commands : cmd'[q].pc = "changed" =>
         /\ cmd'[q].up => CanUp(Step(q)', db') /\ txn' = Up(Step(q)', db')
         /\ ~cmd'[q].up => txn' = Down(Step(q)', db')
    BY <2>1, <2>2 DEF TxnInv
  <2>4. (\A q \in Commands : cmd'[q].pc # "changed") => txn' = db'
    BY <1>1, <2>2 DEF TxnInv
  <2> QED BY <2>3, <2>4 DEF TxnInv
<1>5. ASSUME ~crossed' PROVE PlanInv' /\ Sound(db)'
  <2>1. ~crossed /\ PlanInv /\ Sound(db)
    BY <1>5 DEF MigTypes
  <2>2. \A q \in Commands : cmd[q].pc # "idle" => cmd[q].up /\ up
    BY <1>5
  <2>3. \A q, r \in Commands : cmd'[q].pc # "idle" /\ cmd'[r].pc # "idle" /\ q # r => cmd'[q].up
    BY <1>1, <2>1, <2>2 DEF PlanInv
  <2>4. \A q \in Commands : cmd'[q].pc # "idle" /\ cmd'[q].up => Versions \ cmd'[q].todo \subseteq db'.ledger
    BY <1>1, <2>1 DEF PlanInv, MigTypes, MigRecs
  <2>5. \A q \in Commands : cmd'[q].pc # "idle" /\ ~cmd'[q].up =>
           /\ cmd'[q].todo \subseteq db'.ledger
           /\ \A t \in cmd'[q].todo, w \in db'.ledger : w > t => w \in cmd'[q].todo
    <3> SUFFICES ASSUME NEW q \in Commands, cmd'[q].pc # "idle", ~cmd'[q].up
                 PROVE  /\ cmd'[q].todo \subseteq db.ledger
                        /\ \A t \in cmd'[q].todo, w \in db.ledger : w > t => w \in cmd'[q].todo
      OBVIOUS
    <3>1. CASE q = p
      <4>1. PICK target \in Nat : todo = {v \in db.ledger : v > target}
        BY <1>1, <3>1
      <4>2. db.ledger \subseteq Nat
        BY VersionsAre DEF MigTypes, MigRecs
      <4> QED BY <1>1, <3>1, <4>1, <4>2
    <3>2. CASE q # p
      BY <1>1, <2>1, <3>2 DEF PlanInv
    <3> QED BY <3>1, <3>2
  <2> QED BY <2>1, <2>3, <2>4, <2>5 DEF PlanInv
<1> QED BY <1>2, <1>4, <1>5 DEF MigTypes

\* The application appends an event, or deletes one where the triggers are missing.
LEMMA EventsKeepSound ==
    ASSUME NEW d \in MigRecs, Sound(d), NEW e \in EventIds
    PROVE  /\ Sound([d EXCEPT !.events = @ \union {e},
                            !.fts = IF "fts" \in d.schema THEN @ \union {e} ELSE @])
           /\ "appendOnly" \notin d.schema => Sound([d EXCEPT !.events = @ \ {e}])
<1>1. Sound([d EXCEPT !.events = @ \union {e},
                      !.fts = IF "fts" \in d.schema THEN @ \union {e} ELSE @])
  BY DEF Sound, MigRecs
<1>2. ASSUME "appendOnly" \notin d.schema PROVE "fts" \notin d.schema
  <2> SUFFICES ASSUME "fts" \in d.schema PROVE FALSE OBVIOUS
  <2>1. PICK w \in d.ledger : "fts" \in MIGRATIONS[w].adds
    BY DEF Sound, AddsOf
  <2>2. 14 \in d.ledger
    BY <2>1, AddsOfVersion DEF MigRecs
  <2>3. 2 \in d.ledger
    BY <2>2 DEF Sound
  <2> QED BY <1>2, <2>3, AddsAre DEF Sound, AddsOf
<1>3. "appendOnly" \notin d.schema => Sound([d EXCEPT !.events = @ \ {e}])
  BY <1>2 DEF Sound, MigRecs
<1> QED BY <1>1, <1>3

\* The append-only triggers let an event in and none out.
LEMMA AppendKeepsInv ==
    ASSUME MigInv, NEW e \in EventIds, AppendEvent(e) \/ DeleteEvent(e) PROVE MigInv'
<1> USE DEF MigInv
<1> DEFINE with == [db EXCEPT !.events = @ \union {e},
                               !.fts = IF "fts" \in db.schema THEN @ \union {e} ELSE @]
           without == [db EXCEPT !.events = @ \ {e}]
<1>1. /\ db' = with \/ ("appendOnly" \notin db.schema /\ db' = without)
      /\ txn' = db' /\ UNCHANGED <<cmd, crossed>>
      /\ \A p \in Commands : cmd[p].pc \in {"idle", "planned"}
  BY DEF AppendEvent, DeleteEvent, LockFree
<1>2. /\ with \in MigRecs /\ with.ledger = db.ledger
      /\ without \in MigRecs /\ without.ledger = db.ledger
  BY DEF MigTypes, MigRecs
<1>3. ~crossed => Sound(with) /\ ("appendOnly" \notin db.schema => Sound(without))
  BY EventsKeepSound DEF MigTypes
<1> HIDE DEF with, without
<1>4. db' \in MigRecs /\ db'.ledger = db.ledger
  BY <1>1, <1>2
<1>5. MigTypes' /\ TxnInv'
  BY <1>1, <1>4 DEF MigTypes, Working, TxnInv
<1>6. ~crossed => PlanInv'
  BY <1>1, <1>4 DEF PlanInv
<1>7. ~crossed => Sound(db')
  BY <1>1, <1>3
<1> QED BY <1>1, <1>5, <1>6, <1>7

\* A command that takes the lock, or is over.
LEMMA LockKeepsInv ==
    ASSUME MigInv, NEW p \in Commands, Begin(p) \/ Abort(p) \/ Finish(p) PROVE MigInv'
<1> USE DEF MigInv
<1>0. cmd[p].pc # "idle" /\ db' = db /\ crossed' = crossed
  BY DEF Begin, Abort, Finish
<1>1. \A q \in Commands \ {p} : cmd'[q] = cmd[q]
  BY DEF Begin, Abort, Finish, MigTypes
<1>2. CASE Begin(p)
  <2>1. /\ cmd'[p] = [cmd[p] EXCEPT !.pc = "begun"] /\ cmd[p].pc = "planned" /\ cmd[p].todo # {}
        /\ \A q \in Commands : cmd[q].pc \in {"idle", "planned"}
        /\ txn' = txn
    BY <1>2 DEF Begin, LockFree, MigTypes
  <2>2. cmd[p] \in CmdRecs
    BY DEF MigTypes
  <2>3. cmd'[p].pc = "begun" /\ cmd'[p].todo = cmd[p].todo /\ cmd'[p].up = cmd[p].up
    BY <2>1, <2>2 DEF CmdRecs
  <2>4. cmd' \in [Commands -> CmdRecs]
    BY <1>2, <2>2 DEF Begin, MigTypes, CmdRecs
  <2>5. MigTypes'
    <3>1. \A q \in Commands : Working(q)' => q = p
      BY <1>1, <2>1 DEF Working
    <3>2. cmd'[p].todo # {}
      BY <2>1, <2>3
    <3>3. db' \in MigRecs /\ txn' \in MigRecs /\ crossed' \in BOOLEAN
      BY <1>0, <2>1 DEF MigTypes
    <3> QED BY <2>4, <3>1, <3>2, <3>3 DEF MigTypes
  <2>6. TxnInv'
    BY <1>0, <1>1, <2>1, <2>3 DEF TxnInv
  <2>7. ASSUME ~crossed PROVE PlanInv'
    <3>1. /\ PlanInv
          /\ \A q \in Commands :
               /\ cmd'[q].todo = cmd[q].todo /\ cmd'[q].up = cmd[q].up
               /\ cmd'[q].pc # "idle" => cmd[q].pc # "idle"
      BY <1>0, <1>1, <2>3, <2>7
    <3> HIDE DEF MigInv
    <3>2. \A q, r \in Commands : cmd'[q].pc # "idle" /\ cmd'[r].pc # "idle" /\ q # r => cmd'[q].up
      BY <3>1 DEF PlanInv
    <3>3. \A q \in Commands : cmd'[q].pc # "idle" /\ cmd'[q].up => Versions \ cmd'[q].todo \subseteq db.ledger
      BY <3>1 DEF PlanInv
    <3>4. ASSUME NEW q \in Commands, cmd'[q].pc # "idle", ~cmd'[q].up
          PROVE  /\ cmd'[q].todo \subseteq db.ledger
                 /\ \A t \in cmd'[q].todo, w \in db.ledger : w > t => w \in cmd'[q].todo
      BY <3>1, <3>4 DEF PlanInv
    <3> QED BY <1>0, <3>2, <3>3, <3>4 DEF PlanInv
  <2> QED BY <1>0, <2>5, <2>6, <2>7
<1>3. CASE Abort(p) \/ Finish(p)
  <2>1. cmd' = [cmd EXCEPT ![p] = Idle] /\ cmd'[p] = Idle
    BY <1>3 DEF Abort, Finish, MigTypes
  <2>2. txn' = IF Working(p) THEN db ELSE txn
    BY <1>3 DEF Abort, Finish, Working
  <2>3. MigTypes'
    BY <1>0, <1>1, <2>1, <2>2 DEF MigTypes, Working, Idle, CmdRecs
  <2>4. TxnInv'
    <3>1. CASE Working(p)
      <4>1. \A q \in Commands : cmd'[q].pc # "changed"
        BY <1>1, <2>1, <3>1 DEF MigTypes, Working, Idle
      <4> QED BY <1>0, <2>2, <3>1, <4>1 DEF TxnInv
    <3>2. CASE ~Working(p)
      <4>1. ASSUME NEW q \in Commands, cmd'[q].pc = "changed"
            PROVE  q # p /\ cmd'[q] = cmd[q] /\ Step(q)' = Step(q)
        BY <1>1, <2>1, <4>1 DEF Idle, Step
      <4>2. txn' = txn
        BY <2>2, <3>2
      <4>3. \A q \in Commands : cmd'[q].pc = "changed" =>
               /\ cmd'[q].up => CanUp(Step(q)', db') /\ txn' = Up(Step(q)', db')
               /\ ~cmd'[q].up => txn' = Down(Step(q)', db')
        BY <1>0, <4>1, <4>2 DEF TxnInv
      <4>4. (\A q \in Commands : cmd'[q].pc # "changed") => txn' = db'
        BY <1>0, <1>1, <3>2, <4>2 DEF TxnInv, Working
      <4> QED BY <4>3, <4>4 DEF TxnInv
    <3> QED BY <3>1, <3>2
  <2>5. ~crossed => PlanInv'
    BY <1>0, <1>1, <2>1 DEF PlanInv, Idle
  <2> QED BY <1>0, <2>3, <2>4, <2>5
<1> QED BY <1>2, <1>3

\* up() or down() changes the schema inside the transaction.
LEMMA SchemaChangeKeepsInv ==
    ASSUME MigInv, NEW p \in Commands, Change(p) PROVE MigInv'
<1> USE DEF MigInv
<1>1. /\ cmd[p].pc = "begun" /\ cmd' = [cmd EXCEPT ![p].pc = "changed"]
      /\ cmd[p].up => CanUp(Step(p), db) /\ txn' = Up(Step(p), db)
      /\ ~cmd[p].up => txn' = Down(Step(p), db)
      /\ db' = db /\ crossed' = crossed
  BY DEF Change
<1>2. cmd[p] \in CmdRecs /\ cmd[p].todo # {}
  BY <1>1 DEF MigTypes, Working
<1>3. /\ \A q \in Commands \ {p} : cmd'[q] = cmd[q] /\ cmd[q].pc \in {"idle", "planned"}
      /\ cmd'[p].pc = "changed" /\ cmd'[p].todo = cmd[p].todo /\ cmd'[p].up = cmd[p].up
      /\ cmd' \in [Commands -> CmdRecs]
  BY <1>1, <1>2 DEF MigTypes, Working, CmdRecs
<1>4. Step(p) \in Versions
  BY <1>2, StepIsNext DEF CmdRecs
<1>5. txn' \in MigRecs
  BY <1>1, <1>4, UpDownTypes DEF MigTypes
<1>6. MigTypes'
  BY <1>1, <1>2, <1>3, <1>5 DEF MigTypes, Working
<1>7. Step(p)' = Step(p)
  BY <1>3 DEF Step
<1>8. TxnInv'
  <2>1. \A q \in Commands : cmd'[q].pc = "changed" => q = p
    BY <1>3
  <2>2. /\ cmd'[p].up => CanUp(Step(p)', db') /\ txn' = Up(Step(p)', db')
        /\ ~cmd'[p].up => txn' = Down(Step(p)', db')
    BY <1>1, <1>3, <1>7
  <2> QED BY <1>3, <2>1, <2>2 DEF TxnInv
<1>9. ~crossed => PlanInv'
  <2>1. \A q \in Commands : /\ cmd'[q].todo = cmd[q].todo /\ cmd'[q].up = cmd[q].up
                           /\ cmd'[q].pc = "idle" <=> cmd[q].pc = "idle"
    BY <1>1, <1>3
  <2> QED BY <1>1, <2>1 DEF PlanInv
<1> QED BY <1>1, <1>6, <1>8, <1>9

\* The ledger row and the schema change are committed together.
LEMMA CommitKeepsInv ==
    ASSUME MigInv, NEW p \in Commands, CommitVersion(p) PROVE MigInv'
<1> USE DEF MigInv
<1> DEFINE v == Step(p)
<1>1. /\ cmd[p].pc = "changed" /\ db' = txn /\ txn' = txn /\ crossed' = crossed
      /\ cmd' = [cmd EXCEPT ![p].pc = "planned", ![p].todo = @ \ {v}]
  BY DEF CommitVersion
<1>2. cmd[p] \in CmdRecs /\ cmd[p].todo # {} /\ cmd[p].todo \in SUBSET Versions
  BY <1>1 DEF MigTypes, Working, CmdRecs
<1>3. /\ \A q \in Commands \ {p} : cmd'[q] = cmd[q] /\ cmd[q].pc \in {"idle", "planned"}
      /\ cmd'[p].pc = "planned" /\ cmd'[p].todo = cmd[p].todo \ {v} /\ cmd'[p].up = cmd[p].up
      /\ cmd' \in [Commands -> CmdRecs]
  BY <1>1, <1>2 DEF MigTypes, Working, CmdRecs
<1>4. /\ v \in cmd[p].todo /\ v \in Versions
      /\ \A w \in cmd[p].todo : IF cmd[p].up THEN v <= w ELSE v >= w
  BY <1>2, StepIsNext
<1>5. MigTypes'
  BY <1>1, <1>3 DEF MigTypes, Working
<1>6. TxnInv'
  BY <1>1, <1>3 DEF TxnInv
<1>7. /\ cmd[p].up => v \notin db.ledger /\ db' = Up(v, db)
      /\ ~cmd[p].up => db' = Down(v, db)
  BY <1>1 DEF TxnInv, CanUp
<1>8. ASSUME ~crossed PROVE PlanInv' /\ Sound(db')
  <2>0. PlanInv /\ Sound(db) /\ db \in MigRecs /\ db.ledger \subseteq Versions
    BY <1>8 DEF MigTypes, MigRecs
  <2> HIDE DEF v
  <2>1. CASE cmd[p].up
    <3>1. db' = Up(v, db) /\ v \notin db.ledger /\ db'.ledger = db.ledger \union {v}
      BY <1>7, <2>0, <2>1 DEF Up, MigRecs
    <3>2. 1..(v - 1) \subseteq db.ledger
      <4>1. \A w \in 1..(v - 1) : w \in Versions /\ w \notin cmd[p].todo
        BY <1>4, <2>1, VersionsAre
      <4> QED BY <1>1, <2>0, <2>1, <4>1 DEF PlanInv
    <3>3. Sound(db')
      BY <1>4, <2>0, <3>1, <3>2, UpKeepsSound
    <3>4. \A q \in Commands : cmd[q].pc # "idle" => cmd[q].up
      BY <1>1, <2>0, <2>1 DEF PlanInv
    <3>5. PlanInv'
      BY <1>1, <1>3, <2>0, <2>1, <3>1, <3>4 DEF PlanInv
    <3> QED BY <3>3, <3>5
  <2>2. CASE ~cmd[p].up
    <3>1. db' = Down(v, db) /\ db'.ledger = db.ledger \ {v}
      BY <1>7, <2>0, <2>2 DEF Down, MigRecs
    <3>2. v \in db.ledger /\ \A w \in db.ledger : w <= v
      <4>1. v \in db.ledger
        BY <1>1, <1>4, <2>0, <2>2 DEF PlanInv
      <4>2. ASSUME NEW w \in db.ledger PROVE w <= v
        <5>1. w \in 1..14 /\ v \in 1..14
          BY <1>4, <2>0, VersionsAre
        <5>2. w > v => w \in cmd[p].todo
          BY <1>1, <1>4, <2>0, <2>2 DEF PlanInv
        <5> QED BY <1>4, <2>2, <5>1, <5>2
      <4> QED BY <4>1, <4>2
    <3>3. Sound(db')
      BY <2>0, <3>1, <3>2, DownKeepsSound
    <3>4. \A q \in Commands \ {p} : cmd[q].pc = "idle"
      BY <1>1, <2>0, <2>2 DEF PlanInv
    <3>5. PlanInv'
      <4>1. cmd'[p].todo \subseteq db'.ledger
        BY <1>1, <1>3, <2>0, <2>2, <3>1 DEF PlanInv
      <4>2. \A t \in cmd'[p].todo, w \in db'.ledger : w > t => w \in cmd'[p].todo
        BY <1>1, <1>3, <2>0, <2>2, <3>1 DEF PlanInv
      <4> QED BY <1>3, <2>2, <3>4, <4>1, <4>2 DEF PlanInv
    <3> QED BY <3>3, <3>5
  <2> QED BY <2>1, <2>2
<1> QED BY <1>1, <1>5, <1>6, <1>8

\* Every step keeps the invariant.
LEMMA MigStepInv == MigInv /\ [MigNext]_migVars => MigInv'
<1> SUFFICES ASSUME MigInv, [MigNext]_migVars PROVE MigInv' OBVIOUS
<1>0. db.ledger \subseteq Versions
  BY DEF MigInv, MigTypes, MigRecs
<1>1. CASE UNCHANGED migVars
  <2>1. db' = db /\ txn' = txn /\ cmd' = cmd /\ crossed' = crossed /\ \A p \in Commands : Step(p)' = Step(p)
    BY <1>1 DEF migVars, Step
  <2>2. MigTypes' /\ PlanInv' = PlanInv
    BY <2>1 DEF MigInv, MigTypes, PlanInv, Working
  <2>3. TxnInv'
    <3>1. \A p \in Commands : cmd'[p].pc = "changed" =>
            /\ cmd'[p].up => CanUp(Step(p)', db') /\ txn' = Up(Step(p)', db')
            /\ ~cmd'[p].up => txn' = Down(Step(p)', db')
      BY <2>1 DEF MigInv, TxnInv
    <3> QED BY <2>1, <3>1 DEF MigInv, TxnInv
  <2> QED BY <2>1, <2>2, <2>3 DEF MigInv
<1>2. ASSUME NEW p \in Commands, PlanUp(p) PROVE MigInv'
  <2>1. Versions \ db.ledger \in SUBSET Versions
    OBVIOUS
  <2> QED BY <1>2, <2>1, PlanKeepsInv DEF PlanUp
<1>3. ASSUME NEW p \in Commands, NEW t \in Targets, PlanDown(p, t) PROVE MigInv'
  <2>1. {v \in db.ledger : v > t} \in SUBSET Versions /\ t \in Nat
    BY <1>0, MigAssumption
  <2> QED BY <1>3, <2>1, PlanKeepsInv DEF PlanDown
<1> QED
  BY <1>1, <1>2, <1>3, LockKeepsInv, SchemaChangeKeepsInv, CommitKeepsInv, AppendKeepsInv DEF MigNext

\* The inductive invariant is at least the one of the runs.
LEMMA MigInvSafe == MigInv => MigrationSafety
<1> SUFFICES ASSUME MigInv PROVE MigrationSafety OBVIOUS
<1>1. MigTypeOK
  BY DEF MigInv, MigTypes, MigTypeOK, MigRecs, CmdRecs
<1> QED BY <1>1 DEF MigInv, MigrationSafety, Sound, AddsOf, SchemaMatchesLedger, LedgerHasNoGap,
              SearchFindsEveryEvent

\* MigrationSafety (migrate_to_latest, migrate_down_to): the schema is that of the
\* versions in the ledger, these have no gap, and the search index holds every event.
THEOREM MigrationsAreSafe == MigSpec => []MigrationSafety
<1> QED BY MigInitInv, MigStepInv, MigInvSafe, PTL DEF MigSpec

------------------------------------------------------------------------------
(* -------------------------- backup and restore -------------------------- *)

------------------------------------------------------------------------------
\* Pages a transaction so far has written.
Written == [at : 0..txns, rows : 0..txns]
Part(f) == DOMAIN f \subseteq Pages /\ f \in [DOMAIN f -> Written]
Whole == [Pages -> Written]

\* One state of a page is another one or an older one.
Leq(c, d) == c.at < d.at \/ c = d

BkTypes ==
    /\ txns \in 0..MaxTxns /\ server \in BOOLEAN /\ half \in BOOLEAN
    /\ main \in Whole \union {Missing} /\ Part(wal)
    /\ ck = [todo |-> ck.todo, frames |-> ck.frames] /\ Part(ck.frames)
    /\ bk = [pc |-> bk.pc, counts |-> bk.counts, digest |-> bk.digest, file |-> bk.file,
             there |-> bk.there, mid |-> bk.mid]
    /\ bk.pc \in {"idle", "counting", "hashing", "packing"}
    /\ DOMAIN bk.counts \subseteq Pages /\ bk.counts \in [DOMAIN bk.counts -> 0..txns]
    /\ Part(bk.digest) /\ Part(bk.file)
    /\ rs \in [pc : {"idle", "staged", "moved", "installed", "verified", "failed"}, verify : BOOLEAN]
    /\ aside \subseteq Whole

\* A restore has the database to itself, a backup comes before every archive.
TurnsInv ==
    /\ rs.pc # "idle" => ~server /\ bk.pc = "idle" /\ archive # {}
    /\ rs.pc # "moved" => main \in Whole
    /\ bk.pc # "idle" => archive = {}
    /\ ~server => ck.todo = {}
    /\ \A a, b \in archive : a = b

\* A checkpoint brings the main file nearer to the -wal file, page by page.
CheckpointInv ==
    /\ ck.todo \subseteq DOMAIN ck.frames /\ DOMAIN ck.frames \subseteq DOMAIN wal
    /\ ck.todo = {} => ck = NoCheckpoint
    /\ \A p \in DOMAIN ck.frames \ ck.todo : main[p] = ck.frames[p]
    /\ archive = {} => \A p \in DOMAIN wal : Leq(main[p], wal[p])
    /\ archive = {} => \A p \in DOMAIN ck.frames : Leq(main[p], ck.frames[p]) /\ Leq(ck.frames[p], wal[p])

\* While a backup runs, the database, the end of a checkpoint and a main file that none
\* has left half way are moments; what was read is what the main file held or older.
BackupInv ==
    bk.pc # "idle" =>
      /\ Held \in moments
      /\ ck.todo # {} => Over(ck.frames, main) \in moments
      /\ ~half => main \in moments
      /\ \A p \in DOMAIN bk.digest : Leq(bk.digest[p], main[p])
      /\ bk.pc = "packing" =>
           /\ bk.digest \in Whole /\ bk.there \in Whole
           /\ DOMAIN bk.counts = Pages
           /\ ~bk.mid => bk.there \in moments
           /\ \A p \in Pages : Leq(bk.digest[p], bk.there[p]) /\ Leq(bk.there[p], main[p])
           /\ \A p \in DOMAIN bk.file : Leq(bk.there[p], bk.file[p]) /\ Leq(bk.file[p], main[p])
      /\ bk.pc # "packing" => bk.file = None
      /\ bk.pc = "hashing" => DOMAIN bk.counts = Pages
      /\ bk.pc = "counting" => bk.digest = None

\* If nothing is committed while a backup runs, it reads one state of the database.
Quiet == \A m, n \in moments : m = n
QuietInv ==
    bk.pc # "idle" /\ Quiet =>
      /\ wal = None /\ ~half
      /\ \A p \in DOMAIN bk.counts : bk.counts[p] = main[p].rows
      /\ \A p \in DOMAIN bk.digest : bk.digest[p] = main[p]
      /\ \A p \in DOMAIN bk.file : bk.file[p] = main[p]
      /\ bk.pc = "packing" => ~bk.mid

\* What an archive holds, and what a -wal file that lies beside it holds.
ArchiveOK(a) ==
    /\ a.file \in Whole /\ a.digest \in Whole /\ a.there \in Whole
    /\ a.counts \in [Pages -> 0..txns]
    /\ ~a.mid => a.there \in moments
    /\ \A p \in Pages : Leq(a.digest[p], a.there[p]) /\ Leq(a.there[p], a.file[p])
    /\ \A p \in DOMAIN wal : Leq(a.file[p], wal[p])
    /\ Quiet => /\ a.digest = a.file /\ ~a.mid
                /\ \A p \in Pages : a.counts[p] = a.file[p].rows
ArchiveInv == \A a \in archive : ArchiveOK(a)

\* The operator's state is the main file until that is moved, and aside from then on.
RestoreInv ==
    /\ rs.pc = "installed" => \A a \in archive : main = a.file
    /\ rs.pc # "idle" /\ before.wal = None =>
         /\ wal = None
         /\ rs.pc = "staged" => before.held = main
         /\ rs.pc # "staged" => before.held \in aside
    /\ VerifiedIsAMoment /\ FailureHasACause

BkInv == BkTypes /\ TurnsInv /\ CheckpointInv /\ BackupInv /\ QuietInv /\ ArchiveInv /\ RestoreInv

LEMMA LeqOrder ==
  ASSUME BkTypes
  PROVE  \A c, d, e \in Written :
           /\ Leq(c, c)
           /\ Leq(c, d) /\ Leq(d, e) => Leq(c, e)
           /\ Leq(c, d) /\ Leq(d, c) => c = d
<1>1. \A c \in Written : c.at \in Nat
  BY BkAssumption DEF BkTypes, Written
<1> QED BY <1>1 DEF Leq

\* What SQLite shows is a whole database if the main file is one.
LEMMA HeldIsWhole ==
  ASSUME BkTypes, main \in Whole
  PROVE  /\ Held \in Whole
         /\ \A p \in Pages : Held[p] = IF p \in DOMAIN wal THEN wal[p] ELSE main[p]
         /\ wal = None => Held = main
         /\ wal # None <=> DOMAIN wal # {}
<1>1. \A p \in DOMAIN wal : wal[p] \in Written
  BY DEF BkTypes, Part
<1>2. \A p \in Pages : main[p] \in Written
  BY DEF Whole
<1>3. Held = [p \in Pages |-> IF p \in DOMAIN wal THEN wal[p] ELSE main[p]]
  BY DEF Held, Over
<1>4. Held \in Whole
  BY <1>1, <1>2, <1>3 DEF Whole
<1>5. wal = None => Held = main
  <2> SUFFICES ASSUME wal = None PROVE Held = main OBVIOUS
  <2>1. DOMAIN wal = {}
    BY DEF None
  <2> QED BY <1>3, <2>1 DEF Whole
<1>6. wal # None <=> DOMAIN wal # {}
  <2>1. wal = [p \in DOMAIN wal |-> wal[p]]
    BY DEF BkTypes, Part
  <2> QED BY <2>1 DEF None
<1> QED BY <1>3, <1>4, <1>5, <1>6

\* Nothing is archived, restored or in a -wal file yet.
LEMMA BkInitInv == BkInit => BkInv
<1> SUFFICES ASSUME BkInit PROVE BkInv OBVIOUS
<1>1. DOMAIN None = {} /\ Part(None) /\ txns = 0 /\ txns \in 0..MaxTxns
  BY BkAssumption DEF BkInit, Part, None
<1>2. main \in Whole
  BY <1>1 DEF BkInit, Whole, Written
<1>3. BkTypes
  <2>1. /\ ck = [todo |-> {}, frames |-> None] /\ rs = [pc |-> "idle", verify |-> TRUE]
        /\ bk = [pc |-> "idle", counts |-> None, digest |-> None, file |-> None,
                 there |-> None, mid |-> FALSE]
    BY DEF BkInit, NoBackup, NoRestore, NoCheckpoint
  <2>2. None \in [DOMAIN None -> 0..txns]
    BY <1>1 DEF None
  <2>3. ck.frames = None /\ bk.digest = None /\ bk.file = None /\ bk.counts = None /\ bk.pc = "idle"
    BY <2>1
  <2>4. ck = [todo |-> ck.todo, frames |-> ck.frames]
    BY <2>1
  <2>5. bk = [pc |-> bk.pc, counts |-> bk.counts, digest |-> bk.digest, file |-> bk.file,
              there |-> bk.there, mid |-> bk.mid]
    BY <2>1
  <2>6. rs \in [pc : {"idle", "staged", "moved", "installed", "verified", "failed"}, verify : BOOLEAN]
    BY <2>1
  <2>7. Part(wal) /\ Part(ck.frames) /\ Part(bk.digest) /\ Part(bk.file)
    BY <1>1, <2>3 DEF BkInit
  <2>8. bk.counts \in [DOMAIN bk.counts -> 0..txns] /\ DOMAIN bk.counts \subseteq Pages
    BY <1>1, <2>2, <2>3
  <2>9. server = FALSE /\ half = FALSE /\ aside = {}
    BY DEF BkInit
  <2> QED BY <1>1, <1>2, <2>3, <2>4, <2>5, <2>6, <2>7, <2>8, <2>9 DEF BkTypes
<1>4. TurnsInv /\ CheckpointInv
  BY <1>1, <1>2 DEF BkInit, TurnsInv, CheckpointInv, NoBackup, NoRestore, NoCheckpoint
<1>5. BackupInv /\ QuietInv /\ ArchiveInv /\ RestoreInv
  BY DEF BkInit, BackupInv, QuietInv, ArchiveInv, RestoreInv, VerifiedIsAMoment, FailureHasACause,
         NoBackup, NoRestore
<1> QED BY <1>3, <1>4, <1>5 DEF BkInv

\* A commit: every page it writes is newer than all that was seen of it, so what a
\* running backup sees is no longer one state of the database.
LEMMA BkCommitKeepsInv ==
  ASSUME BkInv, NEW touched \in (SUBSET Pages) \ {{}}, NEW inserted \in SUBSET touched,
         Commit(touched, inserted)
  PROVE  BkInv'
<1> USE DEF BkInv
<1>1. /\ server /\ txns \in Nat /\ txns' = txns + 1 /\ txns' \in 0..MaxTxns
      /\ main' = main /\ ck' = ck /\ half' = half /\ server' = server /\ bk' = bk
      /\ archive' = archive /\ rs' = rs /\ aside' = aside /\ before' = before
  BY BkAssumption DEF Commit, BkTypes
<1>2. rs.pc = "idle" /\ main \in Whole
  BY <1>1 DEF TurnsInv
<1>3. Written \subseteq Written'
  BY <1>1 DEF Written
<1>4. Whole \subseteq Whole'
  BY <1>3 DEF Whole
<1>5. \A p \in Pages : Held[p] \in Written
  BY <1>2, HeldIsWhole DEF Whole
<1>6. /\ DOMAIN wal' = DOMAIN wal \union touched
      /\ \A p \in touched : wal'[p] = [at |-> txns', rows |-> IF p \in inserted THEN Held[p].rows + 1
                                                               ELSE Held[p].rows]
      /\ \A p \in DOMAIN wal \ touched : wal'[p] = wal[p]
      /\ wal' = [p \in DOMAIN wal' |-> wal'[p]]
  BY DEF Commit
<1>7. \A p \in touched : wal'[p] \in Written' /\ wal'[p].at = txns'
  <2> SUFFICES ASSUME NEW p \in touched PROVE wal'[p] \in Written' /\ wal'[p].at = txns'
    OBVIOUS
  <2>1. Held[p].rows \in 0..txns
    BY <1>5 DEF Written
  <2> QED BY <1>1, <1>6, <2>1 DEF Written
<1>8. Part(wal)'
  <2>1. \A p \in DOMAIN wal : wal[p] \in Written'
    BY <1>3 DEF BkTypes, Part
  <2> QED BY <1>6, <1>7, <2>1 DEF BkTypes, Part
<1>9. \A p \in touched, c \in Written : Leq(c, wal'[p])
  <2> SUFFICES ASSUME NEW p \in touched, NEW c \in Written PROVE Leq(c, wal'[p])
    OBVIOUS
  <2>1. c.at \in 0..txns
    BY DEF Written
  <2> QED BY <1>1, <1>7, <2>1 DEF Leq
<1>10. BkTypes'
  <2>1. Part(ck.frames)' /\ Part(bk.digest)' /\ Part(bk.file)'
    BY <1>1, <1>3 DEF BkTypes, Part
  <2>2. (bk.counts \in [DOMAIN bk.counts -> 0..txns])'
    BY <1>1 DEF BkTypes
  <2> QED BY <1>1, <1>2, <1>4, <1>8, <2>1, <2>2 DEF BkTypes
<1>11. TurnsInv'
  BY <1>1, <1>2, <1>4 DEF TurnsInv
<1>12. CheckpointInv'
  <2>1. \A p \in DOMAIN wal : main[p] \in Written
    BY <1>2 DEF Whole, BkTypes, Part
  <2>2. \A p \in DOMAIN ck.frames : ck.frames[p] \in Written
    BY DEF BkTypes, Part
  <2>3. \A p \in Pages : main[p] \in Written
    BY <1>2 DEF Whole
  <2> QED BY <1>1, <1>6, <1>9, <2>2, <2>3 DEF CheckpointInv
<1>13. moments \subseteq moments' /\ (bk.pc # "idle" => Held' \in moments')
  BY <1>1 DEF Commit
<1>14. bk.pc = "idle" => moments' = moments
  BY DEF Commit
<1>15. BackupInv'
  <2>1. bk.pc # "idle" /\ ck.todo # {} => Over(ck.frames, main)' \in moments'
    BY <1>1, <1>13 DEF BackupInv, Over
  <2>2. bk.pc = "packing" => (bk.digest \in Whole' /\ bk.there \in Whole')
    BY <1>4 DEF BackupInv
  <2> QED BY <1>1, <1>13, <2>1, <2>2 DEF BackupInv
<1>16. QuietInv'
  <2> SUFFICES ASSUME bk.pc # "idle" PROVE ~Quiet'
    BY <1>1 DEF QuietInv
  <2>1. PICK p : p \in touched
    <3>1. touched # {}
      OBVIOUS
    <3> QED BY <3>1
  <2>2. Held'[p] = wal'[p]
    BY <1>6, <2>1 DEF Held, Over
  <2>3. Held[p].at # txns'
    BY <1>1, <1>5, <2>1 DEF Written
  <2>4. Held' # Held
    BY <1>7, <2>1, <2>2, <2>3
  <2>5. Held \in moments' /\ Held' \in moments'
    BY <1>13 DEF BackupInv
  <2> QED BY <2>4, <2>5 DEF Quiet
<1>17. ArchiveInv'
  <2> SUFFICES ASSUME NEW a \in archive PROVE ArchiveOK(a)'
    BY <1>1 DEF ArchiveInv
  <2>1. moments' = moments
    BY <1>14 DEF TurnsInv
  <2>0. ArchiveOK(a)
    BY DEF ArchiveInv
  <2>2. a.counts \in [Pages -> 0..txns']
    BY <1>1, <2>0 DEF ArchiveOK
  <2>3. \A p \in DOMAIN wal' : Leq(a.file[p], wal'[p])
    <3>1. \A p \in Pages : a.file[p] \in Written
      BY <2>0 DEF ArchiveOK, Whole
    <3> QED BY <1>6, <1>9, <2>0, <3>1 DEF ArchiveOK
  <2> QED BY <1>4, <2>0, <2>1, <2>2, <2>3 DEF ArchiveOK, Quiet
<1>18. RestoreInv'
  BY <1>1, <1>2 DEF RestoreInv, VerifiedIsAMoment, FailureHasACause
<1> QED BY <1>10, <1>11, <1>12, <1>15, <1>16, <1>17, <1>18

\* A server that starts, begins a checkpoint or stops changes no file.
LEMMA ServerKeepsInv ==
  ASSUME BkInv, Serve \/ StartCheckpoint \/ ServerStops
  PROVE  BkInv'
<1> USE DEF BkInv
<1>1. /\ main' = main /\ wal' = wal /\ half' = half /\ txns' = txns /\ bk' = bk /\ archive' = archive
      /\ rs' = rs /\ aside' = aside /\ moments' = moments /\ before' = before
  BY DEF Serve, StartCheckpoint, ServerStops, files, commands
<1>2. rs.pc = "idle" /\ main \in Whole
  BY DEF Serve, StartCheckpoint, ServerStops, TurnsInv
<1>3. Held' = Held
  BY <1>1 DEF Held, Over
<1>4. QuietInv' /\ ArchiveInv' /\ RestoreInv'
  BY <1>1 DEF QuietInv, Quiet, ArchiveInv, ArchiveOK, RestoreInv, VerifiedIsAMoment,
     FailureHasACause, Whole, Written
<1>5. CASE Serve
  <2>1. server' = TRUE /\ ck' = ck
    BY <1>5 DEF Serve, files
  <2>2. BkTypes' /\ TurnsInv' /\ CheckpointInv'
    BY <1>1, <1>2, <2>1 DEF BkTypes, Part, Written, Whole, TurnsInv, CheckpointInv
  <2> QED BY <1>1, <1>3, <1>4, <2>1, <2>2 DEF BackupInv, Over, Whole, Written
<1>6. CASE ServerStops
  <2>1. server' = FALSE /\ ck' = [todo |-> {}, frames |-> None] /\ ck' = NoCheckpoint
    BY <1>6 DEF ServerStops, NoCheckpoint
  <2>2. ck'.todo = {} /\ ck'.frames = None /\ DOMAIN None = {} /\ Part(None)
    BY <2>1 DEF None, Part
  <2>3. Part(ck.frames)'
    BY <1>1, <2>2 DEF Part, Written
  <2>4. BkTypes'
    BY <1>1, <2>1, <2>2, <2>3 DEF BkTypes, Part, Written, Whole
  <2>5. TurnsInv' /\ CheckpointInv'
    BY <1>1, <1>2, <2>1, <2>2 DEF Written, Whole, TurnsInv, CheckpointInv
  <2> QED BY <1>1, <1>3, <1>4, <2>2, <2>4, <2>5 DEF BackupInv, Whole, Written
<1>7. CASE StartCheckpoint
  <2>1. server /\ server' = server /\ ck' = [todo |-> DOMAIN wal, frames |-> wal] /\ wal # None
    BY <1>7 DEF StartCheckpoint
  <2>2. ck'.todo = DOMAIN wal /\ ck'.frames = wal /\ DOMAIN wal # {}
    BY <1>2, <2>1, HeldIsWhole
  <2>3. BkTypes'
    BY <1>1, <2>1, <2>2 DEF BkTypes, Part, Written, Whole
  <2>4. \A p \in DOMAIN wal : wal[p] \in Written
    BY DEF BkTypes, Part
  <2>5. TurnsInv' /\ CheckpointInv'
    BY <1>1, <1>2, <2>1, <2>2, <2>4, LeqOrder DEF Written, Whole, TurnsInv, CheckpointInv
  <2>6. bk.pc # "idle" => Over(ck.frames, main)' \in moments'
    BY <1>1, <2>2 DEF BackupInv, Held, Over
  <2> QED BY <1>1, <1>3, <1>4, <2>3, <2>5, <2>6 DEF BackupInv, Whole, Written
<1> QED BY <1>5, <1>6, <1>7

\* One page of a checkpoint: the main file comes nearer to the -wal file, what SQLite
\* shows stays, and after the last page the main file is the end of the checkpoint.
LEMMA WritePageKeepsInv ==
  ASSUME BkInv, NEW p \in Pages, WritePage(p)
  PROVE  BkInv'
<1> USE DEF BkInv
<1>1. /\ p \in ck.todo /\ main' = [main EXCEPT ![p] = ck.frames[p]] /\ half' = (ck.todo # {p})
      /\ server' = server /\ txns' = txns /\ bk' = bk /\ archive' = archive
      /\ rs' = rs /\ aside' = aside /\ moments' = moments /\ before' = before
  BY DEF WritePage, commands
<1>2. server /\ rs.pc = "idle" /\ main \in Whole /\ p \in DOMAIN ck.frames /\ p \in DOMAIN wal
  BY <1>1 DEF TurnsInv, CheckpointInv
<1>3. Written' = Written /\ Whole' = Whole
  BY <1>1 DEF Written, Whole
<1>4. /\ \A q \in DOMAIN ck.frames : ck.frames[q] \in Written
      /\ \A q \in DOMAIN wal : wal[q] \in Written
      /\ \A q \in Pages : main[q] \in Written
  BY <1>2 DEF BkTypes, Part, Whole
<1>5. main' \in Whole /\ main'[p] = ck.frames[p] /\ \A q \in Pages \ {p} : main'[q] = main[q]
  BY <1>1, <1>2, <1>4 DEF Whole
<1>6. archive = {} => \A q \in Pages : Leq(main[q], main'[q])
  BY <1>2, <1>4, <1>5, LeqOrder DEF CheckpointInv
<1>7. Over(ck.frames, main') = Over(ck.frames, main)
  BY <1>2, <1>5 DEF Over
<1>8. /\ ck.todo # {p} =>
           /\ ck' = [todo |-> ck.todo \ {p}, frames |-> ck.frames] /\ wal' = wal
      /\ ck.todo = {p} => ck' = NoCheckpoint /\ wal' = IF wal = ck.frames THEN None ELSE wal
  BY DEF WritePage, BkTypes
<1>9. NoCheckpoint.todo = {} /\ NoCheckpoint.frames = None /\ DOMAIN None = {} /\ Part(None)
      /\ NoCheckpoint = [todo |-> {}, frames |-> None]
  BY DEF NoCheckpoint, None, Part
<1>10. /\ ck.todo # {p} => ck'.todo = ck.todo \ {p} /\ ck'.frames = ck.frames /\ ck'.todo # {}
       /\ ck.todo = {p} => ck'.todo = {} /\ ck'.frames = None
       /\ ck' = [todo |-> ck'.todo, frames |-> ck'.frames]
  BY <1>1, <1>8, <1>9
<1>11. Part(wal)' /\ Part(ck.frames)'
  BY <1>3, <1>8, <1>9, <1>10 DEF BkTypes, Part
<1>12. wal' \in {wal, None} /\ DOMAIN wal' \subseteq DOMAIN wal /\ \A q \in DOMAIN wal' : wal'[q] = wal[q]
  BY <1>8, <1>9
<1>13. BkTypes'
  BY <1>1, <1>3, <1>5, <1>10, <1>11 DEF BkTypes, Part
<1>14. TurnsInv'
  BY <1>1, <1>2, <1>3, <1>5 DEF TurnsInv
<1>15. CheckpointInv'
  <2>1. ck'.todo \subseteq DOMAIN ck'.frames /\ DOMAIN ck'.frames \subseteq DOMAIN wal'
    BY <1>8, <1>9, <1>10 DEF CheckpointInv
  <2>2. ck'.todo = {} => ck' = NoCheckpoint
    BY <1>8, <1>10
  <2>3. \A q \in DOMAIN ck'.frames \ ck'.todo : main'[q] = ck'.frames[q]
    BY <1>5, <1>9, <1>10 DEF CheckpointInv, BkTypes, Part
  <2>4. archive = {} => \A q \in DOMAIN wal' : Leq(main'[q], wal'[q])
    BY <1>2, <1>5, <1>12 DEF CheckpointInv, BkTypes, Part
  <2>5. archive = {} => \A q \in DOMAIN ck'.frames : Leq(main'[q], ck'.frames[q]) /\ Leq(ck'.frames[q], wal'[q])
    BY <1>2, <1>4, <1>5, <1>8, <1>9, <1>10, LeqOrder DEF CheckpointInv, BkTypes, Part
  <2> QED BY <1>1, <2>1, <2>2, <2>3, <2>4, <2>5 DEF CheckpointInv
<1>16. ck.todo = {p} => main' = Over(ck.frames, main)
  <2> SUFFICES ASSUME ck.todo = {p} PROVE main' = Over(ck.frames, main)
    OBVIOUS
  <2>1. \A q \in Pages : main'[q] = IF q \in DOMAIN ck.frames THEN ck.frames[q] ELSE main[q]
    BY <1>2, <1>5 DEF CheckpointInv
  <2>2. main' = [q \in Pages |-> main'[q]]
    BY <1>5 DEF Whole
  <2> QED BY <2>1, <2>2 DEF Over
<1>17. Held' = Held
  <2>1. CASE ck.todo = {p} /\ wal = ck.frames
    BY <1>8, <1>9, <1>16, <2>1 DEF Held, Over
  <2>2. CASE ~(ck.todo = {p} /\ wal = ck.frames)
    BY <1>2, <1>5, <1>8, <2>2 DEF Held, Over
  <2> QED BY <2>1, <2>2
<1>18. BackupInv'
  <2> SUFFICES ASSUME bk.pc # "idle" PROVE BackupInv'
    BY <1>1 DEF BackupInv
  <2>1. archive = {} /\ Over(ck.frames, main) \in moments
    BY <1>1 DEF TurnsInv, BackupInv
  <2>2. ck'.todo # {} => Over(ck'.frames, main') \in moments
    BY <1>7, <1>10, <2>1
  <2>3. ~half' => main' \in moments
    BY <1>1, <1>16, <2>1
  <2>4. \A q \in DOMAIN bk.digest : Leq(bk.digest[q], main'[q])
    BY <1>4, <1>5, <1>6, <2>1, LeqOrder DEF BackupInv, BkTypes, Part, Whole
  <2>5. bk.pc = "packing" => \A q \in Pages : Leq(bk.there[q], main'[q])
    BY <1>4, <1>5, <1>6, <2>1, LeqOrder DEF BackupInv, Whole
  <2>6. bk.pc = "packing" => \A q \in DOMAIN bk.file : Leq(bk.file[q], main'[q])
    BY <1>4, <1>5, <1>6, <2>1, LeqOrder DEF BackupInv, BkTypes, Part, Whole
  <2> QED BY <1>1, <1>3, <1>17, <2>2, <2>3, <2>4, <2>5, <2>6 DEF BackupInv
<1>19. QuietInv'
  <2>1. wal # None
    BY <1>2, <1>9
  <2> QED BY <1>1, <2>1 DEF QuietInv, Quiet
<1>20. ArchiveInv'
  BY <1>1, <1>3, <1>12 DEF ArchiveInv, ArchiveOK, Quiet
<1>21. RestoreInv'
  BY <1>1, <1>2 DEF RestoreInv, VerifiedIsAMoment, FailureHasACause
<1> QED BY <1>13, <1>14, <1>15, <1>18, <1>19, <1>20, <1>21

\* Folding the -wal file into the main file, with no checkpoint in progress.
LEMMA FoldWalFacts ==
  ASSUME BkInv, main \in Whole, ck.todo = {}, FoldWal, txns' = txns
  PROVE  /\ main' = Held /\ wal' = None /\ half' = FALSE /\ ck' = ck /\ ck = NoCheckpoint
         /\ Written' = Written /\ Whole' = Whole /\ main' \in Whole /\ Held' = Held
         /\ Part(wal)' /\ Part(ck.frames)' /\ DOMAIN wal' = {} /\ CheckpointInv'
         /\ wal = None => main' = main
<1> USE DEF BkInv
<1>1. main' = Held /\ wal' = None /\ half' = FALSE /\ ck' = ck
  BY DEF FoldWal
<1>2. ck = NoCheckpoint
  BY DEF CheckpointInv
<1>3. Written' = Written /\ Whole' = Whole
  BY DEF Written, Whole
<1>4. main' \in Whole /\ (wal = None => main' = main)
  BY <1>1, HeldIsWhole
<1>5. DOMAIN None = {} /\ Part(None) /\ None = [p \in {} |-> 0]
  BY DEF None, Part
<1>6. Part(wal)' /\ Part(ck.frames)' /\ DOMAIN wal' = {}
  BY <1>1, <1>3, <1>5 DEF BkTypes, Part
<1>7. Held' = Held
  <2>1. Held' = [p \in Pages |-> main'[p]]
    BY <1>6 DEF Held, Over
  <2> QED BY <1>1, <1>4, <2>1 DEF Whole
<1>8. CheckpointInv'
  <2>1. ck'.todo = {} /\ ck'.frames = None
    BY <1>1, <1>2 DEF NoCheckpoint
  <2> QED BY <1>1, <1>2, <1>5, <1>6, <2>1 DEF CheckpointInv
<1> QED BY <1>1, <1>2, <1>3, <1>4, <1>6, <1>7, <1>8

\* The first step of a backup: the main file holds all that the database holds.
LEMMA StartBackupKeepsInv ==
  ASSUME BkInv, StartBackup
  PROVE  BkInv'
<1> USE DEF BkInv
<1>1. /\ rs.pc = "idle" /\ archive = {} /\ ck.todo = {} /\ FoldWal /\ moments' = {Held}
      /\ server' = server /\ txns' = txns /\ archive' = archive /\ rs' = rs
      /\ aside' = aside /\ before' = before
  BY DEF StartBackup
<1>2. main \in Whole
  BY <1>1 DEF TurnsInv
<1>3. bk' = [pc |-> "counting", counts |-> None, digest |-> None, file |-> None,
             there |-> None, mid |-> FALSE]
  BY DEF StartBackup, NoBackup
<1>4. DOMAIN None = {} /\ Part(None)' /\ None \in [DOMAIN None -> 0..txns]
  BY DEF None, Part
<1>5. bk'.pc = "counting" /\ bk'.counts = None /\ bk'.digest = None /\ bk'.file = None
  BY <1>3
<1>6. /\ Part(bk.digest)' /\ Part(bk.file)' /\ (bk.counts \in [DOMAIN bk.counts -> 0..txns])'
      /\ bk' = [pc |-> bk'.pc, counts |-> bk'.counts, digest |-> bk'.digest, file |-> bk'.file,
             there |-> bk'.there, mid |-> bk'.mid]
  BY <1>1, <1>3, <1>4, <1>5 DEF Part, Written
<1>7. BkTypes'
  BY <1>1, <1>2, <1>4, <1>5, <1>6, FoldWalFacts DEF BkTypes
<1>8. TurnsInv' /\ CheckpointInv'
  BY <1>1, <1>2, FoldWalFacts DEF TurnsInv
<1>9. BackupInv' /\ QuietInv'
  BY <1>1, <1>2, <1>4, <1>5, FoldWalFacts DEF BackupInv, QuietInv
<1>10. ArchiveInv' /\ RestoreInv'
  BY <1>1 DEF ArchiveInv, RestoreInv, VerifiedIsAMoment, FailureHasACause
<1> QED BY <1>7, <1>8, <1>9, <1>10

\* Counting: a table's rows are those that SQLite shows.
LEMMA CountKeepsInv ==
  ASSUME BkInv, NEW p \in Pages, Count(p)
  PROVE  BkInv'
<1> USE DEF BkInv
<1>1. /\ bk.pc = "counting" /\ main' = main /\ wal' = wal /\ ck' = ck /\ half' = half
      /\ server' = server /\ txns' = txns /\ archive' = archive /\ rs' = rs
      /\ aside' = aside /\ moments' = moments /\ before' = before
  BY DEF Count, files
<1>2. bk' = [pc |-> "counting", counts |-> With(bk.counts, p, Held[p].rows), digest |-> bk.digest,
             file |-> bk.file, there |-> bk.there, mid |-> bk.mid]
  BY <1>1 DEF Count, BkTypes
<1>3. main \in Whole /\ archive = {} /\ rs.pc = "idle"
  BY <1>1 DEF TurnsInv
<1>4. Held[p] \in Written /\ Held[p].rows \in 0..txns /\ (wal = None => Held = main)
  BY <1>3, HeldIsWhole DEF Whole, Written
<1>5. Written' = Written /\ Whole' = Whole /\ Held' = Held
  BY <1>1 DEF Written, Whole, Held, Over
<1>6. /\ bk'.pc = "counting" /\ bk'.digest = bk.digest /\ bk'.file = bk.file
      /\ DOMAIN bk'.counts = DOMAIN bk.counts \union {p}
      /\ \A q \in DOMAIN bk'.counts : bk'.counts[q] = IF q = p THEN Held[p].rows ELSE bk.counts[q]
      /\ bk'.counts = [q \in DOMAIN bk'.counts |-> bk'.counts[q]]
  BY <1>2 DEF With
<1>7. (bk.counts \in [DOMAIN bk.counts -> 0..txns])' /\ DOMAIN bk'.counts \subseteq Pages
  BY <1>1, <1>4, <1>6 DEF BkTypes
<1>8. bk' = [pc |-> bk'.pc, counts |-> bk'.counts, digest |-> bk'.digest, file |-> bk'.file,
             there |-> bk'.there, mid |-> bk'.mid]
  BY <1>2
<1>9. BkTypes'
  BY <1>1, <1>5, <1>6, <1>7, <1>8 DEF BkTypes, Part
<1>10. TurnsInv' /\ CheckpointInv'
  BY <1>1, <1>3, <1>5 DEF TurnsInv, CheckpointInv
<1>11. BackupInv'
  BY <1>1, <1>3, <1>5, <1>6 DEF BackupInv, Over
<1>12. QuietInv'
  <2> SUFFICES ASSUME Quiet PROVE QuietInv'
    BY <1>1 DEF QuietInv, Quiet
  <2>1. wal = None /\ ~half /\ Held = main
    BY <1>1, <1>4 DEF QuietInv
  <2> QED BY <1>1, <1>6, <2>1 DEF QuietInv
<1>13. ArchiveInv' /\ RestoreInv'
  BY <1>1, <1>3 DEF ArchiveInv, RestoreInv, VerifiedIsAMoment, FailureHasACause
<1> QED BY <1>9, <1>10, <1>11, <1>12, <1>13

\* The counts are complete; the last connection to close folds the -wal file in.
LEMMA CloseCountKeepsInv ==
  ASSUME BkInv, CloseCount
  PROVE  BkInv'
<1> USE DEF BkInv
<1>1. /\ bk.pc = "counting" /\ DOMAIN bk.counts = Pages
      /\ server' = server /\ txns' = txns /\ archive' = archive /\ rs' = rs
      /\ aside' = aside /\ moments' = moments /\ before' = before
      /\ server => main' = main /\ wal' = wal /\ ck' = ck /\ half' = half
      /\ ~server => FoldWal
  BY DEF CloseCount, files
<1>2. bk' = [pc |-> "hashing", counts |-> bk.counts, digest |-> bk.digest,
             file |-> bk.file, there |-> bk.there, mid |-> bk.mid]
  BY DEF CloseCount, BkTypes
<1>3. main \in Whole /\ archive = {} /\ rs.pc = "idle" /\ (~server => ck.todo = {})
  BY <1>1 DEF TurnsInv
<1>4. Written' = Written /\ Whole' = Whole /\ DOMAIN None = {}
  BY <1>1 DEF Written, Whole, None
<1>5. bk'.pc = "hashing" /\ bk'.counts = bk.counts /\ bk'.digest = None /\ bk'.file = None
  BY <1>1, <1>2 DEF BackupInv
<1>6. BkTypes' /\ CheckpointInv' /\ Held' = Held /\ main' \in Whole
  <2>1. bk' = [pc |-> bk'.pc, counts |-> bk'.counts, digest |-> bk'.digest, file |-> bk'.file,
               there |-> bk'.there, mid |-> bk'.mid]
    BY <1>2
  <2>2. bk'.digest = bk.digest /\ bk'.file = bk.file
    BY <1>2
  <2>3. CASE server
    BY <1>1, <1>3, <1>4, <1>5, <2>1, <2>2, <2>3 DEF BkTypes, Part, CheckpointInv, Held, Over
  <2>4. CASE ~server
    <3>1. FoldWal /\ ck.todo = {}
      BY <1>1, <1>3, <2>4
    <3>2. /\ CheckpointInv' /\ Held' = Held /\ main' \in Whole /\ Part(wal)' /\ Part(ck.frames)'
          /\ ck' = ck /\ half' = FALSE
      BY <1>1, <1>3, <3>1, FoldWalFacts
    <3> QED BY <1>1, <1>3, <1>4, <1>5, <2>1, <2>2, <3>2 DEF BkTypes, Part
  <2> QED BY <2>3, <2>4
<1>7. TurnsInv'
  <2>1. ~server => ck' = ck
    BY <1>1 DEF FoldWal
  <2> QED BY <1>1, <1>3, <1>4, <1>6, <2>1 DEF TurnsInv
<1>8. Held \in moments
  BY <1>1 DEF BackupInv
<1>9. BackupInv'
  <2>1. ~server => main' \in moments /\ ck' = ck /\ ck.todo = {}
    BY <1>3, <1>8, <1>1 DEF FoldWal
  <2>2. server => (ck'.todo # {} => Over(ck'.frames, main') \in moments) /\ (~half' => main' \in moments)
    BY <1>1 DEF BackupInv
  <2> QED BY <1>1, <1>4, <1>5, <1>6, <1>8, <2>1, <2>2 DEF BackupInv
<1>10. QuietInv'
  <2> SUFFICES ASSUME Quiet PROVE QuietInv'
    BY <1>1 DEF QuietInv, Quiet
  <2>1. wal = None /\ ~half
    BY <1>1 DEF QuietInv
  <2>2. main' = main /\ wal' = None /\ ~half'
    BY <1>1, <1>3, <2>1, HeldIsWhole DEF FoldWal
  <2> QED BY <1>1, <1>4, <1>5, <2>2 DEF QuietInv
<1>11. ArchiveInv' /\ RestoreInv'
  BY <1>1, <1>3 DEF ArchiveInv, RestoreInv, VerifiedIsAMoment, FailureHasACause
<1> QED BY <1>6, <1>7, <1>9, <1>10, <1>11

\* The main file is hashed page by page; its last page read, the digest is as old as the
\* main file then is, or older.
LEMMA HashKeepsInv ==
  ASSUME BkInv, NEW p \in Pages, Hash(p)
  PROVE  BkInv'
<1> USE DEF BkInv
<1> DEFINE read == With(bk.digest, p, main[p])
<1>1. /\ bk.pc = "hashing" /\ main' = main /\ wal' = wal /\ ck' = ck /\ half' = half
      /\ server' = server /\ txns' = txns /\ archive' = archive /\ rs' = rs
      /\ aside' = aside /\ moments' = moments /\ before' = before
      /\ bk' = IF DOMAIN read = Pages
                 THEN [bk EXCEPT !.digest = read, !.pc = "packing", !.there = main, !.mid = half]
                 ELSE [bk EXCEPT !.digest = read]
  BY DEF Hash, files
<1>2. main \in Whole /\ archive = {} /\ rs.pc = "idle"
  BY <1>1 DEF TurnsInv
<1>3. /\ DOMAIN read = DOMAIN bk.digest \union {p}
      /\ \A q \in DOMAIN read : read[q] = IF q = p THEN main[p] ELSE bk.digest[q]
      /\ read = [q \in DOMAIN read |-> read[q]]
  BY DEF With
<1> HIDE DEF read
<1>4. \A q \in Pages : main[q] \in Written
  BY <1>2 DEF Whole
<1>5. Part(read) /\ \A q \in DOMAIN read : Leq(read[q], main[q])
  <2>1. \A q \in DOMAIN bk.digest : bk.digest[q] \in Written /\ Leq(bk.digest[q], main[q])
    BY <1>1 DEF BkTypes, Part, BackupInv
  <2>2. Leq(main[p], main[p])
    BY <1>4, LeqOrder
  <2> QED BY <1>3, <1>4, <2>1, <2>2 DEF BkTypes, Part
<1>6. Written' = Written /\ Whole' = Whole /\ Held' = Held
  BY <1>1 DEF Written, Whole, Held, Over
<1>7. /\ bk'.digest = read /\ bk'.counts = bk.counts /\ bk'.file = bk.file
      /\ DOMAIN read = Pages => bk'.pc = "packing" /\ bk'.there = main /\ bk'.mid = half
      /\ DOMAIN read # Pages => bk'.pc = "hashing" /\ bk'.there = bk.there /\ bk'.mid = bk.mid
      /\ bk' = [pc |-> bk'.pc, counts |-> bk'.counts, digest |-> bk'.digest, file |-> bk'.file,
                there |-> bk'.there, mid |-> bk'.mid]
  <2>1. CASE DOMAIN read = Pages
    <3>1. bk' = [pc |-> "packing", counts |-> bk.counts, digest |-> read, file |-> bk.file,
                 there |-> main, mid |-> half]
      BY <1>1, <2>1 DEF BkTypes
    <3> QED BY <2>1, <3>1
  <2>2. CASE DOMAIN read # Pages
    <3>1. bk' = [pc |-> "hashing", counts |-> bk.counts, digest |-> read, file |-> bk.file,
                 there |-> bk.there, mid |-> bk.mid]
      BY <1>1, <2>2 DEF BkTypes
    <3> QED BY <2>2, <3>1
  <2> QED BY <2>1, <2>2
<1>8. BkTypes'
  BY <1>1, <1>5, <1>6, <1>7 DEF BkTypes, Part
<1>9. TurnsInv' /\ CheckpointInv'
  BY <1>1, <1>2, <1>6 DEF TurnsInv, CheckpointInv
<1>10. bk.file = None /\ DOMAIN None = {} /\ DOMAIN bk.counts = Pages
  BY <1>1 DEF BackupInv, None
<1>11. BackupInv'
  <2>1. /\ Held' \in moments' /\ (ck'.todo # {} => Over(ck'.frames, main') \in moments')
        /\ (~half' => main' \in moments')
    BY <1>1, <1>6 DEF BackupInv
  <2>2. \A q \in DOMAIN bk'.digest : Leq(bk'.digest[q], main'[q])
    BY <1>1, <1>5, <1>7
  <2>3. CASE DOMAIN read = Pages
    <3>1. read \in Whole
      BY <1>5, <2>3 DEF Part, Whole
    <3>2. bk'.digest \in Whole' /\ bk'.there \in Whole'
      BY <1>2, <1>6, <1>7, <2>3, <3>1
    <3>3. DOMAIN bk'.counts = Pages
      BY <1>7, <1>10
    <3>4. ~bk'.mid => bk'.there \in moments'
      BY <1>1, <1>7, <2>1, <2>3
    <3>5. \A q \in Pages : Leq(bk'.digest[q], bk'.there[q]) /\ Leq(bk'.there[q], main'[q])
      BY <1>1, <1>4, <1>5, <1>7, <2>3, LeqOrder
    <3>6. bk'.pc = "packing" /\ DOMAIN bk'.file = {}
      BY <1>7, <1>10, <2>3
    <3> QED BY <2>1, <2>2, <3>2, <3>3, <3>4, <3>5, <3>6 DEF BackupInv
  <2>4. CASE DOMAIN read # Pages
    BY <1>7, <1>10, <2>1, <2>2, <2>4 DEF BackupInv
  <2> QED BY <2>3, <2>4
<1>12. QuietInv'
  <2> SUFFICES ASSUME Quiet PROVE QuietInv'
    BY <1>1 DEF QuietInv, Quiet
  <2>1. /\ wal = None /\ ~half
        /\ \A q \in DOMAIN bk.counts : bk.counts[q] = main[q].rows
        /\ \A q \in DOMAIN bk.digest : bk.digest[q] = main[q]
    BY <1>1 DEF QuietInv
  <2>2. \A q \in DOMAIN bk'.digest : bk'.digest[q] = main[q]
    BY <1>3, <1>7, <2>1
  <2>3. bk'.pc = "packing" => ~bk'.mid
    BY <1>7, <2>1
  <2>4. bk'.file = None
    BY <1>7, <1>10
  <2> QED BY <1>1, <1>7, <1>10, <2>1, <2>2, <2>3, <2>4 DEF QuietInv
<1>13. ArchiveInv' /\ RestoreInv'
  BY <1>1, <1>2 DEF ArchiveInv, RestoreInv, VerifiedIsAMoment, FailureHasACause
<1> QED BY <1>8, <1>9, <1>11, <1>12, <1>13

\* The main file is copied page by page; its last page read, the archive is there.
LEMMA PackKeepsInv ==
  ASSUME BkInv, NEW p \in Pages, Pack(p)
  PROVE  BkInv'
<1> USE DEF BkInv
<1> DEFINE read == With(bk.file, p, main[p])
<1>0. PICK arch : arch = [counts |-> bk.counts, digest |-> bk.digest, file |-> read,
                          there |-> bk.there, mid |-> bk.mid]
  OBVIOUS
<1>1. /\ bk.pc = "packing" /\ main' = main /\ wal' = wal /\ ck' = ck /\ half' = half
      /\ server' = server /\ txns' = txns /\ rs' = rs
      /\ aside' = aside /\ moments' = moments /\ before' = before
      /\ DOMAIN read = Pages => archive' = {arch} /\ bk' = NoBackup
      /\ DOMAIN read # Pages => archive' = archive /\ bk' = [bk EXCEPT !.file = read]
  BY <1>0 DEF Pack, files
<1>2. main \in Whole /\ archive = {} /\ rs.pc = "idle"
  BY <1>1 DEF TurnsInv
<1>3. /\ DOMAIN read = DOMAIN bk.file \union {p}
      /\ \A q \in DOMAIN read : read[q] = IF q = p THEN main[p] ELSE bk.file[q]
      /\ read = [q \in DOMAIN read |-> read[q]]
  BY DEF With
<1>4. /\ arch.counts = bk.counts /\ arch.digest = bk.digest /\ arch.file = read
      /\ arch.there = bk.there /\ arch.mid = bk.mid
  BY <1>0
<1> HIDE DEF read
<1>5. \A q \in Pages : main[q] \in Written /\ bk.there[q] \in Written
  BY <1>1, <1>2 DEF Whole, BackupInv
<1>6. Part(read) /\ \A q \in DOMAIN read : Leq(bk.there[q], read[q]) /\ Leq(read[q], main[q])
  <2>1. \A q \in DOMAIN bk.file :
          bk.file[q] \in Written /\ Leq(bk.there[q], bk.file[q]) /\ Leq(bk.file[q], main[q])
    BY <1>1 DEF BkTypes, Part, BackupInv
  <2>2. Leq(main[p], main[p]) /\ Leq(bk.there[p], main[p])
    BY <1>1, <1>5, LeqOrder DEF BackupInv
  <2> QED BY <1>3, <1>5, <2>1, <2>2 DEF BkTypes, Part
<1>7. Written' = Written /\ Whole' = Whole /\ Held' = Held
  BY <1>1 DEF Written, Whole, Held, Over
<1>8. DOMAIN None = {} /\ Part(None) /\ None \in [DOMAIN None -> 0..txns]
  BY DEF None, Part
<1>9. CheckpointInv'
  BY <1>1, <1>2 DEF CheckpointInv
<1>10. CASE DOMAIN read = Pages
  <2>1. bk' = [pc |-> "idle", counts |-> None, digest |-> None, file |-> None,
               there |-> None, mid |-> FALSE]
    BY <1>1, <1>10 DEF NoBackup
  <2>2. /\ bk'.pc = "idle" /\ bk'.counts = None /\ bk'.digest = None /\ bk'.file = None
        /\ bk' = [pc |-> bk'.pc, counts |-> bk'.counts, digest |-> bk'.digest, file |-> bk'.file,
                  there |-> bk'.there, mid |-> bk'.mid]
    BY <2>1
  <2>3. archive' = {arch}
    BY <1>1, <1>10
  <2>4. BkTypes'
    BY <1>1, <1>7, <1>8, <2>2 DEF BkTypes, Part
  <2>5. TurnsInv' /\ BackupInv' /\ QuietInv'
    BY <1>1, <1>2, <1>7, <2>2, <2>3 DEF TurnsInv, BackupInv, QuietInv
  <2>6. RestoreInv'
    BY <1>1, <1>2 DEF RestoreInv, VerifiedIsAMoment, FailureHasACause
  <2>7. ArchiveOK(arch)'
    <3>1. read \in Whole
      BY <1>6, <1>10 DEF Part, Whole
    <3>2. bk.digest \in Whole /\ bk.there \in Whole /\ bk.counts \in [Pages -> 0..txns]
          /\ (~bk.mid => bk.there \in moments)
      BY <1>1 DEF BackupInv, BkTypes
    <3>3. \A q \in Pages : Leq(bk.digest[q], bk.there[q]) /\ Leq(bk.there[q], read[q])
      BY <1>1, <1>6, <1>10 DEF BackupInv
    <3>4. \A q \in DOMAIN wal : Leq(read[q], wal[q])
      <4> SUFFICES ASSUME NEW q \in DOMAIN wal PROVE Leq(read[q], wal[q])
        OBVIOUS
      <4>1. q \in Pages /\ wal[q] \in Written /\ main[q] \in Written /\ read[q] \in Written
        BY <1>5, <3>1 DEF BkTypes, Part, Whole
      <4>2. Leq(read[q], main[q]) /\ Leq(main[q], wal[q])
        BY <1>2, <1>6, <1>10, <4>1 DEF CheckpointInv
      <4> QED BY <4>1, <4>2, LeqOrder
    <3>5. Quiet => bk.digest = read /\ ~bk.mid /\ \A q \in Pages : bk.counts[q] = read[q].rows
      <4> SUFFICES ASSUME Quiet
                   PROVE  bk.digest = read /\ ~bk.mid /\ \A q \in Pages : bk.counts[q] = read[q].rows
        OBVIOUS
      <4>1. /\ \A q \in Pages : bk.counts[q] = main[q].rows /\ bk.digest[q] = main[q]
            /\ \A q \in DOMAIN bk.file : bk.file[q] = main[q]
            /\ ~bk.mid
        BY <1>1, <3>2 DEF QuietInv, Whole
      <4>2. \A q \in Pages : read[q] = main[q]
        BY <1>3, <1>10, <4>1
      <4> QED BY <3>1, <3>2, <4>1, <4>2 DEF Whole
    <3>6. wal' = wal /\ moments' = moments /\ txns' = txns
      BY <1>1
    <3> QED BY <1>4, <1>7, <3>1, <3>2, <3>3, <3>4, <3>5, <3>6 DEF ArchiveOK, Quiet
  <2> QED BY <1>9, <2>3, <2>4, <2>5, <2>6, <2>7 DEF ArchiveInv
<1>11. CASE DOMAIN read # Pages
  <2>1. bk' = [pc |-> "packing", counts |-> bk.counts, digest |-> bk.digest, file |-> read,
               there |-> bk.there, mid |-> bk.mid]
    BY <1>1, <1>11 DEF BkTypes
  <2>2. /\ bk'.pc = "packing" /\ bk'.counts = bk.counts /\ bk'.digest = bk.digest /\ bk'.file = read
        /\ bk'.there = bk.there /\ bk'.mid = bk.mid
        /\ bk' = [pc |-> bk'.pc, counts |-> bk'.counts, digest |-> bk'.digest, file |-> bk'.file,
                  there |-> bk'.there, mid |-> bk'.mid]
    BY <2>1
  <2>3. archive' = archive
    BY <1>1, <1>11
  <2>4. BkTypes'
    BY <1>1, <1>6, <1>7, <2>2 DEF BkTypes, Part
  <2>5. TurnsInv' /\ ArchiveInv' /\ RestoreInv'
    BY <1>1, <1>2, <1>7, <2>3 DEF TurnsInv, ArchiveInv, RestoreInv, VerifiedIsAMoment, FailureHasACause
  <2>6. BackupInv'
    BY <1>1, <1>6, <1>7, <2>2 DEF BackupInv
  <2>7. QuietInv'
    BY <1>1, <1>3, <2>2 DEF QuietInv, Quiet
  <2> QED BY <1>9, <2>4, <2>5, <2>6, <2>7
<1> QED BY <1>10, <1>11

LEMMA DropBackupKeepsInv ==
  ASSUME BkInv, DropBackup
  PROVE  BkInv'
<1> USE DEF BkInv
<1>1. /\ main' = main /\ wal' = wal /\ ck' = ck /\ half' = half
      /\ server' = server /\ txns' = txns /\ rs' = rs /\ archive' = archive
      /\ aside' = aside /\ moments' = moments /\ before' = before /\ bk.pc # "idle"
  BY DEF DropBackup, files
<1>2. bk' = [pc |-> "idle", counts |-> None, digest |-> None, file |-> None,
             there |-> None, mid |-> FALSE]
  BY DEF DropBackup, NoBackup
<1>3. /\ bk'.pc = "idle" /\ bk'.counts = None /\ bk'.digest = None /\ bk'.file = None
      /\ bk' = [pc |-> bk'.pc, counts |-> bk'.counts, digest |-> bk'.digest, file |-> bk'.file,
                there |-> bk'.there, mid |-> bk'.mid]
  BY <1>2
<1>4. DOMAIN None = {} /\ Part(None) /\ None \in [DOMAIN None -> 0..txns]
  BY DEF None, Part
<1>5. Written' = Written /\ Whole' = Whole
  BY <1>1 DEF Written, Whole
<1>6. BkTypes'
  BY <1>1, <1>3, <1>4, <1>5 DEF BkTypes, Part
<1>7. TurnsInv' /\ CheckpointInv' /\ ArchiveInv' /\ RestoreInv'
  BY <1>1, <1>3, <1>5 DEF TurnsInv, CheckpointInv, ArchiveInv, ArchiveOK, Quiet, RestoreInv,
     VerifiedIsAMoment, FailureHasACause
<1> QED BY <1>3, <1>6, <1>7 DEF BackupInv, QuietInv

\* A restore finds no server and no backup, and notes what the database holds.
LEMMA StartRestoreKeepsInv ==
  ASSUME BkInv, NEW verify \in BOOLEAN, StartRestore(verify)
  PROVE  BkInv'
<1> USE DEF BkInv
<1>1. /\ bk.pc = "idle" /\ ~server /\ archive # {} /\ rs.pc = "idle"
      /\ main' = main /\ wal' = wal /\ ck' = ck /\ half' = half
      /\ server' = server /\ txns' = txns /\ bk' = bk /\ archive' = archive
      /\ aside' = aside /\ moments' = moments
      /\ rs' = [pc |-> "staged", verify |-> verify]
      /\ before' = [held |-> Held, wal |-> wal]
  BY DEF StartRestore, files
<1>2. main \in Whole
  BY <1>1 DEF TurnsInv
<1>3. Written' = Written /\ Whole' = Whole
  BY <1>1 DEF Written, Whole
<1>4. rs'.pc = "staged" /\ before'.held = Held /\ before'.wal = wal
  BY <1>1
<1>5. BkTypes' /\ TurnsInv' /\ CheckpointInv'
  BY <1>1, <1>2, <1>3, <1>4 DEF BkTypes, Part, TurnsInv, CheckpointInv
<1>6. BackupInv' /\ QuietInv' /\ ArchiveInv'
  BY <1>1, <1>3 DEF BackupInv, QuietInv, ArchiveInv, ArchiveOK, Quiet
<1>7. RestoreInv'
  BY <1>1, <1>2, <1>4, HeldIsWhole DEF RestoreInv, VerifiedIsAMoment, FailureHasACause
<1> QED BY <1>5, <1>6, <1>7

\* The main file goes aside, the archive's copy takes its place.
LEMMA InstallKeepsInv ==
  ASSUME BkInv, MoveAside \/ Install
  PROVE  BkInv'
<1> USE DEF BkInv
<1>1. /\ wal' = wal /\ ck' = ck /\ half' = half
      /\ server' = server /\ txns' = txns /\ bk' = bk /\ archive' = archive
      /\ moments' = moments /\ before' = before
  BY DEF MoveAside, Install
<1>2. rs.pc \in {"staged", "moved"}
  BY DEF MoveAside, Install
<1>3. bk.pc = "idle" /\ ~server /\ archive # {} /\ ck.todo = {} /\ ck = NoCheckpoint
  BY <1>2 DEF TurnsInv, CheckpointInv
<1>4. Written' = Written /\ Whole' = Whole
  BY <1>1 DEF Written, Whole
<1>5. CheckpointInv'
  <2>1. ck'.todo = {} /\ ck'.frames = None /\ DOMAIN None = {}
    BY <1>1, <1>3 DEF NoCheckpoint, None
  <2> QED BY <1>1, <1>3, <2>1 DEF CheckpointInv
<1>6. BackupInv' /\ QuietInv' /\ ArchiveInv'
  BY <1>1, <1>3, <1>4 DEF BackupInv, QuietInv, ArchiveInv, ArchiveOK, Quiet
<1>7. CASE MoveAside
  <2>1. rs.pc = "staged" /\ main' = Missing /\ aside' = aside \union {main}
        /\ rs' = [pc |-> "moved", verify |-> rs.verify]
    BY <1>7 DEF MoveAside, BkTypes
  <2>2. rs'.pc = "moved" /\ main \in Whole
    BY <2>1 DEF TurnsInv
  <2>3. BkTypes' /\ TurnsInv'
    BY <1>1, <1>3, <1>4, <2>1, <2>2 DEF BkTypes, Part, TurnsInv
  <2>4. RestoreInv'
    BY <1>1, <2>1, <2>2 DEF RestoreInv, VerifiedIsAMoment, FailureHasACause
  <2> QED BY <1>5, <1>6, <2>3, <2>4
<1>8. CASE Install
  <2>1. PICK a \in archive : main' = a.file
    BY <1>8 DEF Install
  <2>2. rs.pc = "moved" /\ aside' = aside /\ rs' = [pc |-> "installed", verify |-> rs.verify]
    BY <1>8 DEF Install, BkTypes
  <2>3. rs'.pc = "installed" /\ main' \in Whole
    BY <2>1, <2>2 DEF ArchiveInv, ArchiveOK
  <2>4. BkTypes' /\ TurnsInv'
    BY <1>1, <1>3, <1>4, <2>2, <2>3 DEF BkTypes, Part, TurnsInv
  <2>5. RestoreInv'
    BY <1>1, <2>1, <2>2, <2>3 DEF RestoreInv, TurnsInv, VerifiedIsAMoment, FailureHasACause
  <2> QED BY <1>5, <1>6, <2>4, <2>5
<1> QED BY <1>7, <1>8

\* Verification.  The digest is as old as the copy or older, and the copy older than what
\* a -wal file beside it holds: if the file that SQLite leaves has the digest again, all
\* that lies between them is the same, and was a moment if no checkpoint was half way.
LEMMA BkVerifyKeepsInv ==
  ASSUME BkInv, Verify
  PROVE  BkInv'
<1> USE DEF BkInv
<1>1. /\ rs.pc = "installed" /\ FoldWal
      /\ server' = server /\ txns' = txns /\ bk' = bk /\ archive' = archive /\ aside' = aside
      /\ moments' = moments /\ before' = before
  BY DEF Verify
<1>2. PICK a \in archive :
        \/ Matches(a, main') /\ rs' = [rs EXCEPT !.pc = "verified"]
        \/ (~Matches(a, main') \/ a.mid) /\ rs' = [rs EXCEPT !.pc = "failed"]
  BY DEF Verify
<1>3. bk.pc = "idle" /\ ~server /\ archive # {} /\ ck.todo = {} /\ main \in Whole
  BY <1>1 DEF TurnsInv
<1>4. /\ main' = Held /\ wal' = None /\ half' = FALSE /\ ck' = ck
      /\ Written' = Written /\ Whole' = Whole /\ main' \in Whole
      /\ Part(wal)' /\ Part(ck.frames)' /\ DOMAIN wal' = {} /\ CheckpointInv'
      /\ wal = None => main' = main
  BY <1>1, <1>3, FoldWalFacts
<1>5. main = a.file /\ ArchiveOK(a)
  BY <1>1, <1>2 DEF RestoreInv, ArchiveInv
<1>6. /\ rs' = [pc |-> rs'.pc, verify |-> rs.verify] /\ rs'.pc \in {"verified", "failed"}
      /\ rs'.pc = "verified" => Matches(a, main')
      /\ rs'.pc = "failed" => ~Matches(a, main') \/ a.mid
  <2>1. CASE rs' = [rs EXCEPT !.pc = "verified"] /\ Matches(a, main')
    <3>1. rs' = [pc |-> "verified", verify |-> rs.verify]
      BY <2>1 DEF BkTypes
    <3> QED BY <2>1, <3>1
  <2>2. CASE rs' = [rs EXCEPT !.pc = "failed"] /\ (~Matches(a, main') \/ a.mid)
    <3>1. rs' = [pc |-> "failed", verify |-> rs.verify]
      BY <2>2 DEF BkTypes
    <3> QED BY <2>2, <3>1
  <2> QED BY <1>2, <2>1, <2>2
<1>7. BkTypes'
  <2>1. rs' \in [pc : {"idle", "staged", "moved", "installed", "verified", "failed"}, verify : BOOLEAN]
    BY <1>6 DEF BkTypes
  <2>2. Part(bk.digest)' /\ Part(bk.file)'
    BY <1>1, <1>4 DEF BkTypes, Part
  <2> QED BY <1>1, <1>4, <2>1, <2>2 DEF BkTypes
<1>8. TurnsInv'
  BY <1>1, <1>3, <1>4, <1>6 DEF TurnsInv
<1>9. BackupInv' /\ QuietInv'
  BY <1>1, <1>3 DEF BackupInv, QuietInv
<1>10. ArchiveInv'
  BY <1>1, <1>4 DEF ArchiveInv, ArchiveOK, Quiet
<1>11. VerifiedIsAMoment'
  <2> SUFFICES ASSUME rs'.pc = "verified", ~a.mid PROVE main' \in moments
    BY <1>1, <1>2 DEF VerifiedIsAMoment
  <2>1. main' = a.digest
    BY <1>6 DEF Matches
  <2>2. \A p \in Pages : a.digest[p] = a.there[p]
    <3> SUFFICES ASSUME NEW p \in Pages PROVE a.digest[p] = a.there[p]
      OBVIOUS
    <3>1. a.digest[p] \in Written /\ a.there[p] \in Written /\ a.file[p] \in Written
      BY <1>5 DEF ArchiveOK, Whole
    <3>2. Leq(a.digest[p], a.there[p]) /\ Leq(a.there[p], a.file[p])
      BY <1>5 DEF ArchiveOK
    <3>3. Leq(a.file[p], main'[p])
      <4>1. CASE p \in DOMAIN wal
        BY <1>3, <1>4, <1>5, <4>1, HeldIsWhole DEF ArchiveOK
      <4>2. CASE p \notin DOMAIN wal
        <5>1. main'[p] = a.file[p]
          BY <1>3, <1>4, <1>5, <4>2, HeldIsWhole
        <5> QED BY <3>1, <5>1, LeqOrder
      <4> QED BY <4>1, <4>2
    <3>4. Leq(a.there[p], a.digest[p])
      BY <2>1, <3>1, <3>2, <3>3, LeqOrder
    <3> QED BY <3>1, <3>2, <3>4, LeqOrder
  <2>3. a.digest = a.there
    BY <1>5, <2>2 DEF ArchiveOK, Whole
  <2> QED BY <1>5, <2>1, <2>3 DEF ArchiveOK
<1>12. FailureHasACause'
  <2> SUFFICES ASSUME before.wal = None, Quiet PROVE rs'.pc # "failed"
    BY <1>1 DEF FailureHasACause, Quiet
  <2>1. main' = a.file
    BY <1>1, <1>4, <1>5 DEF RestoreInv
  <2>2. /\ a.digest = a.file /\ ~a.mid /\ a.counts \in [Pages -> 0..txns]
        /\ \A p \in Pages : a.counts[p] = a.file[p].rows
    BY <1>5 DEF ArchiveOK
  <2>3. [p \in Pages |-> main'[p].rows] = a.counts
    BY <2>1, <2>2
  <2> QED BY <1>6, <2>1, <2>2, <2>3 DEF Matches
<1>13. RestoreInv'
  BY <1>1, <1>4, <1>6, <1>11, <1>12 DEF RestoreInv
<1> QED BY <1>4, <1>7, <1>8, <1>9, <1>10, <1>13

\* After a restore there is a main file.
LEMMA EndRestoreKeepsInv ==
  ASSUME BkInv, EndRestore
  PROVE  BkInv'
<1> USE DEF BkInv
<1>1. /\ rs.pc # "idle" /\ wal' = wal /\ ck' = ck /\ half' = half
      /\ server' = server /\ txns' = txns /\ bk' = bk /\ archive' = archive /\ moments' = moments
      /\ aside' = {} /\ main' \in aside \union {main} /\ main' # Missing
      /\ rs' = [pc |-> "idle", verify |-> TRUE]
  BY DEF EndRestore, NoRestore
<1>2. bk.pc = "idle" /\ ~server /\ archive # {} /\ ck.todo = {} /\ ck = NoCheckpoint
  BY <1>1 DEF TurnsInv, CheckpointInv
<1>3. Written' = Written /\ Whole' = Whole /\ main' \in Whole /\ rs'.pc = "idle"
  BY <1>1 DEF BkTypes, Written, Whole
<1>4. BkTypes' /\ TurnsInv'
  BY <1>1, <1>2, <1>3 DEF BkTypes, Part, TurnsInv
<1>5. CheckpointInv'
  <2>1. ck'.todo = {} /\ ck'.frames = None /\ DOMAIN None = {}
    BY <1>1, <1>2 DEF NoCheckpoint, None
  <2> QED BY <1>1, <1>2, <2>1 DEF CheckpointInv
<1>6. BackupInv' /\ QuietInv' /\ ArchiveInv' /\ RestoreInv'
  BY <1>1, <1>2, <1>3 DEF BackupInv, QuietInv, ArchiveInv, ArchiveOK, Quiet, RestoreInv,
     VerifiedIsAMoment, FailureHasACause
<1> QED BY <1>4, <1>5, <1>6

\* Every step of a backup, a restore, a writer, a checkpoint and a crash.
LEMMA BkStepInv == BkInv /\ [BkNext]_bkVars => BkInv'
<1> SUFFICES ASSUME BkInv, [BkNext]_bkVars PROVE BkInv' OBVIOUS
<1>1. CASE UNCHANGED bkVars
  BY <1>1 DEF bkVars, BkInv, BkTypes, Part, Written, Whole, TurnsInv, CheckpointInv, BackupInv,
     Held, Over, QuietInv, Quiet, ArchiveInv, ArchiveOK, RestoreInv, VerifiedIsAMoment, FailureHasACause
<1>2. CASE BkNext
  BY <1>2, ServerKeepsInv, WritePageKeepsInv, BkCommitKeepsInv, StartBackupKeepsInv, CountKeepsInv,
     CloseCountKeepsInv, HashKeepsInv, PackKeepsInv, DropBackupKeepsInv, StartRestoreKeepsInv,
     InstallKeepsInv, BkVerifyKeepsInv, EndRestoreKeepsInv DEF BkNext
<1> QED BY <1>1, <1>2

\* The inductive invariant is at least the one of the runs.
LEMMA BkInvSafe == BkInv => BackupSafety
<1> SUFFICES ASSUME BkInv PROVE BackupSafety OBVIOUS
<1>1. Written \subseteq PageStates
  BY BkAssumption DEF BkInv, BkTypes, Written, PageStates
<1>2. Whole \subseteq Images
  BY <1>1 DEF Whole, Images
<1>3. BkTypeOK
  <2>1. \A p \in DOMAIN wal : wal[p] \in PageStates
    BY <1>1 DEF BkInv, BkTypes, Part
  <2>2. \A a \in archive : a.file \in Images
    BY <1>2 DEF BkInv, ArchiveInv, ArchiveOK
  <2> QED BY <1>2, <2>1, <2>2 DEF BkInv, BkTypes, Part, CheckpointInv, BkTypeOK
<1>4. OperatorStateIsKept
  BY DEF BkInv, RestoreInv, OperatorStateIsKept
<1> QED BY <1>3, <1>4 DEF BkInv, RestoreInv, BackupSafety

\* BackupSafety (backup, restore): a verified restore brings back what the database held
\* at one moment of its backup, unless a checkpoint had been left half way; one that fails
\* has a cause; and what the database held before is in the file or aside.
THEOREM BackupsAreSafe == BkSpec => []BackupSafety
<1> QED BY BkInitInv, BkStepInv, BkInvSafe, PTL DEF BkSpec

------------------------------------------------------------------------------
(* ----------------------------- SQLite gate ------------------------------ *)

------------------------------------------------------------------------------
FillRecs ==
    [pc : {"idle", "checked", "memory", "claim", "done"}, todo : SUBSET Rows, seen : Nat,
     snap : SUBSET Rows, start : SUBSET Rows, ok : BOOLEAN]

\* Who holds which gate; without a second gate the registry knows all of them, and
\* a backfill that found none has the connection for itself.
ConnInv ==
    /\ registry \subseteq live /\ live \subseteq made /\ made \subseteq Gates
    /\ \A g, h \in registry : g = h
    /\ thr \in [Threads -> [pc : {"idle", "wait", "inside"}, gate : Gates \union {"none"}]]
    /\ \A t \in Threads : thr[t].pc # "idle" => thr[t].gate \in live
    /\ \A t, u \in Threads :
         thr[t].pc = "inside" /\ thr[u].pc = "inside" /\ thr[t].gate = thr[u].gate => t = u
    /\ "two gates" \notin strange => registry = live
    /\ {"two gates", "gated late"} \intersect strange = {} /\ bf.pc \in {"checked", "memory", "claim"} => live = {}

\* The rows of r's kind that are older than r and arrived before it.
Elders(r) == {s \in OfKind(corpus, r[1]) : s[2] < r[2] /\ s[3] < r[3]}

\* What the SELECT that is open has delivered so far.
Delivered == OfKind(bf.snap, bf.pc) \ bf.todo

\* What the backfill has seen of the corpus, which stands still from its first INSERT on.
FillInv ==
    /\ bf \in FillRecs
    /\ IsFiniteSet(corpus) /\ corpus \subseteq Rows
    /\ mapped \subseteq corpus /\ fresh \subseteq corpus \ mapped
    /\ \A s \in corpus : s[3] <= Cardinality(corpus)
    /\ bf.seen > 0 => corpus = bf.snap
    /\ bf.pc = "idle" => fresh = {} /\ bf.seen = 0 /\ (bf.ok => bf.start \subseteq mapped)
    /\ bf.pc = "checked" => fresh = {} /\ bf.seen = 0 /\ ~bf.ok
    /\ Scanning => /\ bf.start \subseteq bf.snap /\ bf.snap \subseteq corpus
                   /\ bf.todo \subseteq OfKind(bf.snap, bf.pc)
                   /\ bf.start \intersect Delivered \subseteq mapped \union fresh
                   /\ Cardinality(Delivered) <= bf.seen
    /\ bf.pc = "claim" => OfKind(bf.start, "memory") \subseteq mapped \union fresh
    /\ bf.pc = "done" /\ bf.ok => bf.start \subseteq mapped \union fresh
    /\ \A r \in mapped \union fresh : Cardinality(Elders(r)) < BatchLimit

\* The newest version is in the table; a builder that b has not met was done before b
\* began, with an older version.
IndexInv ==
    /\ bld \in [Builders -> [pc : {"idle", "build", "built"}, version : Nat, met : SUBSET Builders]]
    /\ DOMAIN versions \subseteq Nat
    /\ \E m \in {0} \union DOMAIN versions : \A w \in DOMAIN versions : w <= m
    /\ \A b, c \in Builders :
         Building(b) /\ c # b /\ bld[c].pc # "idle" =>
           b \in bld[c].met \/ (bld[c].pc = "built" /\ bld[c].version < bld[b].version)
    /\ RebuildsAreKept

GateInv == ConnInv /\ FillInv /\ IndexInv

\* A SELECT delivers the rows oldest first.
LEMMA OldestIsFirst ==
    ASSUME bf.todo \in SUBSET Rows, bf.todo # {}
    PROVE  Oldest \in bf.todo /\ \A s \in bf.todo : Oldest[2] <= s[2]
<1> DEFINE Ages == {r[2] : r \in bf.todo}
<1>1. Ages \in SUBSET Nat /\ Ages # {}
  <2>1. \A r \in bf.todo : r[2] \in Nat
    BY GateAssumption DEF Rows
  <2> QED BY <2>1
<1>2. PICK m \in Ages : \A k \in Ages : m <= k
  <2> HIDE DEF Ages
  <2> QED BY <1>1, LeastElement
<1>3. PICK r \in bf.todo : r[2] = m
  BY <1>2
<1>4. \A s \in bf.todo : r[2] <= s[2]
  BY <1>2, <1>3
<1> QED BY <1>4 DEF Oldest

\* The id of a new version is beyond every version there is.
LEMMA NewestIsLast ==
    ASSUME IndexInv
    PROVE  Newest \in Nat /\ \A w \in DOMAIN versions : w <= Newest
<1> DEFINE S == {0} \union DOMAIN versions
           Last(m) == \A w \in DOMAIN versions : w <= m
<1>1. S \subseteq Nat /\ \E m \in S : Last(m)
  <2>1. DOMAIN versions \subseteq Nat /\ \E m \in {0} \union DOMAIN versions : \A w \in DOMAIN versions : w <= m
    BY DEF IndexInv
  <2> QED BY <2>1
<1> HIDE DEF S
<1>2. (CHOOSE m \in S : Last(m)) \in S /\ Last(CHOOSE m \in S : Last(m))
  BY <1>1
<1> QED BY <1>1, <1>2 DEF Newest, S

\* No thread holds the connection, nothing is scanned or built.
LEMMA GateInitInv == GateInit => GateInv
<1> SUFFICES ASSUME GateInit PROVE GateInv OBVIOUS
<1> USE DEF GateInit, UseInit, IndexInit
<1>1. ConnInv
  BY DEF ConnInv, IdleBackfill
<1>2. FillInv
  <2>1. IdleBackfill \in FillRecs
    BY DEF IdleBackfill, FillRecs
  <2>2. IsFiniteSet({})
    BY FS_EmptySet
  <2> QED BY <2>1, <2>2 DEF FillInv, IdleBackfill, Scanning
<1>3. IndexInv
  <2>1. DOMAIN versions = {}
    OBVIOUS
  <2> QED BY <2>1 DEF IndexInv, RebuildsAreKept, Building
<1> QED BY <1>1, <1>2, <1>3 DEF GateInv

(* ------------------------- the connection's users ---------------------- *)

\* The threads of the connection gate keep its invariant.
LEMMA ConnStepInv ==
    ASSUME ConnInv, bf \in FillRecs, [GateNext \/ IndexNext]_gateVars PROVE ConnInv'
<1> USE DEF ConnInv, FillRecs
<1>0. \A u, v \in Threads :
        thr[u].pc = "inside" /\ thr[v].pc = "inside" /\ thr[u].gate = thr[v].gate => u = v
  OBVIOUS
<1>1. CASE UNCHANGED <<useVars, bf, strange>>
  BY <1>1 DEF useVars
<1>2. ASSUME NEW g \in Gates, MakeGate(g) PROVE ConnInv'
  <2>1. /\ registry' = {g} /\ live' = live \union {g} /\ made' = made \union {g}
        /\ thr' = thr /\ bf' = bf /\ strange \subseteq strange'
        /\ live # {} => "two gates" \in strange'
        /\ bf.pc \in {"checked", "memory", "claim"} => "gated late" \in strange'
    BY <1>2 DEF MakeGate, bfVars, Scanning, Kinds
  <2> QED BY <2>1
<1>3. ASSUME NEW g \in Gates, CollectGate(g) PROVE ConnInv'
  BY <1>3 DEF CollectGate, bfVars
<1>4. ASSUME NEW t \in Threads, NEW g \in Gates, Ask(t, g) PROVE ConnInv'
  <2>1. /\ thr' \in [Threads -> [pc : {"idle", "wait", "inside"}, gate : Gates \union {"none"}]]
        /\ thr'[t].pc = "wait" /\ thr'[t].gate = g /\ g \in live
        /\ \A u \in Threads \ {t} : thr'[u] = thr[u]
    BY <1>4 DEF Ask
  <2>2. UNCHANGED <<made, live, registry, bf, strange>>
    BY <1>4 DEF Ask, bfVars
  <2>3. \A u \in Threads : thr'[u].pc # "idle" => thr'[u].gate \in live
    BY <2>1
  <2>4. \A u, v \in Threads :
          thr'[u].pc = "inside" /\ thr'[v].pc = "inside" /\ thr'[u].gate = thr'[v].gate => u = v
    <3>1. \A u \in Threads : thr'[u].pc = "inside" => thr'[u] = thr[u]
      BY <2>1
    <3> HIDE DEF ConnInv
    <3> QED BY <1>0, <3>1
  <2> QED BY <2>1, <2>2, <2>3, <2>4
<1>5. ASSUME NEW t \in Threads, Enter(t) PROVE ConnInv'
  <2>1. /\ thr' \in [Threads -> [pc : {"idle", "wait", "inside"}, gate : Gates \union {"none"}]]
        /\ thr[t].pc = "wait" /\ thr'[t].pc = "inside" /\ thr'[t].gate = thr[t].gate
        /\ \A u \in Threads \ {t} : thr'[u] = thr[u]
        /\ \A u \in Threads : thr[u].pc = "inside" => thr[u].gate # thr[t].gate
    <3>1. thr[t].pc = "wait" /\ thr' = [thr EXCEPT ![t].pc = "inside"]
      BY <1>5 DEF Enter
    <3>2. \A u \in Threads : ~(thr[u].pc = "inside" /\ thr[u].gate = thr[t].gate)
      BY <1>5 DEF Enter, Holder
    <3> QED BY <3>1, <3>2
  <2>2. UNCHANGED <<made, live, registry, bf, strange>>
    BY <1>5 DEF Enter, bfVars
  <2>3. \A u \in Threads : thr'[u].pc # "idle" => thr'[u].gate \in live
    BY <2>1
  <2>4. \A u, v \in Threads :
          thr'[u].pc = "inside" /\ thr'[v].pc = "inside" /\ thr'[u].gate = thr'[v].gate => u = v
    <3> SUFFICES ASSUME NEW u \in Threads, NEW v \in Threads, u # v,
                        thr'[u].pc = "inside", thr'[v].pc = "inside"
                 PROVE  thr'[u].gate # thr'[v].gate
      OBVIOUS
    <3> HIDE DEF ConnInv
    <3>0. /\ thr'[t].gate = thr[t].gate
          /\ \A w \in Threads : w # t /\ thr'[w].pc = "inside" =>
               thr'[w].gate = thr[w].gate /\ thr[w].pc = "inside" /\ thr[w].gate # thr[t].gate
      <4>1. thr'[t].gate = thr[t].gate
        BY <2>1
      <4>2. ASSUME NEW w \in Threads, w # t, thr'[w].pc = "inside"
            PROVE  thr'[w].gate = thr[w].gate /\ thr[w].pc = "inside" /\ thr[w].gate # thr[t].gate
        <5>1. thr'[w] = thr[w]
          BY <2>1, <4>2
        <5>2. thr[w].pc = "inside"
          BY <4>2, <5>1
        <5> QED BY <2>1, <5>1, <5>2
      <4> QED BY <4>1, <4>2
    <3>1. CASE u = t BY <3>0, <3>1
    <3>2. CASE v = t BY <3>0, <3>2
    <3>3. CASE u # t /\ v # t BY <1>0, <3>0, <3>3
    <3> QED BY <3>1, <3>2, <3>3
  <2> QED BY <2>1, <2>2, <2>3, <2>4
<1>6. ASSUME NEW t \in Threads, Leave(t) PROVE ConnInv'
  <2>1. /\ thr' \in [Threads -> [pc : {"idle", "wait", "inside"}, gate : Gates \union {"none"}]]
        /\ thr'[t].pc = "idle"
        /\ \A u \in Threads \ {t} : thr'[u] = thr[u]
    BY <1>6 DEF Leave
  <2>2. UNCHANGED <<made, live, registry, bf, strange>>
    BY <1>6 DEF Leave, bfVars
  <2>3. \A u \in Threads : thr'[u].pc # "idle" => thr'[u].gate \in live
    BY <2>1
  <2>4. \A u, v \in Threads :
          thr'[u].pc = "inside" /\ thr'[v].pc = "inside" /\ thr'[u].gate = thr'[v].gate => u = v
    <3>1. \A u \in Threads : thr'[u].pc = "inside" => thr'[u] = thr[u]
      BY <2>1
    <3> HIDE DEF ConnInv
    <3> QED BY <1>0, <3>1
  <2> QED BY <2>1, <2>2, <2>3, <2>4
<1>7. CASE CheckGate
  <2>1. bf'.pc = "checked" /\ registry = {} /\ UNCHANGED <<useVars, strange>>
    <3>1. bf'.pc = "checked"
      BY <1>7 DEF CheckGate, IdleBackfill
    <3> QED BY <1>7, <3>1 DEF CheckGate, is_connection_gated
  <2> QED BY <2>1 DEF useVars
<1>8. CASE StartScan \/ ScanRow \/ EndScan \/ CommitScan \/ LoseScan \/ AddRow
  <2>1. UNCHANGED <<useVars, strange>>
    BY <1>8 DEF StartScan, ScanRow, EndScan, CommitScan, LoseScan, AddRow
  <2>2. bf'.pc \in {"checked", "memory", "claim"} => bf.pc \in {"checked", "memory", "claim"}
    <3>1. CASE StartScan \/ ScanRow
      BY <3>1 DEF StartScan, ScanRow, ReadRows, Scanning
    <3>2. CASE EndScan \/ CommitScan \/ LoseScan
      <4>1. bf'.pc \in {"done", "idle"}
        <5>1. CASE EndScan BY <5>1 DEF EndScan
        <5>2. CASE CommitScan BY <5>2 DEF CommitScan, IdleBackfill
        <5>3. CASE LoseScan BY <5>3 DEF LoseScan, IdleBackfill
        <5> QED BY <3>2, <5>1, <5>2, <5>3
      <4> QED BY <4>1
    <3>3. CASE AddRow
      BY <3>3 DEF AddRow
    <3> QED BY <1>8, <3>1, <3>2, <3>3
  <2> QED BY <2>1, <2>2 DEF useVars
<1>9. ASSUME NEW b \in Builders, ReadNewest(b) \/ WriteVersion(b) PROVE ConnInv'
  <2>1. UNCHANGED <<useVars, bf, strange>>
    BY <1>9 DEF ReadNewest, WriteVersion, bfVars
  <2> QED BY <1>1, <2>1
<1>10. CASE UNCHANGED gateVars
  BY <1>1, <1>10 DEF gateVars, useVars
<1> QED
  BY <1>2, <1>3, <1>4, <1>5, <1>6, <1>7, <1>8, <1>9, <1>10 DEF GateNext, IndexNext

(* ------------------------------ the backfill --------------------------- *)

\* The parts of FillInv that say nothing of the position.
LEMMA FillTypes ==
    ASSUME FillInv
    PROVE  /\ bf \in FillRecs /\ corpus \in SUBSET Rows
           /\ IsFiniteSet(corpus) /\ Cardinality(corpus) \in Nat
           /\ \A s \in Rows : s[1] \in Kinds /\ s[2] \in Nat /\ s[3] \in Nat
<1>1. bf \in FillRecs /\ corpus \in SUBSET Rows /\ IsFiniteSet(corpus)
  BY DEF FillInv
<1>2. \A s \in Rows : s[1] \in Kinds /\ s[2] \in Nat /\ s[3] \in Nat
  BY GateAssumption DEF Rows
<1> QED BY <1>1, <1>2, FS_CardinalityType

\* A SELECT covers the rows that are there; the scan of memories is over before the
\* one of claims.
LEMMA StartKeepsFill ==
    ASSUME FillInv, StartScan PROVE FillInv'
<1> USE DEF Kinds
<1>1. /\ UNCHANGED <<corpus, mapped, fresh>> /\ bf.pc \in {"checked", "memory"}
      /\ bf.pc = "memory" => bf.todo = {}
  BY DEF StartScan
<1>2. /\ bf \in FillRecs /\ corpus \in SUBSET Rows /\ \A s \in Rows : s[1] \in Kinds
      /\ bf.seen \in Nat /\ mapped \subseteq corpus
  BY FillTypes DEF FillRecs, FillInv
<1>3. ASSUME NEW kind \in Kinds, ReadRows(kind)
      PROVE  /\ bf' \in FillRecs /\ bf'.pc = kind /\ bf'.seen = bf.seen /\ bf'.snap = corpus
             /\ bf'.todo = OfKind(corpus, kind)
             /\ bf'.start = IF kind = "memory" THEN corpus ELSE bf.start
             /\ Delivered' = {}
  <2> DEFINE t == OfKind(corpus, kind)
             n == IF kind = "memory" THEN corpus ELSE bf.start
  <2>1. t \in SUBSET Rows /\ n \in SUBSET Rows
    BY <1>2 DEF OfKind, FillRecs
  <2>2. bf' = [bf EXCEPT !.pc = kind, !.todo = t, !.snap = corpus, !.start = n]
    BY <1>3 DEF ReadRows
  <2> HIDE DEF t, n
  <2>3. /\ bf' \in FillRecs /\ bf'.pc = kind /\ bf'.seen = bf.seen /\ bf'.snap = corpus
        /\ bf'.todo = t /\ bf'.start = n
    BY <1>2, <2>1, <2>2 DEF FillRecs
  <2>4. Delivered' = {}
    BY <2>3 DEF Delivered, t
  <2> QED BY <2>3, <2>4 DEF t, n
<1>4. \A r : Elders(r)' = Elders(r)
  BY <1>1 DEF Elders
<1>5. Cardinality({}) = 0
  BY FS_EmptySet
<1>6. CASE bf.pc = "checked" /\ ReadRows("memory")
  <2>1. /\ bf' \in FillRecs /\ bf'.pc = "memory" /\ bf'.seen = bf.seen /\ bf'.snap = corpus
        /\ bf'.todo = OfKind(corpus, "memory") /\ bf'.start = corpus /\ Delivered' = {}
    BY <1>3, <1>6
  <2>2. fresh = {} /\ bf.seen = 0
    BY <1>6 DEF FillInv
  <2> QED BY <1>1, <1>2, <1>4, <1>5, <2>1, <2>2 DEF FillInv, Scanning
<1>7. CASE bf.pc = "memory" /\ bf.todo = {} /\ ReadRows("claim")
  <2>1. /\ bf' \in FillRecs /\ bf'.pc = "claim" /\ bf'.seen = bf.seen /\ bf'.snap = corpus
        /\ bf'.todo = OfKind(corpus, "claim") /\ bf'.start = bf.start /\ Delivered' = {}
    BY <1>3, <1>7
  <2>2. bf.start \subseteq bf.snap /\ bf.snap \subseteq corpus
        /\ bf.start \intersect Delivered \subseteq mapped \union fresh
    BY <1>7 DEF FillInv, Scanning
  <2>3. OfKind(bf.start, "memory") \subseteq mapped \union fresh
    BY <1>7, <2>2 DEF Delivered, OfKind
  <2>4. bf.start \subseteq corpus
    BY <2>2
  <2> QED BY <1>1, <1>2, <1>4, <1>5, <2>1, <2>3, <2>4 DEF FillInv, Scanning
<1> QED BY <1>6, <1>7 DEF StartScan

\* A scanned row is accounted for, and no older row is left behind.
LEMMA ScanKeepsFill ==
    ASSUME FillInv, ScanRow PROVE FillInv'
<1> USE DEF Kinds
<1> DEFINE r == Oldest
<1>1. /\ Scanning /\ bf.pc \in Kinds /\ bf.todo # {} /\ bf.seen < BatchLimit
      /\ bf' = [bf EXCEPT !.todo = @ \ {r}, !.seen = @ + 1]
      /\ fresh' = fresh \union ({r} \ mapped)
      /\ UNCHANGED <<corpus, mapped>>
  BY DEF ScanRow, Scanning
<1>2. /\ bf \in FillRecs /\ corpus \in SUBSET Rows /\ bf.seen \in Nat
      /\ mapped \subseteq corpus /\ fresh \subseteq corpus \ mapped
      /\ bf.todo \subseteq OfKind(bf.snap, bf.pc)
      /\ bf.start \subseteq bf.snap
      /\ bf.start \intersect Delivered \subseteq mapped \union fresh
      /\ Cardinality(Delivered) <= bf.seen
      /\ IsFiniteSet(corpus)
  BY <1>1, FillTypes DEF FillInv, FillRecs
<1>3. corpus = bf.snap
  <2>1. bf.seen = 0 => corpus = bf.snap
    BY DEF ScanRow
  <2>2. bf.seen > 0 => corpus = bf.snap
    BY DEF FillInv
  <2> QED BY <1>2, <2>1, <2>2
<1>4. r \in bf.todo /\ (\A s \in bf.todo : r[2] <= s[2]) /\ r \in corpus /\ r[1] = bf.pc
  <2>1. bf.todo \in SUBSET Rows
    BY <1>2 DEF FillRecs
  <2>2. r \in bf.todo /\ \A s \in bf.todo : r[2] <= s[2]
    BY <1>1, <2>1, OldestIsFirst
  <2> QED BY <1>2, <1>3, <2>2 DEF OfKind
<1> HIDE DEF r
<1>5. /\ bf' \in FillRecs /\ bf'.pc = bf.pc /\ bf'.todo = bf.todo \ {r} /\ bf'.seen = bf.seen + 1
      /\ bf'.snap = bf.snap /\ bf'.start = bf.start /\ bf'.ok = bf.ok
  <2> DEFINE t == bf.todo \ {r}
             n == bf.seen + 1
  <2>1. t \in SUBSET Rows /\ n \in Nat
    BY <1>2 DEF FillRecs
  <2>2. bf' = [bf EXCEPT !.todo = t, !.seen = n]
    BY <1>1
  <2> HIDE DEF t, n
  <2>3. /\ bf' \in FillRecs /\ bf'.pc = bf.pc /\ bf'.todo = t /\ bf'.seen = n
        /\ bf'.snap = bf.snap /\ bf'.start = bf.start /\ bf'.ok = bf.ok
    BY <1>2, <2>1, <2>2 DEF FillRecs
  <2> QED BY <2>3 DEF t, n
<1>6. /\ Delivered' = Delivered \union {r} /\ r \notin Delivered
      /\ Delivered \subseteq corpus /\ IsFiniteSet(Delivered)
  <2>1. Delivered' = Delivered \union {r} /\ r \notin Delivered /\ Delivered \subseteq corpus
    BY <1>2, <1>3, <1>4, <1>5 DEF Delivered, OfKind
  <2> QED BY <1>2, <2>1, FS_Subset
<1>7. Cardinality(Delivered') <= bf'.seen
  <2>1. Cardinality(Delivered') = Cardinality(Delivered) + 1 /\ Cardinality(Delivered) \in Nat
    BY <1>6, FS_AddElement, FS_CardinalityType
  <2> QED BY <1>2, <1>5, <2>1
<1>8. Elders(r) \subseteq Delivered
  <2> SUFFICES ASSUME NEW s \in OfKind(corpus, bf.pc), s[2] < r[2], s \in bf.todo PROVE FALSE
    BY <1>3, <1>4 DEF Elders, Delivered
  <2>1. s[2] \in Nat /\ r[2] \in Nat
    BY <1>2, <1>4, FillTypes DEF OfKind
  <2> QED BY <1>4, <2>1
<1>9. Cardinality(Elders(r)) < BatchLimit
  <2>1. Cardinality(Elders(r)) <= Cardinality(Delivered) /\ IsFiniteSet(Elders(r))
    BY <1>6, <1>8, FS_Subset
  <2>2. Cardinality(Elders(r)) \in Nat /\ Cardinality(Delivered) \in Nat
    BY <1>6, <2>1, FS_CardinalityType
  <2> QED BY <1>1, <1>2, <2>1, <2>2, GateAssumption
<1>10. \A x \in mapped' \union fresh' : Cardinality(Elders(x))' < BatchLimit
  <2>1. \A x : Elders(x)' = Elders(x)
    BY <1>1 DEF Elders
  <2>2. \A x \in mapped' \union fresh' : x = r \/ x \in mapped \union fresh
    BY <1>1
  <2> QED BY <1>9, <2>1, <2>2 DEF FillInv
<1>11. /\ bf'.start \intersect Delivered' \subseteq mapped' \union fresh'
       /\ mapped \union fresh \subseteq mapped' \union fresh'
       /\ bf'.todo \subseteq OfKind(bf'.snap, bf'.pc)
  BY <1>1, <1>2, <1>5, <1>6
<1>12. bf'.pc = "claim" => OfKind(bf'.start, "memory") \subseteq mapped' \union fresh'
  BY <1>5, <1>11 DEF FillInv
<1>13. fresh' \subseteq corpus' \ mapped' /\ mapped' \subseteq corpus'
  BY <1>1, <1>2, <1>4
<1>14. bf'.pc \in {"memory", "claim"} /\ corpus' = bf'.snap /\ bf'.start \subseteq bf'.snap
  BY <1>1, <1>2, <1>3, <1>5
<1>15. \A s \in corpus' : s[3] <= Cardinality(corpus')
  BY <1>1 DEF FillInv
<1>16. corpus' \subseteq Rows /\ IsFiniteSet(corpus')
  BY <1>1, <1>2
<1> QED BY <1>5, <1>7, <1>10, <1>11, <1>12, <1>13, <1>14, <1>15, <1>16 DEF FillInv

\* A row that is added arrived after every other, whatever its created_at.
LEMMA AddKeepsFill ==
    ASSUME FillInv, AddRow PROVE FillInv'
<1> DEFINE n == Cardinality(corpus)
<1>1. PICK kind \in Kinds, stamp \in 1..MaxRows : corpus' = corpus \union {<<kind, stamp, n + 1>>}
  BY DEF AddRow
<1> DEFINE x == <<kind, stamp, n + 1>>
<1>2. bf.seen = 0 /\ n < MaxRows /\ UNCHANGED <<bf, mapped, fresh>>
  BY DEF AddRow
<1>3. bf \in FillRecs /\ corpus \in SUBSET Rows /\ IsFiniteSet(corpus) /\ n \in Nat
  BY FillTypes
<1>4. x \in Rows /\ x[3] = n + 1
  BY <1>1, <1>2, <1>3, GateAssumption DEF Rows
<1>5. x \notin corpus /\ \A s \in corpus : s[3] <= n /\ s[3] \in Nat
  BY <1>3, <1>4, FillTypes DEF FillInv
<1>6. Cardinality(corpus') = n + 1 /\ IsFiniteSet(corpus')
  BY <1>1, <1>3, <1>5, FS_AddElement
<1>7. \A s \in corpus' : s[3] <= Cardinality(corpus')
  BY <1>1, <1>3, <1>4, <1>5, <1>6
<1>8. \A r \in mapped \union fresh : Elders(r)' = Elders(r)
  <2> SUFFICES ASSUME NEW r \in corpus PROVE Elders(r)' = Elders(r)
    BY DEF FillInv
  <2>1. ~(x[3] < r[3])
    BY <1>3, <1>4, <1>5
  <2> QED BY <1>1, <2>1 DEF Elders, OfKind
<1>9. \A r \in mapped' \union fresh' : Cardinality(Elders(r))' < BatchLimit
  BY <1>2, <1>8 DEF FillInv
<1>10. corpus' \subseteq Rows /\ corpus \subseteq corpus'
  BY <1>1, <1>3, <1>4
<1>11. Delivered' = Delivered /\ (Scanning' <=> Scanning)
  BY <1>2 DEF Delivered, Scanning
<1>12. ~(bf'.seen > 0)
  BY <1>2
<1> HIDE DEF n, x
<1> QED BY <1>2, <1>6, <1>7, <1>9, <1>10, <1>11, <1>12 DEF FillInv

\* The backfill keeps its invariant.
LEMMA FillStepInv ==
    ASSUME FillInv, [GateNext \/ IndexNext]_gateVars PROVE FillInv'
<1>0. UNCHANGED corpus => \A r : Elders(r)' = Elders(r)
  BY DEF Elders
<1>1. CASE UNCHANGED bfVars
  BY <1>0, <1>1 DEF bfVars, FillInv, Delivered, Scanning
<1>2. CASE CheckGate
  <2>1. /\ bf' \in FillRecs /\ bf'.pc = "checked" /\ bf'.seen = 0 /\ ~bf'.ok
        /\ bf.pc = "idle" /\ UNCHANGED <<corpus, mapped, fresh>>
    BY <1>2, FillTypes DEF CheckGate, FillRecs, IdleBackfill
  <2> QED BY <1>0, <2>1 DEF FillInv, Scanning, Kinds
<1>3. CASE EndScan
  <2>1. /\ bf' \in FillRecs /\ bf'.pc = "done" /\ (bf'.ok <=> bf.todo = {})
        /\ bf'.seen = bf.seen /\ bf'.snap = bf.snap /\ bf'.start = bf.start
        /\ UNCHANGED <<corpus, mapped, fresh>>
    BY <1>3, FillTypes DEF EndScan, FillRecs
  <2>2. bf.todo = {} => bf.start \subseteq mapped \union fresh
    <3> SUFFICES ASSUME bf.todo = {} PROVE bf.start \subseteq mapped \union fresh
      OBVIOUS
    <3>1. bf.pc = "claim"
      BY <1>3 DEF EndScan
    <3>2. /\ bf.start \subseteq bf.snap /\ bf.start \subseteq Rows
          /\ bf.start \intersect Delivered \subseteq mapped \union fresh
          /\ OfKind(bf.start, "memory") \subseteq mapped \union fresh
      BY <3>1, FillTypes DEF FillInv, Scanning, FillRecs
    <3>3. \A s \in bf.start : s[1] \in {"memory", "claim"}
      BY <3>2, FillTypes DEF Kinds
    <3>4. bf.start = OfKind(bf.start, "memory") \union (bf.start \intersect Delivered)
      BY <3>1, <3>2, <3>3 DEF Delivered, OfKind
    <3> QED BY <3>2, <3>4
  <2> QED BY <1>0, <2>1, <2>2 DEF FillInv, Scanning, Kinds
<1>4. CASE CommitScan
  <2>1. /\ bf' \in FillRecs /\ bf'.pc = "idle" /\ bf'.ok = bf.ok /\ bf'.seen = 0
        /\ bf'.start = bf.start /\ bf.pc = "done"
        /\ mapped' = mapped \union fresh /\ fresh' = {} /\ corpus' = corpus
    BY <1>4, FillTypes DEF CommitScan, FillRecs, IdleBackfill
  <2>2. mapped' \union fresh' = mapped \union fresh /\ mapped' \subseteq corpus
    BY <2>1 DEF FillInv
  <2> QED BY <1>0, <2>1, <2>2 DEF FillInv, Scanning, Kinds
<1>5. CASE LoseScan
  <2>1. /\ bf' \in FillRecs /\ bf'.pc = "idle" /\ ~bf'.ok /\ bf'.seen = 0
        /\ mapped' = mapped /\ fresh' = {} /\ corpus' = corpus
    BY <1>5, FillTypes DEF LoseScan, FillRecs, IdleBackfill
  <2> QED BY <1>0, <2>1 DEF FillInv, Scanning, Kinds
<1>6. CASE UNCHANGED gateVars
  BY <1>1, <1>6 DEF gateVars, bfVars
<1>7. ASSUME NEW g \in Gates, MakeGate(g) \/ CollectGate(g) PROVE FillInv'
  BY <1>1, <1>7 DEF MakeGate, CollectGate
<1>8. ASSUME NEW t \in Threads, Enter(t) \/ Leave(t) \/ \E g \in Gates : Ask(t, g) PROVE FillInv'
  BY <1>1, <1>8 DEF Enter, Leave, Ask
<1>9. ASSUME NEW b \in Builders, ReadNewest(b) \/ WriteVersion(b) PROVE FillInv'
  BY <1>1, <1>9 DEF ReadNewest, WriteVersion
<1> QED
  BY <1>2, <1>3, <1>4, <1>5, <1>6, <1>7, <1>8, <1>9, StartKeepsFill, ScanKeepsFill, AddKeepsFill
     DEF GateNext, IndexNext

(* ------------------------------- the index ----------------------------- *)

\* The index builders keep theirs.
LEMMA IndexStepInv ==
    ASSUME IndexInv, [GateNext \/ IndexNext]_gateVars PROVE IndexInv'
<1> DEFINE BldRecs == [pc : {"idle", "build", "built"}, version : Nat, met : SUBSET Builders]
<1>0. bld \in [Builders -> BldRecs] /\ DOMAIN versions \subseteq Nat
  BY DEF IndexInv
<1>1. CASE UNCHANGED idxVars
  BY <1>1 DEF idxVars, IndexInv, RebuildsAreKept, Building
<1>2. ASSUME NEW b \in Builders, ReadNewest(b) PROVE IndexInv'
  <2>1. bld[b].pc = "idle" /\ StartBuild(b, Newest + 1) /\ versions' = versions
    BY <1>2 DEF ReadNewest
  <2>2. Newest \in Nat /\ \A w \in DOMAIN versions : w <= Newest /\ w \in Nat
    BY NewestIsLast DEF IndexInv
  <2>3. ~Building(b)
    BY <2>1 DEF Building
  <2>4. /\ bld'[b] = [pc |-> "build", version |-> Newest + 1, met |-> {d \in Builders : Building(d)}]
        /\ \A c \in Builders \ {b} :
             bld'[c] = IF Building(c) THEN [bld[c] EXCEPT !.met = @ \union {b}] ELSE bld[c]
        /\ DOMAIN bld' = Builders
        /\ bld' = [c \in Builders |-> bld'[c]]
    BY <2>1 DEF StartBuild
  <2>5. /\ bld'[b] \in BldRecs /\ bld'[b].pc = "build" /\ bld'[b].version = Newest + 1
        /\ bld'[b].met = {d \in Builders : Building(d)}
    BY <2>2, <2>4
  <2>6. ASSUME NEW c \in Builders \ {b}
        PROVE  /\ bld'[c] \in BldRecs /\ bld'[c].pc = bld[c].pc /\ bld'[c].version = bld[c].version
               /\ bld[c].met \subseteq bld'[c].met /\ (Building(c) => b \in bld'[c].met)
    <3>1. bld[c] \in BldRecs
      BY <1>0
    <3>2. CASE Building(c)
      <4>1. bld'[c] = [bld[c] EXCEPT !.met = bld[c].met \union {b}]
        BY <2>4, <3>2
      <4> QED BY <3>1, <4>1
    <3>3. CASE ~Building(c)
      BY <2>4, <3>1, <3>3
    <3> QED BY <3>2, <3>3
  <2>7. bld' \in [Builders -> BldRecs]
    BY <2>4, <2>5, <2>6
  <2>8. ASSUME NEW a \in Builders, NEW c \in Builders, Building(a)', c # a, bld'[c].pc # "idle"
        PROVE  a \in bld'[c].met \/ (bld'[c].pc = "built" /\ bld'[c].version < bld'[a].version)
    <3>1. CASE c = b
      <4>1. Building(a)
        BY <2>6, <2>8, <3>1 DEF Building
      <4> QED BY <2>5, <3>1, <4>1
    <3>2. CASE c # b /\ a # b
      <4>1. Building(a) /\ bld[c].pc # "idle"
        BY <2>6, <2>8, <3>2 DEF Building
      <4>2. a \in bld[c].met \/ (bld[c].pc = "built" /\ bld[c].version < bld[a].version)
        BY <2>8, <4>1 DEF IndexInv
      <4> QED BY <2>6, <3>2, <4>2
    <3>3. CASE c # b /\ a = b
      <4>1. CASE Building(c)
        BY <2>6, <3>3, <4>1
      <4>2. CASE ~Building(c)
        <5>1. bld[c].pc = "built" /\ bld'[c].pc = "built" /\ bld'[c].version = bld[c].version
          BY <1>0, <2>6, <2>8, <3>3, <4>2 DEF Building
        <5>2. bld[c].version \in DOMAIN versions
          BY <5>1 DEF IndexInv, RebuildsAreKept
        <5>3. bld[c].version < Newest + 1
          BY <2>2, <5>2
        <5> QED BY <2>5, <3>3, <5>1, <5>3
      <4> QED BY <4>1, <4>2
    <3> QED BY <3>1, <3>2, <3>3
  <2>9. RebuildsAreKept'
    <3> SUFFICES ASSUME NEW c \in Builders, bld'[c].pc = "built"
                 PROVE  /\ bld'[c].version \in DOMAIN versions
                        /\ versions[bld'[c].version] \in {c} \union bld'[c].met
      BY <2>1 DEF RebuildsAreKept
    <3>1. c # b
      BY <2>5
    <3>2. bld[c].pc = "built" /\ bld'[c].version = bld[c].version /\ bld[c].met \subseteq bld'[c].met
      BY <2>6, <3>1
    <3>3. bld[c].version \in DOMAIN versions /\ versions[bld[c].version] \in {c} \union bld[c].met
      BY <3>2 DEF IndexInv, RebuildsAreKept
    <3> QED BY <3>2, <3>3
  <2>10. \E m \in {0} \union DOMAIN versions' : \A w \in DOMAIN versions' : w <= m
    BY <2>1 DEF IndexInv
  <2>11. DOMAIN versions' \subseteq Nat
    BY <1>0, <2>1
  <2> QED BY <2>7, <2>8, <2>9, <2>10, <2>11 DEF IndexInv
<1>3. ASSUME NEW b \in Builders, WriteVersion(b) PROVE IndexInv'
  <2> DEFINE v == bld[b].version
  <2>1. /\ Building(b) /\ bld' = [bld EXCEPT ![b].pc = "built"]
        /\ versions' = [w \in DOMAIN versions \union {v} |-> IF w = v THEN b ELSE versions[w]]
    BY <1>3 DEF WriteVersion
  <2>2. /\ v \in Nat /\ bld[b].pc = "build"
        /\ bld' \in [Builders -> BldRecs]
        /\ bld'[b].pc = "built" /\ bld'[b].version = v /\ bld'[b].met = bld[b].met
        /\ \A c \in Builders \ {b} : bld'[c] = bld[c]
    BY <1>0, <2>1 DEF Building
  <2> HIDE DEF v
  <2>3. DOMAIN versions' = DOMAIN versions \union {v} /\ DOMAIN versions' \subseteq Nat
    BY <1>0, <2>1, <2>2
  <2>4. \E m \in {0} \union DOMAIN versions' : \A w \in DOMAIN versions' : w <= m
    <3>1. PICK m \in {0} \union DOMAIN versions : \A w \in DOMAIN versions : w <= m
      BY DEF IndexInv
    <3>2. m \in Nat /\ \A w \in DOMAIN versions : w \in Nat
      BY <1>0
    <3>3. CASE m >= v BY <2>2, <2>3, <3>1, <3>2, <3>3
    <3>4. CASE ~(m >= v) BY <2>2, <2>3, <3>1, <3>2, <3>4
    <3> QED BY <3>3, <3>4
  <2>5. ASSUME NEW a \in Builders, NEW c \in Builders, Building(a)', c # a, bld'[c].pc # "idle"
        PROVE  a \in bld'[c].met \/ (bld'[c].pc = "built" /\ bld'[c].version < bld'[a].version)
    <3>1. a # b /\ Building(a) /\ bld'[a] = bld[a]
      BY <2>2, <2>5 DEF Building
    <3>2. bld[c].pc # "idle"
      BY <2>2, <2>5
    <3>3. a \in bld[c].met \/ (bld[c].pc = "built" /\ bld[c].version < bld[a].version)
      BY <2>5, <3>1, <3>2 DEF IndexInv
    <3> QED BY <2>2, <3>1, <3>3 DEF v
  <2>6. RebuildsAreKept'
    <3> SUFFICES ASSUME NEW c \in Builders, bld'[c].pc = "built"
                 PROVE  /\ bld'[c].version \in DOMAIN versions'
                        /\ versions'[bld'[c].version] \in {c} \union bld'[c].met
      BY DEF RebuildsAreKept
    <3>1. CASE c = b
      BY <2>1, <2>2, <2>3, <3>1
    <3>2. CASE c # b
      <4>1. /\ bld'[c] = bld[c] /\ bld[c].version \in DOMAIN versions
            /\ versions[bld[c].version] \in {c} \union bld[c].met
        BY <2>2, <3>2 DEF IndexInv, RebuildsAreKept
      <4>2. CASE bld[c].version # v
        BY <2>1, <2>3, <4>1, <4>2
      <4>3. CASE bld[c].version = v
        <5>1. b \in bld[c].met \/ bld[c].version < bld[b].version
          BY <2>1, <2>2, <3>2, <4>1 DEF IndexInv
        <5>2. b \in bld[c].met
          BY <2>2, <4>3, <5>1 DEF v
        <5> QED BY <2>1, <2>3, <4>1, <4>3, <5>2
      <4> QED BY <4>2, <4>3
    <3> QED BY <3>1, <3>2
  <2> QED BY <2>2, <2>3, <2>4, <2>5, <2>6 DEF IndexInv
<1>4. CASE GateNext
  <2>1. UNCHANGED idxVars
    <3>1. ASSUME NEW g \in Gates, MakeGate(g) \/ CollectGate(g) PROVE UNCHANGED idxVars
      BY <3>1 DEF MakeGate, CollectGate
    <3>2. ASSUME NEW t \in Threads, Enter(t) \/ Leave(t) \/ \E g \in Gates : Ask(t, g)
          PROVE UNCHANGED idxVars
      BY <3>2 DEF Enter, Leave, Ask
    <3>3. CASE CheckGate \/ StartScan \/ ScanRow \/ EndScan
      BY <3>3 DEF CheckGate, StartScan, ScanRow, EndScan
    <3>4. CASE CommitScan \/ LoseScan \/ AddRow
      BY <3>4 DEF CommitScan, LoseScan, AddRow
    <3> QED BY <1>4, <3>1, <3>2, <3>3, <3>4 DEF GateNext
  <2> QED BY <1>1, <2>1
<1>5. CASE UNCHANGED gateVars
  BY <1>1, <1>5 DEF gateVars, idxVars
<1> QED BY <1>2, <1>3, <1>4, <1>5 DEF IndexNext

\* Every step keeps the invariant.
LEMMA GateStepInv == GateInv /\ [GateNext \/ IndexNext]_gateVars => GateInv'
BY ConnStepInv, FillStepInv, IndexStepInv, FillTypes DEF GateInv

\* A count of none or one is not two.
LEMMA NotTwo == \A n \in {0, 1} : ~(n > 1)
OBVIOUS

\* Who is inside while there was no second and no late gate.
LEMMA UsedAlone ==
    ASSUME GateInv PROVE ConnectionUsedAlone
<1> SUFFICES ASSUME {"two gates", "gated late"} \intersect strange = {}
             PROVE  ~(Cardinality(UsersOfConn) > 1)
  BY DEF ConnectionUsedAlone
<1>1. \A t, u \in Threads : thr[t].pc = "inside" /\ thr[u].pc = "inside" => t = u
  <2>1. /\ \A g, h \in live : g = h
        /\ \A t \in Threads : thr[t].pc # "idle" => thr[t].gate \in live
    BY DEF GateInv, ConnInv
  <2>2. \A t, u \in Threads :
          thr[t].pc = "inside" /\ thr[u].pc = "inside" /\ thr[t].gate = thr[u].gate => t = u
    BY DEF GateInv, ConnInv
  <2> QED BY <2>1, <2>2
<1>2. Scanning => \A t \in Threads : thr[t].pc # "inside"
  <2>1. Scanning => live = {}
    BY DEF GateInv, ConnInv, Scanning, Kinds
  <2>2. \A t \in Threads : thr[t].pc # "idle" => thr[t].gate \in live
    BY DEF GateInv, ConnInv
  <2> QED BY <2>1, <2>2
<1>3. UsersOfConn = {} \/ \E x : UsersOfConn = {x}
  <2>1. CASE Scanning
    BY <1>2, <2>1 DEF UsersOfConn
  <2>2. CASE ~Scanning /\ \E t \in Threads : thr[t].pc = "inside"
    <3>1. PICK t \in Threads : thr[t].pc = "inside" BY <2>2
    <3>2. UsersOfConn = {t} BY <1>1, <2>2, <3>1 DEF UsersOfConn
    <3> QED BY <3>2
  <2>3. CASE ~Scanning /\ \A t \in Threads : thr[t].pc # "inside"
    BY <2>3 DEF UsersOfConn
  <2> QED BY <2>1, <2>2, <2>3
<1>4. Cardinality(UsersOfConn) = 0 \/ Cardinality(UsersOfConn) = 1
  BY <1>3, FS_EmptySet, FS_Singleton
<1> QED BY <1>4, NotTwo

\* The inductive invariant is at least the one of the runs.
LEMMA BuildersSafe ==
    ASSUME GateInv PROVE BuilderSafety
<1>1. GateTypeOK
  <2>1. registry = {} \/ \E g : registry = {g}
    <3>1. \A g, h \in registry : g = h
      BY DEF GateInv, ConnInv
    <3>2. ASSUME NEW g \in registry PROVE registry = {g}
      BY <3>1
    <3> QED BY <3>2
  <2>2. Cardinality(registry) <= 1
    BY <2>1, FS_EmptySet, FS_Singleton
  <2>3. \A t \in Threads : thr[t].pc \in {"idle", "wait", "inside"}
    BY DEF GateInv, ConnInv
  <2>4. bf.pc \in {"idle", "checked", "done"} \union Kinds
    BY FillTypes DEF GateInv, FillRecs, Kinds
  <2> QED BY <2>2, <2>3, <2>4 DEF GateInv, ConnInv, FillInv, GateTypeOK
<1>2. CompleteBackfillMapsAll
  BY DEF GateInv, FillInv, CompleteBackfillMapsAll
<1>3. BackfillStopsAtLimit
  BY DEF GateInv, FillInv, BackfillStopsAtLimit, Elders
<1> QED BY <1>1, <1>2, <1>3 DEF GateInv, IndexInv, BuilderSafety

\* ConnectionUsedAlone (SQLiteGate, is_connection_gated): two threads are inside the
\* connection only if it got a second gate, or one after the backfill had looked.
THEOREM ConnectionIsUsedAlone == GateSpec => []ConnectionUsedAlone
<1> QED BY GateInitInv, GateStepInv, UsedAlone, PTL DEF GateSpec

\* BuilderSafety (backfill_crosswalk, rebuild_index): a complete backfill mapped every
\* row that was there when it began, none reaches beyond the limit, and only a rebuild
\* that met this one overwrites the version it returned.
THEOREM BuildersAreSafe == GateSpec => []BuilderSafety
<1> QED BY GateInitInv, GateStepInv, BuildersSafe, PTL DEF GateSpec

------------------------------------------------------------------------------
(* ------------------------------- packages ------------------------------- *)

Stats == SUBSET (Files \X (0..MaxChanges))
Pairs == SUBSET (Files \X Subjects)
IndexRecs == [packages : Stats, entries : Pairs]
ReadRecs == [pc : ReadPcs, asks : SUBSET Subjects, stat : Stats, todo : SUBSET Files,
             open : SUBSET (Files \X Contents), entries : Pairs, got : Pairs]
IngestRecs == [pc : IngestPcs, file : Files \union {"none"}, holds : Contents \union {Gone},
               old : SUBSET IndexRecs, new : SUBSET IndexRecs]

\* The identities in P know the package f as it is now.
Listed(P, f) == f \in OnDisk /\ <<f, disk[f].ver>> \in P

\* The entries E say of f what its claims say, and no more.
TrueOf(E, f) == \A s \in Subjects : <<f, s>> \in E <=> s \in ClaimSubjects[disk[f].holds]

\* No identity is from the future; the ones still on disk stand for true entries
\* and for packages that verified.
GoodRec(i) ==
    /\ \A p \in i.packages : p[2] <= changes
    /\ \A f \in Files : Listed(i.packages, f) =>
         /\ overtaken \/ TrueOf(i.entries, f)
         /\ overtaken \/ mixed \/ disk[f].holds \in Verified

\* A cache file: absent or corrupt, or one such record.
GoodIndex(I) ==
    I \in SUBSET IndexRecs /\ (\A i, j \in I : i = j) /\ \A i \in I : GoodRec(i)

DiskInv ==
    /\ disk \in [Files -> [ver : 0..MaxChanges, holds : Contents \union {Gone}]]
    /\ changes \in 0..MaxChanges
    /\ \A f \in Files : disk[f].ver <= changes
    /\ overtaken \in BOOLEAN /\ mixed \in BOOLEAN

IngestInv ==
    /\ ing \in IngestRecs /\ audited \in SUBSET Contents
    /\ GoodIndex(index) /\ GoodIndex(ing.old) /\ GoodIndex(ing.new)
    /\ ing.pc # "idle" => ing.file \in Files
    /\ ing.pc = "unpack" => mixed \/ disk[ing.file].holds \in Trusted
    /\ ing.pc \in {"rows", "load", "merge"} =>
         /\ ing.holds \in Contents
         /\ mixed \/ ing.holds \in Trusted
         /\ overtaken \/ disk[ing.file].holds = ing.holds
    /\ AuditedWereTrusted

\* The packages that have not changed since r's read began.
Still(r) == stable[r] \intersect OnDisk

\* What a read that resolves knows of such a package f, and what its answer tells.
Known(r, f) ==
    /\ overtaken \/ TrueOf(rd[r].entries, f)
    /\ overtaken \/ mixed \/ disk[f].holds \in Verified

Told(r, f) ==
    /\ overtaken \/ \A s \in rd[r].asks : s \in ClaimSubjects[disk[f].holds] => <<f, s>> \in rd[r].got
    /\ overtaken \/ mixed \/ disk[f].holds \in Verified

\* What a read knows of the packages that stand still.
ReadInv(r) ==
    /\ rd[r].pc \in {"load", "scan", "save"} =>
         /\ \A p \in rd[r].stat : p[2] <= changes
         /\ \A f \in Files : Listed(rd[r].stat, f) <=> f \in Still(r)
    /\ rd[r].pc = "load" => rd[r].entries = {}
    /\ rd[r].pc \in {"load", "save", "resolve"} => rd[r].open = {}
    /\ rd[r].pc \in {"scan", "answer"} =>
         \A p \in rd[r].open : p[1] \in rd[r].todo
                               /\ (p[1] \in Still(r) => p[2] = disk[p[1]].holds)
    /\ rd[r].pc = "scan" =>
         \A f \in Still(r) :
            \/ f \in rd[r].todo /\ \A s \in Subjects : <<f, s>> \notin rd[r].entries
            \/ f \notin rd[r].todo /\ TrueOf(rd[r].entries, f) /\ disk[f].holds \in Verified
    /\ rd[r].pc = "save" =>
         \A f \in Still(r) : TrueOf(rd[r].entries, f) /\ disk[f].holds \in Verified
    /\ rd[r].pc = "resolve" =>
         \A f \in Still(r) : Known(r, f)
    /\ rd[r].pc = "answer" => \A f \in Still(r) : f \in rd[r].todo \/ Told(r, f)
    /\ rd[r].pc = "found" => \A f \in Still(r) : Told(r, f)

ShapeInv == rd \in [Readers -> ReadRecs] /\ stable \in [Readers -> SUBSET Files]

PkgInv == DiskInv /\ IngestInv /\ ShapeInv /\ \A r \in Readers : ReadInv(r)

\* A reader that has not begun has a record like any other.
LEMMA NoReadIsRead == NoRead \in ReadRecs /\ NoRead.pc = "idle"
BY DEF NoRead, ReadRecs, ReadPcs, Stats, Pairs

\* No package, no index, no read and no ingest.
LEMMA PkgInitInv == PkgInit => PkgInv
<1> SUFFICES ASSUME PkgInit PROVE PkgInv OBVIOUS
<1> USE DEF PkgInit
<1>1. DiskInv
  <2>1. 0 \in 0..MaxChanges
    BY ContentsAssumption
  <2>2. disk \in [Files -> [ver : 0..MaxChanges, holds : Contents \union {Gone}]]
    BY <2>1
  <2>3. \A f \in Files : disk[f].ver <= changes
    OBVIOUS
  <2>4. changes \in 0..MaxChanges /\ overtaken \in BOOLEAN /\ mixed \in BOOLEAN
    BY <2>1
  <2> HIDE DEF PkgInit
  <2> QED BY <2>2, <2>3, <2>4 DEF DiskInv
<1>2. GoodIndex({})
  BY DEF GoodIndex
<1>3. IngestInv
  <2>1. ing \in IngestRecs /\ ing.pc = "idle" /\ ing.old = {} /\ ing.new = {}
    BY DEF NoIngest, IngestRecs, IngestPcs
  <2> QED BY <1>2, <2>1 DEF IngestInv, AuditedWereTrusted
<1>4. ShapeInv
  BY NoReadIsRead DEF ShapeInv
<1>5. \A r \in Readers : ReadInv(r)
  BY NoReadIsRead DEF ReadInv
<1> QED BY <1>1, <1>3, <1>4, <1>5 DEF PkgInv

(* ------------------------------- the frame ----------------------------- *)

FsVars == <<disk, changes, overtaken, mixed>>

\* What is said of the disk stays true while no package changes.
LEMMA SameDisk ==
    ASSUME UNCHANGED FsVars
    PROVE  /\ DiskInv => DiskInv'
           /\ \A i : GoodRec(i)' <=> GoodRec(i)
           /\ \A P, f : Listed(P, f)' <=> Listed(P, f)
           /\ OnDisk' = OnDisk
<1> USE DEF FsVars
<1>1. DiskInv => DiskInv'
  BY DEF DiskInv
<1>2. OnDisk' = OnDisk
  BY DEF OnDisk
<1>3. \A P, f : Listed(P, f)' <=> Listed(P, f)
  BY <1>2 DEF Listed
<1>4. \A E, f : TrueOf(E, f)' <=> TrueOf(E, f)
  BY DEF TrueOf
<1>5. \A i : GoodRec(i)' <=> GoodRec(i)
  BY <1>3, <1>4 DEF GoodRec
<1> QED BY <1>1, <1>2, <1>3, <1>5

\* A read is not disturbed by a step that leaves it and the disk alone.
LEMMA OtherReads ==
    ASSUME NEW q \in Readers, ReadInv(q), rd'[q] = rd[q], stable'[q] = stable[q], UNCHANGED FsVars
    PROVE  ReadInv(q)'
<1>1. Still(q)' = Still(q)
  BY DEF Still, OnDisk, FsVars
<1>2. \A f : (Told(q, f)' <=> Told(q, f)) /\ (Known(q, f)' <=> Known(q, f))
  BY DEF Told, Known, TrueOf, FsVars
<1>3. \A f : /\ Listed(rd[q].stat, f)' <=> Listed(rd[q].stat, f)
             /\ TrueOf(rd[q].entries, f)' <=> TrueOf(rd[q].entries, f)
  BY DEF Listed, TrueOf, OnDisk, FsVars
<1> QED BY <1>1, <1>2, <1>3 DEF ReadInv, FsVars

\* Nor is an ingest.
LEMMA SameIngest ==
    ASSUME IngestInv, UNCHANGED FsVars, UNCHANGED <<ing, audited>>, GoodIndex(index)'
    PROVE  IngestInv'
<1>1. GoodIndex(ing.old)' /\ GoodIndex(ing.new)'
  BY SameDisk DEF IngestInv, GoodIndex
<1> QED BY <1>1 DEF IngestInv, AuditedWereTrusted, FsVars

\* Nor is the saved index.
LEMMA KeptIndex ==
    ASSUME GoodIndex(index), UNCHANGED FsVars, UNCHANGED index PROVE GoodIndex(index)'
BY SameDisk DEF GoodIndex

(* ---------------------------- the directory ---------------------------- *)

\* A package is replaced under readers and ingests in any state.
LEMMA ChangeKeepsInv ==
    ASSUME PkgInv, NEW g \in Files, NEW c \in Contents \union {Gone}, ChangeFile(g, c)
    PROVE  PkgInv'
<1> USE ContentsAssumption
<1>0. /\ changes < MaxChanges /\ changes' = changes + 1
      /\ disk' = [disk EXCEPT ![g] = [ver |-> changes + 1, holds |-> c]]
      /\ overtaken' = (overtaken \/ (ing.file = g /\ ing.pc \in {"rows", "load", "merge"}))
      /\ mixed' = (mixed \/ (ing.file = g /\ ing.pc \in {"trust", "unpack"}))
      /\ stable' = [r \in Readers |-> stable[r] \ {g}]
      /\ UNCHANGED <<index, rd, ing, audited>>
  BY DEF ChangeFile
<1>1. /\ DiskInv /\ IngestInv /\ ShapeInv /\ \A r \in Readers : ReadInv(r)
  BY DEF PkgInv
<1>2. /\ changes \in Nat /\ changes + 1 \in 0..MaxChanges /\ changes' \in Nat
      /\ (overtaken => overtaken') /\ (mixed => mixed')
      /\ disk'[g].ver = changes + 1
      /\ \A f \in Files \ {g} : disk'[f] = disk[f]
      /\ \A f \in Files : disk[f].ver \in Nat /\ disk[f].ver <= changes
  BY <1>0, <1>1 DEF DiskInv
<1>3. DiskInv'
  <2>1. disk' \in [Files -> [ver : 0..MaxChanges, holds : Contents \union {Gone}]]
    BY <1>0, <1>1, <1>2 DEF DiskInv
  <2>2. \A f \in Files : disk'[f].ver <= changes'
    BY <1>0, <1>2
  <2>3. overtaken' \in BOOLEAN /\ mixed' \in BOOLEAN
    BY <1>0, <1>1 DEF DiskInv
  <2> QED BY <1>0, <1>2, <2>1, <2>2, <2>3 DEF DiskInv
<1>4. \A f \in Files : f \in OnDisk' /\ f # g <=> f \in OnDisk /\ f # g
  BY <1>2 DEF OnDisk
<1>5. ASSUME NEW P \in Stats, \A p \in P : p[2] <= changes, NEW f \in Files
      PROVE  Listed(P, f)' <=> Listed(P, f) /\ f # g
  <2>1. <<g, changes + 1>> \notin P
    BY <1>2, <1>5
  <2>2. CASE f = g
    BY <1>2, <2>1, <2>2 DEF Listed
  <2>3. CASE f # g
    BY <1>2, <1>4, <2>3 DEF Listed
  <2> QED BY <2>2, <2>3
<1>6. \A i \in IndexRecs : GoodRec(i) => GoodRec(i)'
  <2> SUFFICES ASSUME NEW i \in IndexRecs, GoodRec(i) PROVE GoodRec(i)' OBVIOUS
  <2>1. i.packages \in Stats /\ \A p \in i.packages : p[2] <= changes
    BY DEF GoodRec, IndexRecs
  <2>2. \A p \in i.packages : p[2] <= changes'
    <3> SUFFICES ASSUME NEW p \in i.packages PROVE p[2] <= changes + 1 BY <1>0
    <3>1. p[2] \in Nat BY <2>1 DEF Stats
    <3> QED BY <1>2, <2>1, <3>1
  <2>3. ASSUME NEW f \in Files, Listed(i.packages, f)'
        PROVE  /\ overtaken' \/ TrueOf(i.entries, f)'
               /\ overtaken' \/ mixed' \/ disk'[f].holds \in Verified
    <3>1. Listed(i.packages, f) /\ f # g
      BY <1>5, <2>1, <2>3
    <3>2. TrueOf(i.entries, f)' <=> TrueOf(i.entries, f)
      BY <1>2, <3>1 DEF TrueOf
    <3>3. /\ overtaken \/ TrueOf(i.entries, f)
          /\ overtaken \/ mixed \/ disk[f].holds \in Verified
      BY <3>1 DEF GoodRec
    <3>4. disk'[f] = disk[f]
      BY <1>2, <3>1
    <3>5. disk[f].holds \in Verified <=> disk'[f].holds \in Verified
      BY <3>4
    <3>6. (overtaken => overtaken') /\ (mixed => mixed')
      BY <1>2
    <3>7. overtaken' \/ TrueOf(i.entries, f)'
      BY <3>2, <3>3, <3>6
    <3>8. overtaken' \/ mixed' \/ disk'[f].holds \in Verified
      BY <3>3, <3>5, <3>6
    <3> QED BY <3>7, <3>8
  <2> QED BY <2>2, <2>3 DEF GoodRec
<1>7. IngestInv'
  <2>1. GoodIndex(index)' /\ GoodIndex(ing.old)' /\ GoodIndex(ing.new)'
    BY <1>0, <1>1, <1>6 DEF IngestInv, GoodIndex
  <2>2. ing.pc = "unpack" => mixed' \/ disk'[ing.file].holds \in Trusted
    BY <1>0, <1>1, <1>2 DEF IngestInv
  <2>3. ing.pc \in {"rows", "load", "merge"} => overtaken' \/ disk'[ing.file].holds = ing.holds
    BY <1>0, <1>1, <1>2 DEF IngestInv
  <2> QED BY <1>0, <1>1, <1>2, <2>1, <2>2, <2>3 DEF IngestInv, AuditedWereTrusted
<1>8. ASSUME NEW r \in Readers PROVE ReadInv(r)'
  <2> DEFINE x == rd[r]
  <2>1. ReadInv(r) /\ rd'[r] = x /\ x \in ReadRecs /\ stable'[r] = stable[r] \ {g} /\ stable[r] \in SUBSET Files
    BY <1>0, <1>1 DEF ShapeInv
  <2>2. Still(r)' = Still(r) \ {g} /\ Still(r) \subseteq Files
    BY <1>4, <2>1 DEF Still
  <2>3. \A f \in Still(r)' : f \in Still(r) /\ f # g /\ disk'[f] = disk[f] /\ f \in Files
    BY <1>2, <2>2
  <2>4. \A f \in Still(r)' : TrueOf(x.entries, f) => TrueOf(rd[r].entries, f)'
    BY <1>0, <2>3 DEF TrueOf
  <2>5. \A f \in Still(r)' : (Told(r, f) => Told(r, f)') /\ (Known(r, f) => Known(r, f)')
    BY <1>0, <1>2, <2>3, <2>4 DEF Told, Known
  <2>6. x.pc \in {"load", "scan", "save"} =>
          /\ \A p \in x.stat : p[2] <= changes'
          /\ \A f \in Files : Listed(rd[r].stat, f)' <=> f \in Still(r)'
    <3> SUFFICES ASSUME x.pc \in {"load", "scan", "save"}
                 PROVE  /\ \A p \in x.stat : p[2] <= changes'
                        /\ \A f \in Files : Listed(rd[r].stat, f)' <=> f \in Still(r)'
      OBVIOUS
    <3>1. /\ \A p \in x.stat : p[2] <= changes
          /\ \A f \in Files : Listed(x.stat, f) <=> f \in Still(r)
      BY <2>1 DEF ReadInv
    <3>2. x.stat \in Stats
      BY <2>1 DEF ReadRecs
    <3>3. \A p \in x.stat : p[2] <= changes'
      <4> SUFFICES ASSUME NEW p \in x.stat PROVE p[2] <= changes + 1 BY <1>0
      <4>1. p[2] \in Nat BY <3>2 DEF Stats
      <4> QED BY <1>2, <3>1, <4>1
    <3>4. \A f \in Files : Listed(rd[r].stat, f)' <=> Listed(x.stat, f) /\ f # g
      <4> SUFFICES ASSUME NEW f \in Files
                   PROVE  Listed(rd[r].stat, f)' <=> Listed(x.stat, f) /\ f # g
        OBVIOUS
      <4>1. <<g, changes + 1>> \notin x.stat
        BY <1>2, <3>1
      <4>2. CASE f = g
        BY <1>0, <1>2, <4>1, <4>2 DEF Listed
      <4>3. CASE f # g
        BY <1>0, <1>2, <1>4, <4>3 DEF Listed
      <4> QED BY <4>2, <4>3
    <3> QED BY <2>2, <3>1, <3>3, <3>4
  <2> QED BY <1>0, <1>2, <2>1, <2>3, <2>4, <2>5, <2>6 DEF ReadInv
<1>9. ShapeInv'
  BY <1>0, <1>1 DEF ShapeInv
<1> QED BY <1>3, <1>7, <1>8, <1>9 DEF PkgInv

(* --------------------------------- reads ------------------------------- *)

\* What a step of r alone leaves to show.
LEMMA ReadersApart ==
    ASSUME PkgInv, NEW r \in Readers, UNCHANGED FsVars, UNCHANGED <<ing, audited>>, ShapeInv',
           \A q \in Readers \ {r} : rd'[q] = rd[q] /\ stable'[q] = stable[q],
           GoodIndex(index)', ReadInv(r)'
    PROVE  PkgInv'
<1>1. \A q \in Readers : ReadInv(q)'
  BY OtherReads DEF PkgInv
<1>2. IngestInv'
  BY SameIngest DEF PkgInv
<1>3. DiskInv'
  BY SameDisk DEF PkgInv
<1> QED BY <1>1, <1>2, <1>3 DEF PkgInv

\* What the invariant says of one read.
LEMMA ReadTyped ==
    ASSUME PkgInv, NEW r \in Readers
    PROVE  /\ rd \in [Readers -> ReadRecs] /\ stable \in [Readers -> SUBSET Files]
           /\ rd[r] \in ReadRecs /\ Still(r) \subseteq OnDisk /\ OnDisk \subseteq Files
           /\ GoodIndex(index) /\ ReadInv(r)
           /\ \A f \in OnDisk : disk[f].holds \in Contents
<1>1. rd \in [Readers -> ReadRecs] /\ stable \in [Readers -> SUBSET Files] /\ GoodIndex(index) /\ ReadInv(r)
  BY DEF PkgInv, ShapeInv, IngestInv
<1>2. OnDisk \subseteq Files /\ \A f \in OnDisk : disk[f].holds \in Contents
  BY DEF PkgInv, DiskInv, OnDisk
<1> QED BY <1>1, <1>2 DEF Still

\* The identities taken from the directory are those of the packages there.
LEMMA CurrentAreListed ==
    ASSUME DiskInv
    PROVE  /\ CurrentPackages \in Stats
           /\ \A p \in CurrentPackages : p[2] <= changes
           /\ \A f \in Files : Listed(CurrentPackages, f) <=> f \in OnDisk
<1>1. /\ OnDisk \subseteq Files
      /\ \A f \in Files : disk[f].ver \in 0..MaxChanges /\ disk[f].ver <= changes
  BY DEF DiskInv, OnDisk
<1> QED BY <1>1 DEF CurrentPackages, Listed, Stats

\* A read begins with the packages that are there.
LEMMA StartKeepsInv ==
    ASSUME PkgInv, NEW r \in Readers,
           \/ \E S \in SUBSET Subjects \ {{}} : StartFreeText(r, S)
           \/ \E s \in Subjects : StartExact(r, s)
    PROVE  PkgInv'
<1>1. /\ stable' = [stable EXCEPT ![r] = Files]
      /\ UNCHANGED <<index, ing, audited>> /\ UNCHANGED FsVars
  BY DEF StartFreeText, StartExact, FsVars
<1>2. /\ CurrentPackages \in Stats /\ OnDisk \in SUBSET Files
      /\ \A p \in CurrentPackages : p[2] <= changes
      /\ \A f \in Files : Listed(CurrentPackages, f) <=> f \in OnDisk
  BY CurrentAreListed, ReadTyped DEF PkgInv
<1>3. \E x \in ReadRecs :
        /\ rd' = [rd EXCEPT ![r] = x] /\ x.entries = {} /\ x.open = {}
        /\ \/ x.pc = "load" /\ x.stat = CurrentPackages
           \/ x.pc = "answer" /\ x.todo = OnDisk
  <2>1. ASSUME NEW S \in SUBSET Subjects, StartFreeText(r, S)
        PROVE  \E x \in ReadRecs :
                 /\ rd' = [rd EXCEPT ![r] = x] /\ x.entries = {} /\ x.open = {}
                 /\ x.pc = "load" /\ x.stat = CurrentPackages
    <3> DEFINE x == [NoRead EXCEPT !.pc = "load", !.asks = S, !.stat = CurrentPackages]
    <3>1. x \in ReadRecs /\ x.entries = {} /\ x.open = {} /\ x.pc = "load" /\ x.stat = CurrentPackages
      BY <1>2, NoReadIsRead DEF ReadRecs, NoRead, ReadPcs
    <3>2. rd' = [rd EXCEPT ![r] = x]
      BY <2>1 DEF StartFreeText
    <3> HIDE DEF x
    <3> QED BY <3>1, <3>2
  <2>2. ASSUME NEW s \in Subjects, StartExact(r, s)
        PROVE  \E x \in ReadRecs :
                 /\ rd' = [rd EXCEPT ![r] = x] /\ x.entries = {} /\ x.open = {}
                 /\ x.pc = "answer" /\ x.todo = OnDisk
    <3> DEFINE x == [NoRead EXCEPT !.pc = "answer", !.asks = {s}, !.todo = OnDisk]
    <3>1. x \in ReadRecs /\ x.entries = {} /\ x.open = {} /\ x.pc = "answer" /\ x.todo = OnDisk
      BY <1>2, NoReadIsRead DEF ReadRecs, NoRead, ReadPcs
    <3>2. rd' = [rd EXCEPT ![r] = x]
      BY <2>2 DEF StartExact
    <3> HIDE DEF x
    <3> QED BY <3>1, <3>2
  <2> QED BY <2>1, <2>2
<1>4. PICK x \in ReadRecs :
        /\ rd' = [rd EXCEPT ![r] = x] /\ x.entries = {} /\ x.open = {}
        /\ \/ x.pc = "load" /\ x.stat = CurrentPackages
           \/ x.pc = "answer" /\ x.todo = OnDisk
  BY <1>3
<1>5. /\ rd'[r] = x /\ stable'[r] = Files /\ ShapeInv'
      /\ \A q \in Readers \ {r} : rd'[q] = rd[q] /\ stable'[q] = stable[q]
  BY <1>1, <1>4, ReadTyped DEF ShapeInv
<1>6. Still(r)' = OnDisk /\ changes' = changes
  BY <1>1, <1>2, <1>5, SameDisk DEF Still, FsVars
<1>7. \A f : Listed(rd[r].stat, f)' <=> Listed(x.stat, f)
  BY <1>1, <1>5, SameDisk DEF Listed, FsVars
<1>8. ReadInv(r)'
  BY <1>2, <1>4, <1>5, <1>6, <1>7 DEF ReadInv
<1> QED BY <1>1, <1>5, <1>8, KeptIndex, ReadTyped, ReadersApart

\* A finished read is forgotten.
LEMMA ReturnKeepsInv ==
    ASSUME PkgInv, NEW r \in Readers, Return(r) PROVE PkgInv'
<1>1. /\ rd' = [rd EXCEPT ![r] = NoRead] /\ stable' = [stable EXCEPT ![r] = Files]
      /\ UNCHANGED <<index, ing, audited>> /\ UNCHANGED FsVars
  BY DEF Return, FsVars
<1>2. /\ rd'[r] = NoRead /\ ShapeInv'
      /\ \A q \in Readers \ {r} : rd'[q] = rd[q] /\ stable'[q] = stable[q]
  BY <1>1, ReadTyped, NoReadIsRead DEF ShapeInv
<1>3. ReadInv(r)'
  BY <1>2, NoReadIsRead DEF ReadInv
<1> QED BY <1>1, <1>2, <1>3, KeptIndex, ReadTyped, ReadersApart

\* The steps within a read: r's record moves, and the index file at most.
LEMMA WithinRead ==
    ASSUME PkgInv, NEW r \in Readers, NEW x \in ReadRecs, ReadOnly, rd' = [rd EXCEPT ![r] = x]
    PROVE  /\ UNCHANGED FsVars /\ UNCHANGED <<ing, audited>> /\ ShapeInv' /\ rd'[r] = x
           /\ Still(r)' = Still(r) /\ OnDisk' = OnDisk
           /\ \A f : Listed(rd[r].stat, f)' <=> Listed(x.stat, f)
           /\ \A f : TrueOf(rd[r].entries, f)' <=> TrueOf(x.entries, f)
           /\ GoodIndex(index)' /\ ReadInv(r)' => PkgInv'
<1>1. /\ UNCHANGED FsVars /\ UNCHANGED <<ing, audited, stable>>
  BY DEF ReadOnly, FsVars
<1>2. /\ ShapeInv' /\ rd'[r] = x
      /\ \A q \in Readers \ {r} : rd'[q] = rd[q] /\ stable'[q] = stable[q]
  BY <1>1, ReadTyped DEF ShapeInv
<1>3. Still(r)' = Still(r) /\ OnDisk' = OnDisk
  BY <1>1, SameDisk DEF Still
<1>4. \A f : Listed(rd[r].stat, f)' <=> Listed(x.stat, f)
  BY <1>1, <1>2, <1>3 DEF Listed, FsVars
<1>5. \A f : TrueOf(rd[r].entries, f)' <=> TrueOf(x.entries, f)
  BY <1>1, <1>2 DEF TrueOf, FsVars
<1>6. GoodIndex(index)' /\ ReadInv(r)' => PkgInv'
  BY <1>1, <1>2, ReadersApart
<1> QED BY <1>1, <1>2, <1>3, <1>4, <1>5, <1>6

\* A step that changes no package changes no verdict on the changes either.
LEMMA SameVerdicts ==
    ASSUME UNCHANGED FsVars
    PROVE  /\ overtaken' = overtaken /\ mixed' = mixed /\ changes' = changes /\ disk' = disk
BY DEF FsVars

\* An index is used only for the very packages it was made from.
LEMMA UseIndexKeepsInv ==
    ASSUME PkgInv, NEW r \in Readers, UseIndex(r) PROVE PkgInv'
<1>1. /\ rd[r].pc = "load" /\ ReadOnly /\ index' = index
      /\ IF \E i \in index : i.packages = rd[r].stat
           THEN rd' = [rd EXCEPT ![r].pc = "resolve",
                                 ![r].entries = UNION {i.entries : i \in index}]
           ELSE rd' = [rd EXCEPT ![r].pc = "scan", ![r].todo = OnDisk]
  BY DEF UseIndex
<1>2. /\ rd[r] \in ReadRecs /\ rd \in [Readers -> ReadRecs] /\ OnDisk \in SUBSET Files
      /\ rd[r].entries = {} /\ rd[r].open = {} /\ Still(r) \subseteq Files
      /\ \A p \in rd[r].stat : p[2] <= changes
      /\ \A f \in Files : Listed(rd[r].stat, f) <=> f \in Still(r)
  BY <1>1, ReadTyped DEF ReadInv
<1>3. CASE \E i \in index : i.packages = rd[r].stat
  <2>1. PICK i \in index : i.packages = rd[r].stat
    BY <1>3
  <2>2. index = {i} /\ i \in IndexRecs /\ GoodRec(i)
    BY <2>1, ReadTyped DEF GoodIndex
  <2> DEFINE x == [rd[r] EXCEPT !.pc = "resolve", !.entries = i.entries]
  <2>3. UNION {j.entries : j \in index} = i.entries
    BY <2>2
  <2>4. rd' = [rd EXCEPT ![r] = x]
    BY <1>1, <1>2, <1>3, <2>3
  <2>5. /\ x \in ReadRecs /\ x.pc = "resolve" /\ x.entries = i.entries /\ x.open = {}
    BY <1>2, <2>2 DEF ReadRecs, IndexRecs, ReadPcs
  <2> HIDE DEF x
  <2>6. \A f \in Still(r) : /\ overtaken \/ TrueOf(x.entries, f)
                            /\ overtaken \/ mixed \/ disk[f].holds \in Verified
    BY <1>2, <2>1, <2>2, <2>5 DEF GoodRec
  <2>7. ReadInv(r)'
    <3>1. /\ rd'[r] = x /\ Still(r)' = Still(r) /\ UNCHANGED FsVars
          /\ \A f : TrueOf(rd[r].entries, f)' <=> TrueOf(x.entries, f)
      BY <1>1, <2>4, <2>5, WithinRead
    <3>2. \A f \in Still(r)' : Known(r, f)'
      BY <2>6, <3>1, SameVerdicts DEF Known
    <3>3. rd'[r].pc = "resolve" /\ rd'[r].open = {}
      BY <2>5, <3>1
    <3> QED BY <3>2, <3>3 DEF ReadInv
  <2> QED BY <1>1, <2>4, <2>5, <2>7, WithinRead, KeptIndex, ReadTyped
<1>4. CASE ~\E i \in index : i.packages = rd[r].stat
  <2> DEFINE x == [rd[r] EXCEPT !.pc = "scan", !.todo = OnDisk]
  <2>1. rd' = [rd EXCEPT ![r] = x]
    BY <1>1, <1>2, <1>4
  <2>2. /\ x \in ReadRecs /\ x.pc = "scan" /\ x.entries = {} /\ x.open = {}
        /\ x.stat = rd[r].stat /\ x.todo = OnDisk
    BY <1>2 DEF ReadRecs, ReadPcs
  <2> HIDE DEF x
  <2>3. ReadInv(r)'
    <3>1. /\ rd'[r] = x /\ Still(r)' = Still(r) /\ UNCHANGED FsVars
          /\ \A f : Listed(rd[r].stat, f)' <=> Listed(x.stat, f)
      BY <1>1, <2>1, <2>2, WithinRead
    <3>2. Still(r)' \subseteq OnDisk
      BY <3>1, ReadTyped
    <3> QED BY <1>2, <2>2, <3>1, <3>2, SameVerdicts DEF ReadInv
  <2> QED BY <1>1, <2>1, <2>2, <2>3, WithinRead, KeptIndex, ReadTyped
<1> QED BY <1>3, <1>4

\* One package is read, or refused, during a scan.
LEMMA UnpackKeepsInv ==
    ASSUME PkgInv, NEW r \in Readers, NEW f \in Files, Unpack(r, f) PROVE PkgInv'
<1>1. /\ rd[r].pc \in {"scan", "answer"} /\ rd[r].open = {} /\ f \in rd[r].todo
      /\ ReadOnly /\ index' = index
      /\ IF f \in OnDisk THEN rd' = [rd EXCEPT ![r].open = {<<f, disk[f].holds>>}]
                         ELSE rd' = [rd EXCEPT ![r].pc = "error"]
  BY DEF Unpack
<1>2. rd[r] \in ReadRecs /\ rd \in [Readers -> ReadRecs] /\ ReadInv(r) /\ Still(r) \subseteq Files
  BY ReadTyped
<1>3. CASE f \in OnDisk
  <2> DEFINE x == [rd[r] EXCEPT !.open = {<<f, disk[f].holds>>}]
  <2>1. rd' = [rd EXCEPT ![r] = x]
    BY <1>1, <1>2, <1>3
  <2>2. x \in ReadRecs /\ x.open = {<<f, disk[f].holds>>}
    BY <1>2, <1>3, ReadTyped DEF ReadRecs
  <2>3. /\ x.pc = rd[r].pc /\ x.stat = rd[r].stat /\ x.asks = rd[r].asks
        /\ x.todo = rd[r].todo /\ x.entries = rd[r].entries /\ x.got = rd[r].got
    BY <1>2 DEF ReadRecs
  <2> HIDE DEF x
  <2>4. \A g : Told(r, g)' <=> Told(r, g)
    BY <1>1, <2>1, <2>2, <2>3, WithinRead, SameVerdicts DEF Told
  <2>5. ReadInv(r)'
    <3>1. /\ rd'[r] = x /\ Still(r)' = Still(r)
          /\ disk' = disk /\ changes' = changes
          /\ \A g : Listed(rd[r].stat, g)' <=> Listed(x.stat, g)
          /\ \A g : TrueOf(rd[r].entries, g)' <=> TrueOf(x.entries, g)
      BY <1>1, <2>1, <2>2, WithinRead, SameVerdicts
    <3>2. \A g : TrueOf(rd[r].entries, g)' <=> TrueOf(rd[r].entries, g)
      BY <2>3, <3>1
    <3>3. x.pc = "scan" => \A g \in Still(r)' :
            \/ g \in x.todo /\ \A s \in Subjects : <<g, s>> \notin x.entries
            \/ g \notin x.todo /\ TrueOf(rd[r].entries, g)' /\ disk'[g].holds \in Verified
      BY <1>2, <2>3, <3>1, <3>2 DEF ReadInv
    <3>4. x.pc = "scan" =>
             /\ \A p \in x.stat : p[2] <= changes'
             /\ \A g \in Files : Listed(rd[r].stat, g)' <=> g \in Still(r)'
      BY <1>2, <2>3, <3>1 DEF ReadInv
    <3>5. x.pc = "answer" => \A g \in Still(r)' : g \in x.todo \/ Told(r, g)'
      BY <1>2, <2>3, <2>4, <3>1 DEF ReadInv
    <3>6. \A p \in x.open : p[1] \in x.todo /\ p[2] = disk'[p[1]].holds
      BY <1>1, <2>2, <2>3, <3>1
    <3> QED BY <1>1, <2>3, <3>1, <3>3, <3>4, <3>5, <3>6 DEF ReadInv
  <2> QED BY <1>1, <2>1, <2>2, <2>5, WithinRead, KeptIndex, ReadTyped
<1>4. CASE f \notin OnDisk
  <2> DEFINE x == [rd[r] EXCEPT !.pc = "error"]
  <2>1. rd' = [rd EXCEPT ![r] = x] /\ x \in ReadRecs /\ x.pc = "error"
    BY <1>1, <1>2, <1>4 DEF ReadRecs, ReadPcs
  <2> HIDE DEF x
  <2>2. ReadInv(r)'
    BY <1>1, <2>1, WithinRead DEF ReadInv
  <2> QED BY <1>1, <2>1, <2>2, WithinRead, KeptIndex, ReadTyped
<1> QED BY <1>3, <1>4

\* One package more is projected, or the read fails.
LEMMA ProjectKeepsInv ==
    ASSUME PkgInv, NEW r \in Readers, Project(r) PROVE PkgInv'
<1>1. PICK p \in rd[r].open :
        /\ rd[r].pc \in {"scan", "answer"} /\ ReadOnly /\ index' = index
        /\ IF disk[p[1]].holds \notin Verified
             THEN rd' = [rd EXCEPT ![r].pc = "error", ![r].open = {}]
             ELSE rd' = [rd EXCEPT ![r].open = {}, ![r].todo = @ \ {p[1]},
                    ![r].entries = IF rd[r].pc = "scan" THEN @ \union EntriesOf(p[1], p[2]) ELSE @,
                    ![r].got = IF rd[r].pc = "answer" THEN @ \union EntriesOf(p[1], p[2]) ELSE @]
  BY DEF Project
<1>2. rd[r] \in ReadRecs /\ rd \in [Readers -> ReadRecs] /\ ReadInv(r) /\ Still(r) \subseteq Files
      /\ Still(r) \subseteq OnDisk
  BY ReadTyped
<1> DEFINE f == p[1]
           c == p[2]
<1>3. f \in Files /\ c \in Contents /\ EntriesOf(f, c) \in Pairs
      /\ \A g, s : <<g, s>> \in EntriesOf(f, c) <=> g = f /\ s \in ClaimSubjects[c]
  BY <1>2, ContentsAssumption DEF ReadRecs, EntriesOf, Pairs
<1>4. f \in rd[r].todo /\ (f \in Still(r) => c = disk[f].holds)
  BY <1>1, <1>2 DEF ReadInv
<1>5. CASE disk[f].holds \notin Verified
  <2> DEFINE x == [rd[r] EXCEPT !.pc = "error", !.open = {}]
  <2>1. rd' = [rd EXCEPT ![r] = x] /\ x \in ReadRecs /\ x.pc = "error"
    BY <1>1, <1>2, <1>5 DEF ReadRecs, ReadPcs
  <2> HIDE DEF x
  <2>2. ReadInv(r)'
    BY <1>1, <2>1, WithinRead DEF ReadInv
  <2> QED BY <1>1, <2>1, <2>2, WithinRead, KeptIndex, ReadTyped
<1> HIDE DEF f, c
<1>6. CASE disk[f].holds \in Verified /\ rd[r].pc = "scan"
  <2> DEFINE E == rd[r].entries \union EntriesOf(f, c)
             T == rd[r].todo \ {f}
             x == [rd[r] EXCEPT !.open = {}, !.todo = T, !.entries = E]
  <2>1. rd' = [rd EXCEPT ![r] = x]
    <3> DEFINE y == [rd[r] EXCEPT !.open = {}, !.todo = @ \ {f},
                       !.entries = IF rd[r].pc = "scan" THEN @ \union EntriesOf(f, c) ELSE @,
                       !.got = IF rd[r].pc = "answer" THEN @ \union EntriesOf(f, c) ELSE @]
    <3>1. rd' = [rd EXCEPT ![r] = y]
      BY <1>1, <1>6 DEF f, c
    <3>2. y = x
      BY <1>2, <1>6 DEF ReadRecs
    <3> QED BY <3>1, <3>2
  <2>2. E \in Pairs /\ T \in SUBSET Files
    BY <1>2, <1>3 DEF ReadRecs, Pairs
  <2> HIDE DEF E, T
  <2>3. /\ x \in ReadRecs /\ x.pc = "scan" /\ x.stat = rd[r].stat
        /\ x.open = {} /\ x.todo = T /\ x.entries = E
    BY <1>2, <1>6, <2>2 DEF ReadRecs
  <2> HIDE DEF x
  <2>4. /\ rd'[r] = x /\ Still(r)' = Still(r) /\ disk' = disk /\ changes' = changes
        /\ \A g : Listed(rd[r].stat, g)' <=> Listed(x.stat, g)
        /\ \A g : TrueOf(rd[r].entries, g)' <=> TrueOf(x.entries, g)
    BY <1>1, <2>1, <2>3, WithinRead, SameVerdicts
  <2>5. \A g, s : <<g, s>> \in E <=> <<g, s>> \in rd[r].entries \/ (g = f /\ s \in ClaimSubjects[c])
    BY <1>3 DEF E
  <2>6. \A g \in Still(r) :
          \/ g \in T /\ \A s \in Subjects : <<g, s>> \notin E
          \/ g \notin T /\ TrueOf(E, g) /\ disk[g].holds \in Verified
    <3> SUFFICES ASSUME NEW g \in Still(r)
                 PROVE  \/ g \in T /\ \A s \in Subjects : <<g, s>> \notin E
                        \/ g \notin T /\ TrueOf(E, g) /\ disk[g].holds \in Verified
      OBVIOUS
    <3>1. \/ g \in rd[r].todo /\ \A s \in Subjects : <<g, s>> \notin rd[r].entries
          \/ g \notin rd[r].todo /\ TrueOf(rd[r].entries, g) /\ disk[g].holds \in Verified
      BY <1>2, <1>6 DEF ReadInv
    <3>2. CASE g = f
      <4>1. \A s \in Subjects : <<g, s>> \in E <=> s \in ClaimSubjects[disk[g].holds]
        BY <1>4, <2>5, <3>1, <3>2
      <4> QED BY <1>6, <3>2, <4>1 DEF T, TrueOf
    <3>3. CASE g # f
      <4>1. TrueOf(rd[r].entries, g) => TrueOf(E, g)
        BY <2>5, <3>3 DEF TrueOf
      <4> QED BY <2>5, <3>1, <3>3, <4>1 DEF T
    <3> QED BY <3>2, <3>3
  <2>7. /\ \A q \in x.stat : q[2] <= changes'
        /\ \A g \in Files : Listed(rd[r].stat, g)' <=> g \in Still(r)'
    BY <1>2, <1>6, <2>3, <2>4 DEF ReadInv
  <2>8. \A g \in Still(r)' :
          \/ g \in x.todo /\ \A s \in Subjects : <<g, s>> \notin x.entries
          \/ g \notin x.todo /\ TrueOf(rd[r].entries, g)' /\ disk'[g].holds \in Verified
    BY <2>3, <2>4, <2>6
  <2>9. ReadInv(r)'
    BY <2>3, <2>4, <2>7, <2>8 DEF ReadInv
  <2> QED BY <1>1, <2>1, <2>3, <2>9, WithinRead, KeptIndex, ReadTyped
<1>7. CASE disk[f].holds \in Verified /\ rd[r].pc = "answer"
  <2> DEFINE G == rd[r].got \union EntriesOf(f, c)
             T == rd[r].todo \ {f}
             x == [rd[r] EXCEPT !.open = {}, !.todo = T, !.got = G]
  <2>1. rd' = [rd EXCEPT ![r] = x]
    <3> DEFINE y == [rd[r] EXCEPT !.open = {}, !.todo = @ \ {f},
                       !.entries = IF rd[r].pc = "scan" THEN @ \union EntriesOf(f, c) ELSE @,
                       !.got = IF rd[r].pc = "answer" THEN @ \union EntriesOf(f, c) ELSE @]
    <3>1. rd' = [rd EXCEPT ![r] = y]
      BY <1>1, <1>7 DEF f, c
    <3>2. y = x
      BY <1>2, <1>7 DEF ReadRecs
    <3> QED BY <3>1, <3>2
  <2>2. G \in Pairs /\ T \in SUBSET Files
    BY <1>2, <1>3 DEF ReadRecs, Pairs
  <2>3. \A g, s : <<g, s>> \in G <=> <<g, s>> \in rd[r].got \/ (g = f /\ s \in ClaimSubjects[c])
    BY <1>3
  <2> HIDE DEF G
  <2>4. \A g : g \in T <=> g \in rd[r].todo /\ g # f
    OBVIOUS
  <2> HIDE DEF T
  <2>5. /\ x \in ReadRecs /\ x.pc = "answer" /\ x.asks = rd[r].asks
        /\ x.open = {} /\ x.todo = T /\ x.got = G
    BY <1>2, <1>7, <2>2 DEF ReadRecs
  <2> HIDE DEF x
  <2>6. /\ rd'[r] = x /\ Still(r)' = Still(r) /\ disk' = disk /\ changes' = changes
        /\ overtaken' = overtaken /\ mixed' = mixed
    BY <1>1, <2>1, <2>5, WithinRead, SameVerdicts
  <2>7. \A g \in Still(r) : g \in T \/ Told(r, g)'
    <3> SUFFICES ASSUME NEW g \in Still(r), g \notin T PROVE Told(r, g)'
      OBVIOUS
    <3>1. CASE g = f
      <4>1. c = disk[g].holds
        BY <1>4, <3>1
      <4> QED BY <1>7, <2>3, <2>5, <2>6, <3>1, <4>1 DEF Told
    <3>2. CASE g # f
      <4>1. Told(r, g)
        BY <1>2, <1>7, <2>4, <3>2 DEF ReadInv
      <4> QED BY <2>3, <2>5, <2>6, <4>1 DEF Told
    <3> QED BY <3>1, <3>2
  <2>8. ReadInv(r)'
    BY <2>5, <2>6, <2>7 DEF ReadInv
  <2> QED BY <1>1, <2>1, <2>5, <2>8, WithinRead, KeptIndex, ReadTyped
<1> QED BY <1>1, <1>5, <1>6, <1>7 DEF f

\* The last package of a scan is projected.
LEMMA ScannedKeepsInv ==
    ASSUME PkgInv, NEW r \in Readers, Scanned(r) PROVE PkgInv'
<1>1. /\ rd[r].pc = "scan" /\ rd[r].todo = {} /\ ReadOnly /\ index' = index
      /\ rd' = [rd EXCEPT ![r].pc = "save"]
  BY DEF Scanned
<1>2. rd[r] \in ReadRecs /\ rd \in [Readers -> ReadRecs] /\ ReadInv(r)
  BY ReadTyped
<1> DEFINE x == [rd[r] EXCEPT !.pc = "save"]
<1>3. /\ rd' = [rd EXCEPT ![r] = x] /\ x \in ReadRecs /\ x.pc = "save"
      /\ x.stat = rd[r].stat /\ x.entries = rd[r].entries /\ x.open = {}
  <2>1. rd[r].open = {}
    BY <1>1, <1>2 DEF ReadInv
  <2> QED BY <1>1, <1>2, <2>1 DEF ReadRecs, ReadPcs
<1> HIDE DEF x
<1>4. /\ rd'[r] = x /\ Still(r)' = Still(r) /\ disk' = disk /\ changes' = changes
      /\ \A g : Listed(rd[r].stat, g)' <=> Listed(x.stat, g)
      /\ \A g : TrueOf(rd[r].entries, g)' <=> TrueOf(x.entries, g)
  BY <1>1, <1>3, WithinRead, SameVerdicts
<1>5. \A g \in Still(r) : TrueOf(x.entries, g) /\ disk[g].holds \in Verified
  BY <1>1, <1>2, <1>3 DEF ReadInv
<1>6. /\ \A p \in x.stat : p[2] <= changes'
      /\ \A g \in Files : Listed(rd[r].stat, g)' <=> g \in Still(r)'
  BY <1>1, <1>2, <1>3, <1>4 DEF ReadInv
<1>7. ReadInv(r)'
  BY <1>3, <1>4, <1>5, <1>6 DEF ReadInv
<1> QED BY <1>1, <1>3, <1>7, WithinRead, KeptIndex, ReadTyped

\* Whichever file was moved in, it is one that a finished scan may certify.
LEMMA SaveIndexKeepsInv ==
    ASSUME PkgInv, NEW r \in Readers, SaveIndex(r) PROVE PkgInv'
<1>1. /\ rd[r].pc = "save" /\ ReadOnly /\ rd' = [rd EXCEPT ![r].pc = "resolve"]
      /\ index' = index \/ index' = {} \/ \E q \in Readers : rd[q].pc = "save" /\ index' = {ScannedIndex(q)}
  BY DEF SaveIndex
<1>2. rd[r] \in ReadRecs /\ rd \in [Readers -> ReadRecs] /\ ReadInv(r)
  BY ReadTyped
<1> DEFINE x == [rd[r] EXCEPT !.pc = "resolve"]
<1>3. /\ rd' = [rd EXCEPT ![r] = x] /\ x \in ReadRecs /\ x.pc = "resolve"
      /\ x.entries = rd[r].entries /\ x.open = {}
  <2>1. rd[r].open = {}
    BY <1>1, <1>2 DEF ReadInv
  <2> QED BY <1>1, <1>2, <2>1 DEF ReadRecs, ReadPcs
<1> HIDE DEF x
<1>4. /\ rd'[r] = x /\ Still(r)' = Still(r) /\ disk' = disk /\ UNCHANGED FsVars
      /\ \A g : TrueOf(rd[r].entries, g)' <=> TrueOf(x.entries, g)
  BY <1>1, <1>3, WithinRead, SameVerdicts
<1>5. \A g \in Still(r)' : Known(r, g)'
  <2>1. \A g \in Still(r) : TrueOf(rd[r].entries, g) /\ disk[g].holds \in Verified
    BY <1>1, <1>2 DEF ReadInv
  <2> QED BY <1>3, <1>4, <2>1 DEF Known
<1>6. ReadInv(r)'
  BY <1>3, <1>4, <1>5 DEF ReadInv
<1>7. ASSUME NEW q \in Readers, rd[q].pc = "save"
      PROVE  ScannedIndex(q) \in IndexRecs /\ GoodRec(ScannedIndex(q))
  <2>1. rd[q] \in ReadRecs /\ ReadInv(q)
    BY ReadTyped
  <2>2. /\ ScannedIndex(q) \in IndexRecs
        /\ ScannedIndex(q).packages = rd[q].stat /\ ScannedIndex(q).entries = rd[q].entries
    BY <2>1 DEF ScannedIndex, IndexRecs, ReadRecs
  <2>3. /\ \A p \in rd[q].stat : p[2] <= changes
        /\ \A f \in Files : Listed(rd[q].stat, f) => TrueOf(rd[q].entries, f) /\ disk[f].holds \in Verified
    BY <1>7, <2>1 DEF ReadInv
  <2> QED BY <2>2, <2>3 DEF GoodRec
<1>8. GoodIndex(index)'
  <2>1. CASE index' = index
    BY <1>4, <2>1, KeptIndex, ReadTyped
  <2>2. CASE index' = {}
    BY <2>2 DEF GoodIndex
  <2>3. ASSUME NEW q \in Readers, rd[q].pc = "save", index' = {ScannedIndex(q)}
        PROVE  GoodIndex(index)'
    <3> DEFINE i == ScannedIndex(q)
    <3>1. i \in IndexRecs /\ GoodRec(i) /\ index' = {i}
      BY <1>7, <2>3
    <3> HIDE DEF i
    <3>2. PICK j : j = i
      OBVIOUS
    <3>3. j \in IndexRecs /\ GoodRec(j) /\ index' = {j}
      BY <3>1, <3>2
    <3>4. GoodRec(j)'
      BY <1>4, <3>3, SameDisk
    <3> QED BY <3>3, <3>4 DEF GoodIndex
  <2> QED BY <1>1, <2>1, <2>2, <2>3
<1> QED BY <1>1, <1>3, <1>6, <1>8, WithinRead

\* The packages the index names are opened.
LEMMA ResolveKeepsInv ==
    ASSUME PkgInv, NEW r \in Readers, Resolve(r) PROVE PkgInv'
<1> DEFINE T == {f \in OnDisk : \E s \in rd[r].asks : <<f, s>> \in rd[r].entries}
           x == [rd[r] EXCEPT !.pc = "answer", !.stat = {}, !.entries = {}, !.todo = T]
<1>1. rd[r].pc = "resolve" /\ ReadOnly /\ index' = index
  BY DEF Resolve
<1>2. rd[r] \in ReadRecs /\ rd \in [Readers -> ReadRecs] /\ ReadInv(r) /\ OnDisk \subseteq Files
      /\ Still(r) \subseteq OnDisk /\ \A f \in OnDisk : disk[f].holds \in Contents
  BY ReadTyped
<1>3. rd' = [rd EXCEPT ![r] = x] /\ T \in SUBSET Files
  BY <1>2 DEF Resolve
<1>4. \A f \in OnDisk : (\E s \in rd[r].asks : <<f, s>> \in rd[r].entries) => f \in T
  OBVIOUS
<1> HIDE DEF T
<1>5. /\ x \in ReadRecs /\ x.pc = "answer" /\ x.open = {} /\ x.todo = T /\ x.asks = rd[r].asks
  <2>1. rd[r].open = {}
    BY <1>1, <1>2 DEF ReadInv
  <2> QED BY <1>1, <1>2, <1>3, <2>1 DEF ReadRecs, ReadPcs, Stats, Pairs
<1> HIDE DEF x
<1>6. /\ rd'[r] = x /\ Still(r)' = Still(r) /\ disk' = disk
      /\ overtaken' = overtaken /\ mixed' = mixed
  BY <1>1, <1>3, <1>5, WithinRead, SameVerdicts
<1>7. \A f \in Still(r) : f \in T \/ Told(r, f)'
  <2> SUFFICES ASSUME NEW f \in Still(r), f \notin T PROVE Told(r, f)'
    OBVIOUS
  <2>1. /\ overtaken \/ TrueOf(rd[r].entries, f)
        /\ overtaken \/ mixed \/ disk[f].holds \in Verified
    BY <1>1, <1>2 DEF ReadInv, Known
  <2>2. \A s \in rd[r].asks : <<f, s>> \notin rd[r].entries
    BY <1>2, <1>4
  <2>3. overtaken \/ \A s \in rd[r].asks : s \notin ClaimSubjects[disk[f].holds]
    <3>1. rd[r].asks \subseteq Subjects
      BY <1>2 DEF ReadRecs
    <3> QED BY <2>1, <2>2, <3>1 DEF TrueOf
  <2> QED BY <1>5, <1>6, <2>1, <2>3 DEF Told
<1>8. ReadInv(r)'
  BY <1>5, <1>6, <1>7 DEF ReadInv
<1> QED BY <1>1, <1>3, <1>5, <1>8, WithinRead, KeptIndex, ReadTyped

\* The answer is taken from what was opened.
LEMMA AnswerKeepsInv ==
    ASSUME PkgInv, NEW r \in Readers, Answer(r) PROVE PkgInv'
<1>1. PICK p \in {"found", "error"} :
        /\ rd[r].pc = "answer" /\ rd[r].todo = {} /\ ReadOnly /\ index' = index
        /\ rd' = [rd EXCEPT ![r].pc = p]
  BY DEF Answer
<1>2. rd[r] \in ReadRecs /\ rd \in [Readers -> ReadRecs] /\ ReadInv(r)
  BY ReadTyped
<1> DEFINE x == [rd[r] EXCEPT !.pc = p]
<1>3. /\ rd' = [rd EXCEPT ![r] = x] /\ x \in ReadRecs /\ x.pc = p
      /\ x.asks = rd[r].asks /\ x.got = rd[r].got
  BY <1>1, <1>2 DEF ReadRecs, ReadPcs
<1> HIDE DEF x
<1>4. /\ rd'[r] = x /\ Still(r)' = Still(r) /\ disk' = disk
      /\ overtaken' = overtaken /\ mixed' = mixed
  BY <1>1, <1>3, WithinRead, SameVerdicts
<1>5. \A f \in Still(r) : Told(r, f)'
  <2> SUFFICES ASSUME NEW f \in Still(r) PROVE Told(r, f)'
    OBVIOUS
  <2>1. Told(r, f)
    BY <1>1, <1>2 DEF ReadInv
  <2> QED BY <1>3, <1>4, <2>1 DEF Told
<1>6. ReadInv(r)'
  BY <1>3, <1>4, <1>5 DEF ReadInv
<1> QED BY <1>1, <1>3, <1>6, WithinRead, KeptIndex, ReadTyped

\* A restart forgets the reads and keeps the disk.
LEMMA CrashKeepsInv ==
    ASSUME PkgInv, CrashReaders PROVE PkgInv'
<1>1. /\ rd' = [r \in Readers |-> NoRead] /\ stable' = [r \in Readers |-> Files]
      /\ UNCHANGED <<index, ing, audited>> /\ UNCHANGED FsVars
  BY DEF CrashReaders, FsVars
<1>2. ShapeInv' /\ \A r \in Readers : rd'[r] = NoRead
  BY <1>1, NoReadIsRead DEF ShapeInv
<1>3. \A r \in Readers : ReadInv(r)'
  BY <1>2, NoReadIsRead DEF ReadInv
<1>4. IngestInv'
  <2>1. GoodIndex(index)'
    BY <1>1, KeptIndex DEF PkgInv, IngestInv
  <2> QED BY <1>1, <2>1, SameIngest DEF PkgInv
<1> QED BY <1>1, <1>2, <1>3, <1>4, SameDisk DEF PkgInv

(* -------------------------------- ingests ------------------------------ *)

\* A step of an ingest does not disturb the reads.
LEMMA IngestApart ==
    ASSUME PkgInv, IngestOnly, IngestInv' PROVE PkgInv'
<1>1. UNCHANGED FsVars /\ UNCHANGED <<rd, stable>>
  BY DEF IngestOnly, FsVars
<1>2. \A r \in Readers : ReadInv(r)'
  BY <1>1, OtherReads DEF PkgInv
<1> QED BY <1>1, <1>2, SameDisk DEF PkgInv, ShapeInv

\* An ingest that ends, whatever index it leaves.
LEMMA IngestEnds ==
    ASSUME PkgInv, IngestOnly, ing' = NoIngest, UNCHANGED audited, GoodIndex(index)'
    PROVE  PkgInv'
<1>1. /\ ing' \in IngestRecs /\ ing'.pc = "idle" /\ ing'.old = {} /\ ing'.new = {}
  BY DEF NoIngest, IngestRecs, IngestPcs
<1>2. GoodIndex(ing.old)' /\ GoodIndex(ing.new)'
  BY <1>1 DEF GoodIndex
<1>3. audited' \in SUBSET Contents /\ AuditedWereTrusted'
  BY DEF PkgInv, IngestInv, AuditedWereTrusted, IngestOnly
<1> QED BY <1>1, <1>2, <1>3, IngestApart DEF IngestInv

\* A refused package leaves nothing behind.
LEMMA RejectKeepsInv ==
    ASSUME PkgInv, IngestOnly, Reject PROVE PkgInv'
<1>1. GoodIndex(index)'
  BY KeptIndex DEF PkgInv, IngestInv, IngestOnly, Reject, FsVars
<1> QED BY <1>1, IngestEnds DEF Reject

\* What the invariant says of the ingest.
LEMMA IngestTyped ==
    ASSUME PkgInv
    PROVE  /\ ing \in IngestRecs /\ audited \in SUBSET Contents /\ GoodIndex(index)
           /\ \A f \in Files : disk[f].holds \in Contents \union {Gone}
BY DEF PkgInv, IngestInv, DiskInv

\* The index and the two copies an ingest keeps stay good.
LEMMA KeptCopies ==
    ASSUME PkgInv, UNCHANGED FsVars
    PROVE  /\ UNCHANGED index => GoodIndex(index)'
           /\ ing'.old \in {ing.old, index} => GoodIndex(ing.old)'
           /\ ing'.old = {} => GoodIndex(ing.old)'
           /\ ing'.new = ing.new \/ ing'.new = {} => GoodIndex(ing.new)'
BY SameDisk DEF PkgInv, IngestInv, GoodIndex

\* The ingest verifies the bytes it read.
LEMMA VerifyKeepsInv ==
    ASSUME PkgInv, NEW f \in Files, VerifyFile(f) PROVE PkgInv'
<1>1. /\ ing' = [NoIngest EXCEPT !.pc = "trust", !.file = f]
      /\ IngestOnly /\ UNCHANGED <<index, audited>> /\ UNCHANGED FsVars
  BY DEF VerifyFile, IngestOnly, FsVars
<1>2. ing' \in IngestRecs /\ ing'.pc = "trust" /\ ing'.file = f /\ ing'.old = {} /\ ing'.new = {}
  BY <1>1 DEF NoIngest, IngestRecs, IngestPcs
<1>3. GoodIndex(index)' /\ GoodIndex(ing.old)' /\ GoodIndex(ing.new)'
  BY <1>1, <1>2, KeptCopies
<1>4. audited' \in SUBSET Contents /\ AuditedWereTrusted'
  BY <1>1 DEF PkgInv, IngestInv, AuditedWereTrusted, IngestOnly
<1> QED BY <1>1, <1>2, <1>3, <1>4, IngestApart DEF IngestInv

\* The trust policy is asked about the same bytes.
LEMMA TrustKeepsInv ==
    ASSUME PkgInv, CheckTrust PROVE PkgInv'
<1>1. CASE Reject
  BY <1>1, RejectKeepsInv DEF CheckTrust
<1>2. CASE disk[ing.file].holds \in Trusted /\ ing' = [ing EXCEPT !.pc = "unpack"] /\ UNCHANGED <<index, audited>>
  <2>1. ing.pc = "trust" /\ IngestOnly /\ UNCHANGED FsVars /\ ing.file \in Files /\ disk' = disk
    BY DEF CheckTrust, IngestOnly, FsVars, PkgInv, IngestInv
  <2>2. /\ ing' \in IngestRecs /\ ing'.pc = "unpack" /\ ing'.file = ing.file
        /\ ing'.old = ing.old /\ ing'.new = ing.new
    BY <1>2, IngestTyped DEF IngestRecs, IngestPcs
  <2>3. GoodIndex(index)' /\ GoodIndex(ing.old)' /\ GoodIndex(ing.new)'
    BY <1>2, <2>1, <2>2, KeptCopies
  <2>4. audited' \in SUBSET Contents /\ AuditedWereTrusted'
    BY <1>2, <2>1 DEF PkgInv, IngestInv, AuditedWereTrusted, IngestOnly
  <2>5. IngestInv'
    BY <1>2, <2>1, <2>2, <2>3, <2>4 DEF IngestInv
  <2> QED BY <2>1, <2>5, IngestApart
<1> QED BY <1>1, <1>2 DEF CheckTrust

\* The package is opened a second time: it may have changed since.
LEMMA UnpackAgainKeepsInv ==
    ASSUME PkgInv, UnpackAgain PROVE PkgInv'
<1>1. CASE Reject
  BY <1>1, RejectKeepsInv DEF UnpackAgain
<1>2. CASE /\ disk[ing.file].holds # Gone
           /\ ing' = [ing EXCEPT !.pc = "rows", !.holds = disk[ing.file].holds]
           /\ UNCHANGED <<index, audited>>
  <2>1. /\ ing.pc = "unpack" /\ IngestOnly /\ UNCHANGED FsVars /\ ing.file \in Files
        /\ mixed \/ disk[ing.file].holds \in Trusted
        /\ disk' = disk /\ mixed' = mixed
    BY DEF UnpackAgain, IngestOnly, FsVars, PkgInv, IngestInv
  <2>2. disk[ing.file].holds \in Contents
    BY <1>2, <2>1, IngestTyped
  <2>3. /\ ing' \in IngestRecs /\ ing'.pc = "rows" /\ ing'.file = ing.file
        /\ ing'.holds = disk[ing.file].holds /\ ing'.old = ing.old /\ ing'.new = ing.new
    BY <1>2, <2>2, IngestTyped DEF IngestRecs, IngestPcs
  <2>4. GoodIndex(index)' /\ GoodIndex(ing.old)' /\ GoodIndex(ing.new)'
    BY <1>2, <2>1, <2>3, KeptCopies
  <2>5. audited' \in SUBSET Contents /\ AuditedWereTrusted'
    BY <1>2, <2>1 DEF PkgInv, IngestInv, AuditedWereTrusted, IngestOnly
  <2>6. IngestInv'
    BY <1>2, <2>1, <2>2, <2>3, <2>4, <2>5 DEF IngestInv
  <2> QED BY <2>1, <2>6, IngestApart
<1> QED BY <1>1, <1>2 DEF UnpackAgain

\* A row is written between the two halves of a query.
LEMMA WriteKeepsInv ==
    ASSUME PkgInv, WriteBatch PROVE PkgInv'
<1>1. /\ ing.pc = "rows" /\ IngestOnly /\ UNCHANGED FsVars /\ ing.file \in Files /\ index' = index
      /\ audited' = audited \union {ing.holds} /\ ing' = [ing EXCEPT !.pc = "load"]
      /\ disk' = disk /\ mixed' = mixed /\ overtaken' = overtaken
  BY DEF WriteBatch, IngestOnly, FsVars, PkgInv, IngestInv
<1>2. /\ ing.holds \in Contents
      /\ mixed \/ ing.holds \in Trusted
      /\ overtaken \/ disk[ing.file].holds = ing.holds
  BY <1>1 DEF PkgInv, IngestInv
<1>3. /\ ing' \in IngestRecs /\ ing'.pc = "load" /\ ing'.file = ing.file
      /\ ing'.holds = ing.holds /\ ing'.old = ing.old /\ ing'.new = ing.new
  BY <1>1, IngestTyped DEF IngestRecs, IngestPcs
<1>4. GoodIndex(index)' /\ GoodIndex(ing.old)' /\ GoodIndex(ing.new)'
  BY <1>1, <1>3, KeptCopies
<1>5. audited' \in SUBSET Contents
  BY <1>1, <1>2, IngestTyped
<1>6. AuditedWereTrusted'
  BY <1>1, <1>2 DEF PkgInv, IngestInv, AuditedWereTrusted
<1>7. IngestInv'
  BY <1>1, <1>2, <1>3, <1>4, <1>5, <1>6 DEF IngestInv
<1> QED BY <1>1, <1>7, IngestApart

\* The existing index is read, or found stale.
LEMMA LoadKeepsInv ==
    ASSUME PkgInv, LoadExisting PROVE PkgInv'
<1>1. /\ ing.pc = "load" /\ IngestOnly /\ UNCHANGED FsVars /\ ing.file \in Files
      /\ UNCHANGED <<index, audited>> /\ ing' = [ing EXCEPT !.pc = "merge", !.old = index]
      /\ disk' = disk /\ mixed' = mixed /\ overtaken' = overtaken
  BY DEF LoadExisting, IngestOnly, FsVars, PkgInv, IngestInv
<1>2. /\ ing.holds \in Contents
      /\ mixed \/ ing.holds \in Trusted
      /\ overtaken \/ disk[ing.file].holds = ing.holds
  BY <1>1 DEF PkgInv, IngestInv
<1>3. /\ ing' \in IngestRecs /\ ing'.pc = "merge" /\ ing'.file = ing.file
      /\ ing'.holds = ing.holds /\ ing'.old = index /\ ing'.new = ing.new
  <2>1. index \in SUBSET IndexRecs
    BY IngestTyped DEF GoodIndex
  <2> QED BY <1>1, <2>1, IngestTyped DEF IngestRecs, IngestPcs
<1>4. GoodIndex(index)' /\ GoodIndex(ing.old)' /\ GoodIndex(ing.new)'
  BY <1>1, <1>3, KeptCopies
<1>5. audited' \in SUBSET Contents /\ AuditedWereTrusted'
  BY <1>1 DEF PkgInv, IngestInv, AuditedWereTrusted
<1>6. IngestInv'
  BY <1>1, <1>2, <1>3, <1>4, <1>5 DEF IngestInv
<1> QED BY <1>1, <1>6, IngestApart

\* The record an ingest saves: its own package under the identity of now, the
\* other ones as the record before had them.
LEMMA MergedIsGood ==
    ASSUME PkgInv, ing.pc = "merge"
    PROVE  Merged(ing.old) \in IndexRecs /\ GoodRec(Merged(ing.old))
<1> DEFINE m == Merged(ing.old)
           f == ing.file
           P == UNION {i.packages : i \in ing.old}
           E == UNION {i.entries : i \in ing.old}
<1>1. /\ f \in Files /\ ing.holds \in Contents
      /\ mixed \/ ing.holds \in Trusted
      /\ overtaken \/ disk[f].holds = ing.holds
      /\ GoodIndex(ing.old) /\ DiskInv
  BY DEF PkgInv, IngestInv
<1>2. /\ CurrentPackages \in Stats /\ \A p \in CurrentPackages : p[2] <= changes
      /\ \A g \in Files : Listed(CurrentPackages, g) <=> g \in OnDisk
  BY <1>1, CurrentAreListed
<1>3. P \in Stats /\ E \in Pairs /\ \A p \in P : p[2] <= changes
  BY <1>1 DEF GoodIndex, GoodRec, IndexRecs, Stats, Pairs
<1>4. \A g \in Files : Listed(P, g) =>
        /\ overtaken \/ TrueOf(E, g)
        /\ overtaken \/ mixed \/ disk[g].holds \in Verified
  <2> SUFFICES ASSUME NEW g \in Files, Listed(P, g)
               PROVE  /\ overtaken \/ TrueOf(E, g)
                      /\ overtaken \/ mixed \/ disk[g].holds \in Verified
    OBVIOUS
  <2>1. PICK i \in ing.old : <<g, disk[g].ver>> \in i.packages
    BY DEF Listed
  <2>2. ing.old = {i}
    BY <1>1, <2>1 DEF GoodIndex
  <2>3. E = i.entries
    BY <2>2
  <2>4. GoodRec(i) /\ Listed(i.packages, g)
    BY <1>1, <2>1 DEF GoodIndex, Listed
  <2> HIDE DEF E
  <2> QED BY <2>3, <2>4 DEF GoodRec
<1>5. /\ m.packages = {p \in CurrentPackages : p[1] = f} \union {p \in P : p[1] # f /\ p[1] \in OnDisk}
      /\ m.entries = EntriesOf(f, ing.holds) \union {e \in E : e[1] # f /\ e[1] \in OnDisk}
      /\ m \in [packages : {m.packages}, entries : {m.entries}]
  BY DEF Merged
<1> HIDE DEF m, P, E
<1>6. EntriesOf(f, ing.holds) \in Pairs
      /\ \A g, s : <<g, s>> \in EntriesOf(f, ing.holds) <=> g = f /\ s \in ClaimSubjects[ing.holds]
  BY <1>1, ContentsAssumption DEF EntriesOf, Pairs
<1>7. m \in IndexRecs
  <2>1. m.packages \in Stats
    BY <1>2, <1>3, <1>5 DEF Stats
  <2>2. m.entries \in Pairs
    BY <1>3, <1>5, <1>6 DEF Pairs
  <2> QED BY <1>5, <2>1, <2>2 DEF IndexRecs
<1>8. \A p \in m.packages : p[2] <= changes
  BY <1>2, <1>3, <1>5
<1>9. ASSUME NEW g \in Files, Listed(m.packages, g)
      PROVE  /\ overtaken \/ TrueOf(m.entries, g)
             /\ overtaken \/ mixed \/ disk[g].holds \in Verified
  <2>1. CASE g = f
    <3>1. \A s \in Subjects : <<g, s>> \in m.entries <=> s \in ClaimSubjects[ing.holds]
      BY <1>5, <1>6, <2>1
    <3>2. overtaken \/ TrueOf(m.entries, g)
      BY <1>1, <2>1, <3>1 DEF TrueOf
    <3> QED BY <1>1, <2>1, <3>2, ContentsAssumption
  <2>2. CASE g # f
    <3>1. Listed(P, g) /\ g \in OnDisk
      BY <1>5, <1>9, <2>2 DEF Listed
    <3>2. \A s \in Subjects : <<g, s>> \in m.entries <=> <<g, s>> \in E
      BY <1>5, <1>6, <2>2, <3>1
    <3>3. TrueOf(E, g) => TrueOf(m.entries, g)
      BY <3>2 DEF TrueOf
    <3> QED BY <1>4, <3>1, <3>3
  <2> QED BY <2>1, <2>2
<1> QED BY <1>7, <1>8, <1>9 DEF GoodRec, m

\* The entries of the package replace its old ones.
LEMMA MergeKeepsInv ==
    ASSUME PkgInv, MergeIndex PROVE PkgInv'
<1>0. PICK m : m = Merged(ing.old)
  OBVIOUS
<1>1. /\ ing.pc = "merge" /\ IngestOnly /\ UNCHANGED FsVars /\ ing.file \in Files
      /\ UNCHANGED <<index, audited>> /\ ing' = [ing EXCEPT !.pc = "save", !.new = {m}]
  BY <1>0 DEF MergeIndex, IngestOnly, FsVars, PkgInv, IngestInv
<1>2. m \in IndexRecs /\ GoodRec(m)
  BY <1>0, <1>1, MergedIsGood
<1>3. /\ ing' \in IngestRecs /\ ing'.pc = "save" /\ ing'.file = ing.file
      /\ ing'.old = ing.old /\ ing'.new = {m}
  BY <1>1, <1>2, IngestTyped DEF IngestRecs, IngestPcs
<1>4. GoodIndex(index)' /\ GoodIndex(ing.old)'
  BY <1>1, <1>3, KeptCopies
<1>5. GoodRec(m)'
  BY <1>1, <1>2, SameDisk
<1>6. GoodIndex(ing.new)'
  BY <1>2, <1>3, <1>5 DEF GoodIndex
<1>7. audited' \in SUBSET Contents /\ AuditedWereTrusted'
  BY <1>1 DEF PkgInv, IngestInv, AuditedWereTrusted, FsVars
<1>8. IngestInv'
  BY <1>1, <1>3, <1>4, <1>6, <1>7 DEF IngestInv
<1> QED BY <1>1, <1>8, IngestApart

\* The merged index replaces the saved one.
LEMMA SaveMergedKeepsInv ==
    ASSUME PkgInv, SaveMerged PROVE PkgInv'
<1>1. /\ IngestOnly /\ UNCHANGED FsVars /\ UNCHANGED audited /\ ing' = NoIngest
      /\ index' = ing.new \/ index' = index
  BY DEF SaveMerged, IngestOnly, FsVars
<1>2. GoodIndex(index)'
  BY <1>1, SameDisk DEF PkgInv, IngestInv, GoodIndex
<1> QED BY <1>1, <1>2, IngestEnds

\* Every step keeps the invariant.
LEMMA PkgStepInv == PkgInv /\ [PkgNext]_pkgVars => PkgInv'
<1> SUFFICES ASSUME PkgInv, [PkgNext]_pkgVars PROVE PkgInv' OBVIOUS
<1>1. ASSUME NEW r \in Readers,
             \/ \E S \in SUBSET Subjects \ {{}} : StartFreeText(r, S)
             \/ \E s \in Subjects : StartExact(r, s)
             \/ ReadStep(r) \/ Return(r)
      PROVE  PkgInv'
  BY <1>1, StartKeepsInv, ReturnKeepsInv, UseIndexKeepsInv, UnpackKeepsInv, ProjectKeepsInv,
     ScannedKeepsInv, SaveIndexKeepsInv, ResolveKeepsInv, AnswerKeepsInv DEF ReadStep
<1>2. CASE IngestStep \/ RefuseRows \/ KillIngest
  BY <1>2, TrustKeepsInv, UnpackAgainKeepsInv, WriteKeepsInv, LoadKeepsInv, MergeKeepsInv,
     SaveMergedKeepsInv, RejectKeepsInv DEF IngestStep, RefuseRows, KillIngest
<1>3. CASE UNCHANGED pkgVars
  <2>1. IngestOnly /\ UNCHANGED FsVars /\ UNCHANGED <<index, ing, audited>>
    BY <1>3 DEF pkgVars, IngestOnly, FsVars
  <2>2. GoodIndex(index)'
    BY <2>1, KeptIndex DEF PkgInv, IngestInv
  <2>3. IngestInv'
    BY <2>1, <2>2, SameIngest DEF PkgInv
  <2> QED BY <2>1, <2>3, IngestApart
<1> QED
  BY <1>1, <1>2, <1>3, ChangeKeepsInv, VerifyKeepsInv, CrashKeepsInv DEF PkgNext

\* The inductive invariant is at least the one of the runs.
LEMMA PkgInvSafe == PkgInv => PackageSafety
<1> SUFFICES ASSUME PkgInv PROVE PackageSafety OBVIOUS
<1>0. DiskInv /\ IngestInv /\ ShapeInv /\ \A r \in Readers : ReadInv(r)
  BY DEF PkgInv
<1>1. PkgTypeOK
  <2>1. \A i \in index : i.packages \subseteq Files \X (0..MaxChanges) /\ i.entries \subseteq Files \X Subjects
    BY <1>0 DEF IngestInv, GoodIndex, IndexRecs, Stats, Pairs
  <2>2. \A r \in Readers : rd[r].pc \in ReadPcs /\ rd[r].todo \subseteq Files
    BY <1>0 DEF ShapeInv, ReadRecs
  <2>3. ing.pc \in IngestPcs /\ audited \subseteq Contents
    BY <1>0 DEF IngestInv, IngestRecs
  <2> QED BY <1>0, <2>1, <2>2, <2>3 DEF DiskInv, ShapeInv, PkgTypeOK
<1>2. ScansCertifyTruth
  <2> SUFFICES ASSUME ~overtaken, NEW i \in index, i.packages = CurrentPackages
               PROVE  {e \in i.entries : e[1] \in OnDisk} = TrueEntries
    BY DEF ScansCertifyTruth, FreshIndexIsTrue
  <2>1. i \in IndexRecs /\ GoodRec(i)
    BY <1>0 DEF IngestInv, GoodIndex
  <2>2. \A f \in OnDisk : TrueOf(i.entries, f)
    <3>1. \A f \in OnDisk : f \in Files /\ Listed(i.packages, f)
      BY <1>0, CurrentAreListed DEF OnDisk
    <3> QED BY <2>1, <3>1 DEF GoodRec
  <2>3. \A e \in i.entries : e[1] \in Files /\ e[2] \in Subjects /\ e = <<e[1], e[2]>>
    BY <2>1 DEF IndexRecs, Pairs
  <2>4. \A e : e \in TrueEntries <=>
           \E f \in OnDisk : \E s \in ClaimSubjects[disk[f].holds] : e = <<f, s>>
    BY DEF TrueEntries, EntriesOf
  <2>5. \A f \in OnDisk : ClaimSubjects[disk[f].holds] \subseteq Subjects
    BY <1>0, ContentsAssumption DEF DiskInv, OnDisk
  <2>6. ASSUME NEW e \in i.entries, e[1] \in OnDisk PROVE e \in TrueEntries
    <3>1. e[2] \in ClaimSubjects[disk[e[1]].holds]
      BY <2>2, <2>3, <2>6 DEF TrueOf
    <3> QED BY <2>3, <2>4, <2>6, <3>1
  <2>7. ASSUME NEW e \in TrueEntries PROVE e \in i.entries /\ e[1] \in OnDisk
    <3>1. PICK f \in OnDisk : \E s \in ClaimSubjects[disk[f].holds] : e = <<f, s>>
      BY <2>4, <2>7
    <3>2. PICK s \in ClaimSubjects[disk[f].holds] : e = <<f, s>>
      BY <3>1
    <3> QED BY <2>2, <2>5, <3>2 DEF TrueOf
  <2> QED BY <2>6, <2>7
<1>3. \A r \in Readers : rd[r].pc = "found" => \A f \in stable[r] \intersect OnDisk : Told(r, f)
  BY <1>0 DEF ReadInv, Still
<1>4. FoundIfThere
  BY <1>3 DEF FoundIfThere, Told
<1>5. BadPackageFailsReads
  BY <1>3 DEF BadPackageFailsReads, Told
<1> QED BY <1>0, <1>1, <1>2, <1>4, <1>5 DEF PackageSafety, IngestInv

\* PackageSafety (subject_index.load_or_rebuild, router, aphelion_ingest): an index served
\* as fresh is true, a read finds what stands still and fails on what does not verify, and
\* audit rows are of trusted packages, while the directory changes under every step.
THEOREM PackagesAreSafe == PkgSpec => []PackageSafety
<1> QED BY PkgInitInv, PkgStepInv, PkgInvSafe, PTL DEF PkgSpec
==============================================================================
