--------------------------- MODULE Clients_proofs ----------------------------
(*****************************************************************************)
(* The cache of model calls, the lookup of tokens, the extraction jobs and *)
(* memory.md imports, and the queries with their ranking, for any number of*)
(* processes, threads, prompts, tokens, users, requests, claims and rows.  *)
(*****************************************************************************)
EXTENDS LlmCall, Access, Extraction, Retrieval, FiniteSetTheorems,
        FunctionTheorems, SequenceTheorems, WellFoundedInduction, TLAPS

\* The members of S below m.
Below(S, m) == {k \in S : k < m}

\* A set of numbers has a least one.
LEMMA LeastElement ==
    ASSUME NEW S \in SUBSET Nat, S # {}
    PROVE  \E m \in S : \A k \in S : m <= k
<1> DEFINE T == {Below(S, m) : m \in S}
<1>0. \A m \in S : m \in Nat
  OBVIOUS
<1>1. \A m \in S : IsFiniteSet(Below(S, m))
  <2> SUFFICES ASSUME NEW m \in S PROVE IsFiniteSet(Below(S, m)) OBVIOUS
  <2>1. \A k \in Below(S, m) : k \in Nat /\ k <= m
    BY <1>0 DEF Below
  <2> QED BY <1>0, <2>1, FS_BoundedSetOfNaturals
<1>2. T \subseteq FiniteSubsetsOf(S)
  BY <1>1 DEF FiniteSubsetsOf, Below
<1>3. PICK x \in T : \A y \in T : ~(<<y, x>> \in StrictSubsetOrdering(S))
  <2>1. T # {} OBVIOUS
  <2> HIDE DEF T
  <2> QED BY <1>2, <2>1, FS_StrictSubsetOrderingWellFounded, WFMin
<1>4. PICK m \in S : x = Below(S, m)
  OBVIOUS
<1>5. ASSUME NEW k \in S, k < m PROVE FALSE
  <2>1. Below(S, k) \in T
    OBVIOUS
  <2>2. ASSUME NEW j \in Below(S, k) PROVE j \in Below(S, m)
    <3>1. j \in S /\ j < k /\ j \in Nat /\ k \in Nat /\ m \in Nat
      BY <1>0 DEF Below
    <3> QED BY <1>5, <3>1 DEF Below
  <2>3. k \in Below(S, m) /\ k \notin Below(S, k)
    BY <1>0, <1>5 DEF Below
  <2>4. Below(S, k) \subseteq S /\ Below(S, m) \subseteq S
    BY DEF Below
  <2> HIDE DEF T
  <2> QED BY <1>3, <1>4, <2>1, <2>2, <2>3, <2>4 DEF StrictSubsetOrdering
<1> QED BY <1>0, <1>5

(* ------------------------------ model calls ---------------------------- *)

CallRecs == [pc : {"idle", "wait", "look", "dispatch", "put", "done"},
             prompt : Prompts \union {"none"}, fallback : BOOLEAN, model : Models,
             tries : 0..(Attempts - 1), got : Texts \union {"none", "cached", "error"}]

\* A thread that is past the lock holds its process's lock, alone.
LockKept ==
    /\ lock \in [Processes -> SUBSET Threads]
    /\ \A p \in Processes : \A t \in lock[p] : lock[p] = {t} /\ ProcessOf[t] = p
    /\ \A t \in Threads : call[t].pc \in {"look", "dispatch", "put", "done"} => t \in lock[ProcessOf[t]]

\* What a thread knows of its call.
CallsKept ==
    /\ call \in [Threads -> CallRecs]
    /\ calls \in 0..MaxCalls /\ said \subseteq Models \X Prompts \X Texts
    /\ \A t \in Threads :
         /\ call[t].pc # "idle" => call[t].prompt \in Prompts /\ calls > 0
         /\ call[t].pc = "put" =>
              /\ call[t].got \in Texts \ Uncacheable
              /\ <<call[t].model, call[t].prompt, call[t].got>> \in said

\* A row is a whole answer, under its own key.
CacheKept ==
    /\ DOMAIN cache \subseteq Models \X Prompts
    /\ CacheIsWholeAndTrue

\* A thread that holds an answer of the primary to put away.
InHand(t) == call[t].pc = "put" /\ call[t].model = Primary

\* A process pays for one answer more than those that left nothing under the
\* primary's key, and then that one is there or about to be put.
HerdKept ==
    /\ paid \in [Processes -> [Prompts -> Nat]] /\ unkept \in [Processes -> [Prompts -> Nat]]
    /\ \A p \in Processes, q \in Prompts :
         \/ paid[p][q] = unkept[p][q]
         \/ /\ paid[p][q] = unkept[p][q] + 1
            /\ \/ <<Primary, q>> \in DOMAIN cache
               \/ \E t \in lock[p] : InHand(t) /\ call[t].prompt = q
    /\ \A t \in Threads :
         LET p == ProcessOf[t]
             q == call[t].prompt
         IN  /\ call[t].pc \in {"dispatch", "put"} /\ ~InHand(t) => paid[p][q] = unkept[p][q]
             /\ InHand(t) => paid[p][q] = unkept[p][q] + 1

LlmInv == LockKept /\ CallsKept /\ CacheKept /\ HerdKept

\* The inductive invariant is at least the one of the runs.
LEMMA LlmInvImplies == LlmInv => CallSafety
<1> SUFFICES ASSUME LlmInv PROVE CallSafety OBVIOUS
<1> USE DEF LlmInv
<1>1. ASSUME NEW p \in Processes PROVE lock[p] \subseteq Threads /\ Cardinality(lock[p]) <= 1
  <2>1. lock[p] = {} \/ \E t : lock[p] = {t}
    <3>1. CASE lock[p] # {}
      <4>1. PICK t \in lock[p] : TRUE
        BY <3>1
      <4>2. lock[p] = {t}
        BY <4>1 DEF LockKept
      <4> QED BY <4>2
    <3> QED BY <3>1
  <2>2. Cardinality(lock[p]) \in {0, 1}
    BY <2>1, FS_EmptySet, FS_Singleton
  <2> QED BY <2>2 DEF LockKept
<1>2. \A t \in Threads : /\ call[t].pc \in {"idle", "wait", "look", "dispatch", "put", "done"}
                         /\ call[t].tries \in 0..(Attempts - 1)
  BY DEF CallsKept, CallRecs
<1>3. ASSUME NEW p \in Processes, NEW q \in Prompts PROVE paid[p][q] <= 1 + unkept[p][q]
  <2>1. paid[p][q] \in Nat /\ unkept[p][q] \in Nat
    BY DEF HerdKept
  <2>2. paid[p][q] = unkept[p][q] \/ paid[p][q] = unkept[p][q] + 1
    BY DEF HerdKept
  <2> QED BY <2>1, <2>2
<1>4. LlmTypeOK
  BY <1>1, <1>2 DEF LlmTypeOK, CallsKept, CacheKept, HerdKept
<1> QED BY <1>3, <1>4 DEF CallSafety, CacheKept, HerdAsksOnce

\* No call, an empty cache and free locks.
LEMMA LlmInitInv == LlmInit => LlmInv
<1> SUFFICES ASSUME LlmInit PROVE LlmInv OBVIOUS
<1> USE DEF LlmInit
<1>1. Idle \in CallRecs /\ Idle.pc = "idle"
  BY LlmAssumption DEF Idle, CallRecs, Models
<1>2. DOMAIN cache = {}
  OBVIOUS
<1>3. LockKept
  BY <1>1 DEF LockKept
<1>4. CallsKept
  BY <1>1, LlmAssumption DEF CallsKept
<1>5. CacheKept
  BY <1>2 DEF CacheKept, CacheIsWholeAndTrue
<1>6. HerdKept
  BY <1>1 DEF HerdKept, InHand
<1> QED BY <1>3, <1>4, <1>5, <1>6 DEF LlmInv

\* The record of a call that begins.
LEMMA BegunRec ==
    ASSUME NEW q \in Prompts, NEW fb \in BOOLEAN,
           NEW c, c = [Idle EXCEPT !.pc = "wait", !.prompt = q, !.fallback = fb]
    PROVE  c \in CallRecs /\ c.pc = "wait" /\ c.prompt = q
<1>1. 0 \in 0..(Attempts - 1) /\ Primary \in Models
  BY LlmAssumption DEF Models
<1>2. ASSUME NEW b \in BOOLEAN,
             NEW d, d = [Idle EXCEPT !.pc = "wait", !.prompt = q, !.fallback = b]
      PROVE  d = [pc |-> "wait", prompt |-> q, fallback |-> b, model |-> Primary, tries |-> 0,
                  got |-> "none"]
  BY <1>2 DEF Idle
<1>3. c = [pc |-> "wait", prompt |-> q, fallback |-> fb, model |-> Primary, tries |-> 0,
           got |-> "none"]
  BY <1>2
<1>4. /\ "wait" \in {"idle", "wait", "look", "dispatch", "put", "done"}
      /\ q \in Prompts \union {"none"} /\ "none" \in Texts \union {"none", "cached", "error"}
  OBVIOUS
<1>5. c.pc = "wait" /\ c.prompt = q
  BY <1>3
<1>6. c \in CallRecs
  <2>1. ASSUME NEW C, fb \in C
        PROVE  c \in [pc : {"idle", "wait", "look", "dispatch", "put", "done"},
                      prompt : Prompts \union {"none"}, fallback : C, model : Models,
                      tries : 0..(Attempts - 1), got : Texts \union {"none", "cached", "error"}]
    BY <1>1, <1>3, <1>4, <2>1
  <2>2. fb \in BOOLEAN
    OBVIOUS
  <2> QED BY <2>1, <2>2, Zenon DEF CallRecs
<1> QED BY <1>5, <1>6

\* A call begins, or gets the lock.
LEMMA BeginKeeps ==
    ASSUME LlmInv, NEW t \in Threads,
           (\E q \in Prompts, fb \in BOOLEAN : Begin(t, q, fb)) \/ TakeLock(t)
    PROVE  LlmInv'
<1> USE DEF LlmInv
<1>1. ASSUME NEW q \in Prompts, NEW fb \in BOOLEAN, Begin(t, q, fb) PROVE LlmInv'
  <2>1. /\ call[t].pc = "idle" /\ calls < MaxCalls /\ calls' = calls + 1
        /\ call' = [call EXCEPT ![t] = [Idle EXCEPT !.pc = "wait", !.prompt = q, !.fallback = fb]]
        /\ UNCHANGED <<cache, lock, said, accounts>>
    BY <1>1 DEF Begin
  <2>2. /\ call' \in [Threads -> CallRecs] /\ call'[t].pc = "wait" /\ call'[t].prompt = q
        /\ \A u \in Threads : u # t => call'[u] = call[u]
    <3>1. PICK c : c = [Idle EXCEPT !.pc = "wait", !.prompt = q, !.fallback = fb]
      OBVIOUS
    <3>2. c \in CallRecs /\ c.pc = "wait" /\ c.prompt = q
      BY <3>1, BegunRec
    <3>3. call' = [call EXCEPT ![t] = c]
      BY <2>1, <3>1, Zenon
    <3> QED BY <3>2, <3>3 DEF CallsKept
  <2>3. LockKept'
    BY <2>1, <2>2 DEF LockKept
  <2>4. CallsKept'
    BY <2>1, <2>2, LlmAssumption DEF CallsKept
  <2>5. CacheKept'
    BY <2>1 DEF CacheKept, CacheIsWholeAndTrue
  <2>6. HerdKept'
    <3>1. \A u \in Threads : u # t => InHand(u)' = InHand(u)
      BY <2>2 DEF InHand
    <3>2. ~InHand(t) /\ ~InHand(t)'
      BY <2>1, <2>2 DEF InHand
    <3> QED BY <2>1, <2>2, <3>1, <3>2 DEF HerdKept, accounts, LockKept
  <2> QED BY <2>3, <2>4, <2>5, <2>6
<1>2. CASE TakeLock(t)
  <2> DEFINE p == ProcessOf[t]
  <2>1. /\ call[t].pc = "wait" /\ lock[p] = {} /\ lock' = [lock EXCEPT ![p] = {t}]
        /\ call' = [call EXCEPT ![t].pc = "look"]
        /\ UNCHANGED <<cache, calls, said, accounts>>
    BY <1>2 DEF TakeLock, Goto
  <2>2. /\ call' \in [Threads -> CallRecs] /\ call'[t].pc = "look" /\ call'[t].prompt = call[t].prompt
        /\ \A u \in Threads : u # t => call'[u] = call[u]
    BY <2>1 DEF CallsKept, CallRecs
  <2>3. /\ p \in Processes /\ lock'[p] = {t}
        /\ \A r \in Processes : r # p => lock'[r] = lock[r]
    BY <2>1, LlmAssumption DEF LockKept
  <2>4. LockKept'
    <3>1. lock' \in [Processes -> SUBSET Threads]
      BY <2>1 DEF LockKept
    <3>2. \A r \in Processes : \A u \in lock'[r] : lock'[r] = {u} /\ ProcessOf[u] = r
      BY <2>3 DEF LockKept
    <3>3. \A u \in Threads :
             call'[u].pc \in {"look", "dispatch", "put", "done"} => u \in lock'[ProcessOf[u]]
      BY <2>1, <2>2, <2>3, LlmAssumption DEF LockKept
    <3> QED BY <3>1, <3>2, <3>3 DEF LockKept
  <2>5. CallsKept'
    BY <2>1, <2>2 DEF CallsKept
  <2>6. CacheKept'
    BY <2>1 DEF CacheKept, CacheIsWholeAndTrue
  <2>7. HerdKept'
    <3>1. \A u \in Threads : u # t => InHand(u)' = InHand(u)
      BY <2>2 DEF InHand
    <3>2. ~InHand(t) /\ ~InHand(t)'
      BY <2>1, <2>2 DEF InHand
    <3>3. ASSUME NEW r \in Processes, NEW q \in Prompts,
                 \E u \in lock[r] : InHand(u) /\ call[u].prompt = q
          PROVE  \E u \in lock'[r] : InHand(u)' /\ call'[u].prompt = q
      <4>1. PICK u \in lock[r] : InHand(u) /\ call[u].prompt = q
        BY <3>3
      <4>2. r # p /\ u # t /\ u \in Threads
        BY <2>1, <3>2, <4>1 DEF LockKept
      <4> QED BY <2>2, <2>3, <3>1, <4>1, <4>2
    <3> QED BY <2>1, <2>2, <3>1, <3>2, <3>3 DEF HerdKept, accounts
  <2> QED BY <2>4, <2>5, <2>6, <2>7
<1> QED BY <1>1, <1>2

\* Under the lock: the cache is asked, and only a miss goes on.
LEMMA LookKeeps == ASSUME LlmInv, NEW t \in Threads, Look(t) PROVE LlmInv'
<1> USE DEF LlmInv
<1>1. /\ call[t].pc = "look" /\ UNCHANGED <<cache, lock, calls, said, accounts>>
      /\ IF <<Primary, call[t].prompt>> \in DOMAIN cache
           THEN call' = [call EXCEPT ![t].pc = "done", ![t].got = "cached"]
           ELSE call' = [call EXCEPT ![t].pc = "dispatch"]
  BY DEF Look, Goto, Return
<1>2. /\ call' \in [Threads -> CallRecs] /\ call'[t].pc \in {"done", "dispatch"}
      /\ call'[t].prompt = call[t].prompt
      /\ call'[t].pc = "dispatch" => <<Primary, call[t].prompt>> \notin DOMAIN cache
      /\ \A u \in Threads : u # t => call'[u] = call[u]
  BY <1>1 DEF CallsKept, CallRecs
<1>3. LockKept'
  BY <1>1, <1>2 DEF LockKept
<1>4. CallsKept'
  BY <1>1, <1>2 DEF CallsKept
<1>5. CacheKept'
  BY <1>1 DEF CacheKept, CacheIsWholeAndTrue
<1>6. HerdKept'
  <2> DEFINE p == ProcessOf[t]
             q == call[t].prompt
  <2>1. \A u \in Threads : u # t => InHand(u)' = InHand(u)
    BY <1>2 DEF InHand
  <2>2. ~InHand(t) /\ ~InHand(t)'
    BY <1>1, <1>2 DEF InHand
  <2>3. p \in Processes /\ q \in Prompts /\ lock[p] = {t}
    BY <1>1, LlmAssumption DEF LockKept, CallsKept
  <2>4. call'[t].pc = "dispatch" => paid[p][q] = unkept[p][q]
    BY <1>2, <2>2, <2>3 DEF HerdKept
  <2>5. /\ UNCHANGED <<cache, lock, paid, unkept>>
        /\ \A u \in Threads : u # t => call'[u] = call[u]
        /\ call'[t].prompt = q
    BY <1>1, <1>2 DEF accounts
  <2>6. ASSUME NEW r \in Processes, NEW z \in Prompts,
               \E u \in lock[r] : InHand(u) /\ call[u].prompt = z
        PROVE  \E u \in lock[r] : InHand(u)' /\ call'[u].prompt = z
    <3>1. PICK u \in lock[r] : InHand(u) /\ call[u].prompt = z
      BY <2>6
    <3>2. u \in Threads /\ u # t
      BY <2>2, <3>1 DEF LockKept
    <3> QED BY <2>1, <2>5, <3>1, <3>2
  <2>7. ASSUME NEW r \in Processes, NEW z \in Prompts
        PROVE  \/ paid[r][z] = unkept[r][z]
               \/ /\ paid[r][z] = unkept[r][z] + 1
                  /\ \/ <<Primary, z>> \in DOMAIN cache
                     \/ \E u \in lock[r] : InHand(u)' /\ call'[u].prompt = z
    BY <2>6 DEF HerdKept
  <2>8. ASSUME NEW u \in Threads
        PROVE  LET r == ProcessOf[u]
                   z == call'[u].prompt
               IN  /\ call'[u].pc \in {"dispatch", "put"} /\ ~InHand(u)' => paid[r][z] = unkept[r][z]
                   /\ InHand(u)' => paid[r][z] = unkept[r][z] + 1
    <3>1. CASE u = t
      BY <1>2, <2>2, <2>4, <2>5, <3>1
    <3>2. CASE u # t
      BY <2>1, <2>5, <3>2 DEF HerdKept
    <3> QED BY <3>1, <3>2
  <2>9. paid \in [Processes -> [Prompts -> Nat]] /\ unkept \in [Processes -> [Prompts -> Nat]]
    BY DEF HerdKept
  <2> QED BY <2>5, <2>7, <2>8, <2>9 DEF HerdKept
<1> QED BY <1>3, <1>4, <1>5, <1>6

\* One account of a caller's process and prompt grows, or none.
LEMMA CountedOnce ==
    ASSUME NEW count \in [Processes -> [Prompts -> Nat]], NEW t \in Threads,
           call[t].prompt \in Prompts, NEW b \in BOOLEAN, NEW after, after = Counted(count, t, b)
    PROVE  /\ after \in [Processes -> [Prompts -> Nat]]
           /\ LET p == ProcessOf[t]
                  q == call[t].prompt
              IN  /\ after[p][q] = IF b THEN count[p][q] + 1 ELSE count[p][q]
                  /\ \A r \in Processes, z \in Prompts :
                       r # p \/ z # q => after[r][z] = count[r][z]
<1> DEFINE p == ProcessOf[t]
           q == call[t].prompt
<1>1. p \in Processes
  BY LlmAssumption
<1>2. CASE b
  <2>1. after = [count EXCEPT ![p][q] = count[p][q] + 1]
    BY <1>2 DEF Counted
  <2>2. after = [count EXCEPT ![p] = [count[p] EXCEPT ![q] = count[p][q] + 1]]
    BY <2>1
  <2>3. PICK row \in [Prompts -> Nat] :
            /\ row = [count[p] EXCEPT ![q] = count[p][q] + 1] /\ row[q] = count[p][q] + 1
            /\ \A z \in Prompts : z # q => row[z] = count[p][z]
    <3>1. PICK old \in [Prompts -> Nat] : old = count[p]
      BY <1>1
    <3>2. old[q] + 1 \in Nat /\ q \in Prompts
      OBVIOUS
    <3>3. PICK n \in Nat : n = old[q] + 1
      BY <3>2
    <3>4. [old EXCEPT ![q] = n] \in [Prompts -> Nat]
      BY <3>2
    <3> QED BY <3>1, <3>2, <3>3, <3>4
  <2>4. after \in [Processes -> [Prompts -> Nat]] /\ after[p] = row
    BY <1>1, <2>2, <2>3
  <2>5. \A r \in Processes : r # p => after[r] = count[r]
    BY <2>2
  <2>6. after[p][q] = count[p][q] + 1
    BY <2>3, <2>4
  <2>7. \A r \in Processes, z \in Prompts : r # p \/ z # q => after[r][z] = count[r][z]
    BY <2>3, <2>4, <2>5
  <2> QED BY <1>2, <2>4, <2>6, <2>7
<1>3. CASE ~b
  <2>1. after = count
    BY <1>3 DEF Counted
  <2> QED BY <1>1, <1>3, <2>1
<1> QED BY <1>2, <1>3

\* A step of the thread that holds its process's lock, as the accounts see it.
LEMMA HerdMoves ==
    ASSUME LlmInv, NEW t \in Threads, call[t].pc \in {"dispatch", "put"}, lock' = lock,
           call'[t].prompt = call[t].prompt,
           \A u \in Threads : u # t => call'[u] = call[u],
           DOMAIN cache \subseteq DOMAIN cache',
           paid' \in [Processes -> [Prompts -> Nat]], unkept' \in [Processes -> [Prompts -> Nat]],
           \A r \in Processes, z \in Prompts : r # ProcessOf[t] \/ z # call[t].prompt =>
               paid'[r][z] = paid[r][z] /\ unkept'[r][z] = unkept[r][z],
           LET p == ProcessOf[t]
               q == call[t].prompt
           IN  /\ \/ paid'[p][q] = unkept'[p][q] /\ ~InHand(t)'
                  \/ /\ paid'[p][q] = unkept'[p][q] + 1
                     /\ InHand(t)' \/ (<<Primary, q>> \in DOMAIN cache' /\ call'[t].pc = "done")
    PROVE  HerdKept'
<1> USE DEF LlmInv
<1> DEFINE p == ProcessOf[t]
           q == call[t].prompt
<1>1. p \in Processes /\ q \in Prompts /\ lock[p] = {t}
  BY LlmAssumption DEF LockKept, CallsKept
<1>2. \A u \in Threads : u # t => InHand(u)' = InHand(u)
  BY DEF InHand
<1>3. ASSUME NEW r \in Processes, NEW z \in Prompts, r # p \/ z # q
      PROVE  \/ paid'[r][z] = unkept'[r][z]
             \/ /\ paid'[r][z] = unkept'[r][z] + 1
                /\ \/ <<Primary, z>> \in DOMAIN cache'
                   \/ \E u \in lock'[r] : InHand(u)' /\ call'[u].prompt = z
  <2>1. paid'[r][z] = paid[r][z] /\ unkept'[r][z] = unkept[r][z]
    BY <1>3
  <2>2. \/ paid[r][z] = unkept[r][z]
        \/ /\ paid[r][z] = unkept[r][z] + 1
           /\ \/ <<Primary, z>> \in DOMAIN cache
              \/ \E u \in lock[r] : InHand(u) /\ call[u].prompt = z
    BY DEF HerdKept
  <2>3. CASE \E u \in lock[r] : InHand(u) /\ call[u].prompt = z
    <3>1. PICK u \in lock[r] : InHand(u) /\ call[u].prompt = z
      BY <2>3
    <3>2. u \in Threads /\ u # t
      BY <1>1, <1>3, <3>1 DEF LockKept
    <3>3. InHand(u)' /\ call'[u].prompt = z
      BY <1>2, <3>1, <3>2
    <3> QED BY <2>1, <2>2, <3>1, <3>3
  <2>4. CASE ~\E u \in lock[r] : InHand(u) /\ call[u].prompt = z
    BY <2>1, <2>4, <2>2
  <2> QED BY <2>3, <2>4
<1>4. \/ paid'[p][q] = unkept'[p][q]
      \/ /\ paid'[p][q] = unkept'[p][q] + 1
         /\ \/ <<Primary, q>> \in DOMAIN cache'
            \/ \E u \in lock'[p] : InHand(u)' /\ call'[u].prompt = q
  BY <1>1
<1>5. ASSUME NEW u \in Threads, u # t, call'[u].pc \in {"dispatch", "put"}
      PROVE  LET r == ProcessOf[u]
                 z == call'[u].prompt
             IN  /\ ~InHand(u)' => paid'[r][z] = unkept'[r][z]
                 /\ InHand(u)' => paid'[r][z] = unkept'[r][z] + 1
  <2>1. call'[u] = call[u] /\ ProcessOf[u] # p
    BY <1>1, <1>5 DEF LockKept
  <2>2. ProcessOf[u] \in Processes /\ call[u].prompt \in Prompts
    BY <1>5, <2>1, LlmAssumption DEF CallsKept
  <2> QED BY <1>2, <1>5, <2>1, <2>2 DEF HerdKept
<1>6. \A u \in Threads : InHand(u)' => call'[u].pc = "put"
  BY DEF InHand
<1> QED
  <2>1. \A r \in Processes, z \in Prompts :
          \/ paid'[r][z] = unkept'[r][z]
          \/ /\ paid'[r][z] = unkept'[r][z] + 1
             /\ \/ <<Primary, z>> \in DOMAIN cache'
                \/ \E u \in lock'[r] : InHand(u)' /\ call'[u].prompt = z
    <3> SUFFICES ASSUME NEW r \in Processes, NEW z \in Prompts
                 PROVE  \/ paid'[r][z] = unkept'[r][z]
                        \/ /\ paid'[r][z] = unkept'[r][z] + 1
                           /\ \/ <<Primary, z>> \in DOMAIN cache'
                              \/ \E u \in lock'[r] : InHand(u)' /\ call'[u].prompt = z
      OBVIOUS
    <3>1. CASE r = p /\ z = q
      BY <1>4, <3>1
    <3>2. CASE r # p \/ z # q
      BY <1>3, <3>2
    <3> QED BY <3>1, <3>2
  <2>2. ASSUME NEW u \in Threads
        PROVE  LET r == ProcessOf[u]
                   z == call'[u].prompt
               IN  /\ call'[u].pc \in {"dispatch", "put"} /\ ~InHand(u)' => paid'[r][z] = unkept'[r][z]
                   /\ InHand(u)' => paid'[r][z] = unkept'[r][z] + 1
    <3>1. CASE u = t
      <4>1. unkept'[p][q] \in Nat /\ paid'[p][q] \in Nat
        BY <1>1
      <4> QED BY <1>6, <3>1, <4>1
    <3>2. CASE u # t
      BY <1>5, <1>6, <3>2
    <3> QED BY <3>1, <3>2
  <2> QED BY <2>1, <2>2 DEF HerdKept

\* An attempt: what was said is recorded, and only whole answers are to be put.
LEMMA DispatchKeeps ==
    ASSUME LlmInv, NEW t \in Threads, NEW a \in Answers, Dispatch(t, a)
    PROVE  LlmInv'
<1> USE DEF LlmInv
<1>1. /\ call[t].pc = "dispatch" /\ UNCHANGED <<cache, lock, calls>>
      /\ said' = IF a \in Texts THEN said \union {<<call[t].model, call[t].prompt, a>>} ELSE said
  BY DEF Dispatch
<1>2. /\ call[t].model \in Models /\ call[t].prompt \in Prompts /\ call[t] \in CallRecs
      /\ call \in [Threads -> CallRecs]
  BY <1>1 DEF CallsKept, CallRecs
<1>3. /\ call' \in [Threads -> CallRecs]
      /\ call'[t].pc \in {"put", "done", "dispatch"} /\ call'[t].prompt = call[t].prompt
      /\ call'[t].pc = "put" => a \in Texts \ Uncacheable /\ call'[t].got = a /\ call'[t].model = call[t].model
      /\ \A u \in Threads : u # t => call'[u] = call[u]
  <2>1. CASE a \in Texts \ Uncacheable /\ call' = [call EXCEPT ![t].pc = "put", ![t].got = a]
    BY <1>2, <2>1 DEF CallRecs
  <2>2. CASE a \in Uncacheable /\ call' = [call EXCEPT ![t].pc = "done", ![t].got = a]
    BY <1>2, <2>2 DEF CallRecs, Texts, Uncacheable
  <2>3. CASE call[t].tries + 1 < Attempts /\ call' = [call EXCEPT ![t].tries = call[t].tries + 1]
    <3>1. call[t].tries + 1 \in 0..(Attempts - 1)
      BY <1>2, <2>3, LlmAssumption DEF CallRecs
    <3> QED BY <1>1, <1>2, <2>3, <3>1 DEF CallRecs
  <2>4. CASE call' = [call EXCEPT ![t].model = Fallback, ![t].tries = 0]
    <3>1. 0 \in 0..(Attempts - 1) /\ Fallback \in Models
      BY LlmAssumption DEF Models
    <3>2. call'[t] = [call[t] EXCEPT !.model = Fallback, !.tries = 0]
      BY <1>2, <2>4
    <3>3. /\ call'[t] \in CallRecs /\ call'[t].pc = "dispatch" /\ call'[t].prompt = call[t].prompt
      BY <1>1, <1>2, <3>1, <3>2 DEF CallRecs
    <3>4. call' = [call EXCEPT ![t] = call'[t]]
      BY <1>2, <2>4, <3>2
    <3> QED BY <1>2, <3>3, <3>4
  <2>5. CASE call' = [call EXCEPT ![t].pc = "done", ![t].got = "error"]
    BY <1>2, <2>5 DEF CallRecs
  <2> QED BY <2>1, <2>2, <2>3, <2>4, <2>5 DEF Dispatch, Return
<1>4. said \subseteq said' /\ said' \subseteq Models \X Prompts \X Texts
  BY <1>1, <1>2 DEF CallsKept
<1>5. LockKept'
  BY <1>1, <1>3 DEF LockKept
<1>6. CallsKept'
  BY <1>1, <1>2, <1>3, <1>4 DEF CallsKept
<1>7. CacheKept'
  BY <1>1, <1>4 DEF CacheKept, CacheIsWholeAndTrue
<1>8. HerdKept'
  <2> DEFINE p == ProcessOf[t]
             q == call[t].prompt
  <2>1. paid[p][q] = unkept[p][q] /\ p \in Processes
    BY <1>1, LlmAssumption DEF HerdKept, InHand
  <2>2. PICK b \in BOOLEAN, l \in BOOLEAN :
            /\ b <=> PaidFor(a)
            /\ l <=> PaidFor(a) /\ Loose(call[t].model, a)
            /\ paid' = Counted(paid, t, b) /\ unkept' = Counted(unkept, t, l)
    <3>1. PaidFor(a) \in BOOLEAN /\ (PaidFor(a) /\ Loose(call[t].model, a)) \in BOOLEAN
      BY DEF PaidFor
    <3>2. paid' = Counted(paid, t, PaidFor(a))
          /\ unkept' = Counted(unkept, t, PaidFor(a) /\ Loose(call[t].model, a))
      BY DEF Dispatch
    <3> QED BY <3>1, <3>2, Zenon
  <2>3. /\ paid' \in [Processes -> [Prompts -> Nat]] /\ unkept' \in [Processes -> [Prompts -> Nat]]
        /\ paid'[p][q] = IF b THEN paid[p][q] + 1 ELSE paid[p][q]
        /\ unkept'[p][q] = IF l THEN unkept[p][q] + 1 ELSE unkept[p][q]
        /\ \A r \in Processes, z \in Prompts : r # p \/ z # q =>
             paid'[r][z] = paid[r][z] /\ unkept'[r][z] = unkept[r][z]
    <3>1. paid \in [Processes -> [Prompts -> Nat]] /\ unkept \in [Processes -> [Prompts -> Nat]]
      BY DEF HerdKept
    <3> QED BY <1>2, <2>2, <3>1, CountedOnce
  <2>4. InHand(t)' <=> b /\ ~l
    <3>1. CASE a \in Texts \ Uncacheable
      <4>1. call'[t].pc = "put" /\ call'[t].model = call[t].model
        BY <1>2, <3>1 DEF Dispatch, Texts, Uncacheable, Retried, Final, FallsBack, Return, CallRecs
      <4>2. b /\ (l <=> call[t].model # Primary)
        BY <2>2, <3>1 DEF PaidFor, Loose, Texts, Uncacheable
      <4> QED BY <1>2, <4>1, <4>2 DEF InHand
    <3>2. CASE a \notin Texts \ Uncacheable
      <4>1. call'[t].pc # "put"
        BY <1>3, <3>2
      <4>2. b => l
        BY <2>2, <3>2 DEF PaidFor, Loose, Texts, Uncacheable
      <4> QED BY <4>1, <4>2 DEF InHand
    <3> QED BY <3>1, <3>2
  <2>5. \/ paid'[p][q] = unkept'[p][q] /\ ~InHand(t)'
        \/ paid'[p][q] = unkept'[p][q] + 1 /\ InHand(t)'
    <3>1. l => b
      BY <2>2
    <3>2. unkept[p][q] \in Nat
      BY <1>2, <2>1 DEF HerdKept
    <3>3. CASE b /\ ~l
      BY <2>1, <2>3, <2>4, <3>3
    <3>4. CASE b = l
      BY <2>1, <2>3, <2>4, <3>2, <3>4
    <3> QED BY <3>1, <3>3, <3>4
  <2> QED BY <1>1, <1>3, <2>3, <2>5, HerdMoves
<1> QED BY <1>5, <1>6, <1>7, <1>8

\* The row is put under the key of the model that answered, by the only thread
\* of its process that has an answer.
LEMMA PutKeeps ==
    ASSUME LlmInv, NEW t \in Threads, NEW ok \in BOOLEAN, Put(t, ok)
    PROVE  LlmInv'
<1> USE DEF LlmInv
<1> DEFINE key == <<call[t].model, call[t].prompt>>
           row == [model |-> call[t].model, stop |-> call[t].got]
<1>1. call[t].pc = "put" /\ UNCHANGED <<lock, calls, said>>
  BY DEF Put
<1>2. /\ call[t].model \in Models /\ call[t].prompt \in Prompts /\ calls > 0
      /\ call[t].got \in Texts \ Uncacheable
      /\ <<call[t].model, call[t].prompt, call[t].got>> \in said
      /\ call \in [Threads -> CallRecs]
  BY <1>1 DEF CallsKept, CallRecs
<1>3. call' = [call EXCEPT ![t].pc = "done", ![t].got = IF ok THEN call[t].got ELSE "error"]
  BY DEF Put, Return
<1>4. /\ call' \in [Threads -> CallRecs] /\ call'[t].pc = "done" /\ call'[t].prompt = call[t].prompt
      /\ \A u \in Threads : u # t => call'[u] = call[u]
  <2>1. PICK g \in Texts \union {"error"} : call' = [call EXCEPT ![t].pc = "done", ![t].got = g]
    BY <1>2, <1>3
  <2> DEFINE c == [call[t] EXCEPT !.pc = "done", !.got = g]
  <2>2. call' = [call EXCEPT ![t] = c]
    BY <2>1
  <2>3. c \in CallRecs /\ c.pc = "done" /\ c.prompt = call[t].prompt
    BY <1>2 DEF CallRecs
  <2> HIDE DEF c
  <2> QED BY <1>2, <2>2, <2>3
<1>5. /\ DOMAIN cache' = IF ok THEN DOMAIN cache \union {key} ELSE DOMAIN cache
      /\ \A k \in DOMAIN cache' : cache'[k] = IF ok /\ k = key THEN row ELSE cache[k]
  <2>1. CASE ok
    BY <2>1 DEF Put
  <2>2. CASE ~ok
    BY <2>2 DEF Put
  <2> QED BY <2>1, <2>2
<1>6. LockKept'
  BY <1>1, <1>4 DEF LockKept
<1>7. CallsKept'
  BY <1>1, <1>2, <1>4 DEF CallsKept
<1>8. CacheKept'
  <2>1. DOMAIN cache' \subseteq Models \X Prompts
    BY <1>2, <1>5 DEF CacheKept
  <2>2. ASSUME NEW k \in DOMAIN cache'
        PROVE  /\ cache'[k].model = k[1] /\ cache'[k].stop \notin Uncacheable
               /\ <<k[1], k[2], cache'[k].stop>> \in said'
    <3>1. CASE ok /\ k = key
      BY <1>1, <1>2, <1>5, <3>1
    <3>2. CASE ~(ok /\ k = key)
      BY <1>1, <1>5, <3>2 DEF CacheKept, CacheIsWholeAndTrue
    <3> QED BY <3>1, <3>2
  <2> QED BY <2>1, <2>2 DEF CacheKept, CacheIsWholeAndTrue
<1>9. HerdKept'
  <2> DEFINE p == ProcessOf[t]
             q == call[t].prompt
             b == ~ok /\ call[t].model = Primary
  <2>1. p \in Processes /\ paid' = paid /\ paid[p][q] \in Nat /\ unkept[p][q] \in Nat
    <3>1. p \in Processes /\ q \in Prompts
      BY <1>2, LlmAssumption
    <3>2. paid \in [Processes -> [Prompts -> Nat]] /\ unkept \in [Processes -> [Prompts -> Nat]]
      BY DEF HerdKept
    <3>3. paid' = paid
      BY DEF Put
    <3> QED BY <3>1, <3>2, <3>3
  <2>2. unkept' = Counted(unkept, t, b) /\ b \in BOOLEAN
    BY DEF Put
  <2>3. /\ unkept' \in [Processes -> [Prompts -> Nat]]
        /\ unkept'[p][q] = IF b THEN unkept[p][q] + 1 ELSE unkept[p][q]
        /\ \A r \in Processes, z \in Prompts : r # p \/ z # q => unkept'[r][z] = unkept[r][z]
    <3>1. unkept \in [Processes -> [Prompts -> Nat]]
      BY DEF HerdKept
    <3> HIDE DEF b
    <3> QED BY <1>2, <2>2, <3>1, CountedOnce
  <2>4. ~InHand(t)'
    BY <1>4 DEF InHand
  <2>5. DOMAIN cache \subseteq DOMAIN cache' /\ paid' \in [Processes -> [Prompts -> Nat]]
    BY <1>5, <2>1 DEF HerdKept
  <2>6. \/ paid'[p][q] = unkept'[p][q]
        \/ paid'[p][q] = unkept'[p][q] + 1 /\ <<Primary, q>> \in DOMAIN cache'
    <3>1. CASE call[t].model = Primary
      <4>1. paid[p][q] = unkept[p][q] + 1
        BY <1>1, <3>1 DEF HerdKept, InHand
      <4>2. ok => <<Primary, q>> \in DOMAIN cache'
        BY <1>5, <3>1
      <4> QED BY <2>1, <2>3, <3>1, <4>1, <4>2
    <3>2. CASE call[t].model # Primary
      <4>1. paid[p][q] = unkept[p][q]
        BY <1>1, <3>2 DEF HerdKept, InHand
      <4> QED BY <2>1, <2>3, <3>2, <4>1
    <3> QED BY <3>1, <3>2
  <2> HIDE DEF b
  <2> QED BY <1>1, <1>4, <2>1, <2>3, <2>4, <2>5, <2>6, HerdMoves
<1> QED BY <1>6, <1>7, <1>8, <1>9

\* The lock is released on every path.
LEMMA ReleaseKeeps == ASSUME LlmInv, NEW t \in Threads, Release(t) PROVE LlmInv'
<1> USE DEF LlmInv
<1> DEFINE p == ProcessOf[t]
<1>1. /\ call[t].pc = "done" /\ lock' = [lock EXCEPT ![p] = {}] /\ call' = [call EXCEPT ![t] = Idle]
      /\ UNCHANGED <<cache, calls, said, accounts>>
  BY DEF Release
<1>2. /\ call' \in [Threads -> CallRecs] /\ call'[t].pc = "idle"
      /\ \A u \in Threads : u # t => call'[u] = call[u]
  BY <1>1, LlmAssumption DEF CallsKept, CallRecs, Idle, Models
<1>3. /\ p \in Processes /\ lock[p] = {t} /\ lock' \in [Processes -> SUBSET Threads] /\ lock'[p] = {}
      /\ \A r \in Processes : r # p => lock'[r] = lock[r]
  BY <1>1, LlmAssumption DEF LockKept
<1>4. LockKept'
  <2>1. \A r \in Processes : \A u \in lock'[r] : lock'[r] = {u} /\ ProcessOf[u] = r
    BY <1>3 DEF LockKept
  <2>2. ASSUME NEW u \in Threads, call'[u].pc \in {"look", "dispatch", "put", "done"}
        PROVE  u \in lock'[ProcessOf[u]]
    <3>1. u # t /\ u \in lock[ProcessOf[u]] /\ ProcessOf[u] \in Processes
      BY <1>2, <2>2, LlmAssumption DEF LockKept
    <3>2. ProcessOf[u] # p
      BY <1>3, <3>1
    <3> QED BY <1>3, <3>1, <3>2
  <2> QED BY <1>3, <2>1, <2>2 DEF LockKept
<1>5. CallsKept'
  BY <1>1, <1>2 DEF CallsKept
<1>6. CacheKept'
  BY <1>1 DEF CacheKept, CacheIsWholeAndTrue
<1>7. HerdKept'
  <2>1. \A u \in Threads : u # t => InHand(u)' = InHand(u)
    BY <1>2 DEF InHand
  <2>2. ~InHand(t) /\ ~InHand(t)'
    BY <1>1, <1>2 DEF InHand
  <2>3. ASSUME NEW r \in Processes, NEW z \in Prompts,
               \E u \in lock[r] : InHand(u) /\ call[u].prompt = z
        PROVE  \E u \in lock'[r] : InHand(u)' /\ call'[u].prompt = z
    <3>1. PICK u \in lock[r] : InHand(u) /\ call[u].prompt = z
      BY <2>3
    <3>2. u \in Threads /\ u # t /\ r # p
      BY <1>3, <2>2, <3>1 DEF LockKept
    <3> QED BY <1>2, <1>3, <2>1, <3>1, <3>2
  <2> QED BY <1>1, <1>2, <2>1, <2>2, <2>3 DEF HerdKept, accounts
<1> QED BY <1>4, <1>5, <1>6, <1>7

\* Every step keeps the invariant.
LEMMA LlmStep == LlmInv /\ [LlmNext]_llmVars => LlmInv'
<1> SUFFICES ASSUME LlmInv, [LlmNext]_llmVars PROVE LlmInv' OBVIOUS
<1>1. CASE UNCHANGED llmVars
  BY <1>1 DEF llmVars, LlmInv, LockKept, CallsKept, CacheKept, HerdKept, InHand, CacheIsWholeAndTrue
<1> QED BY <1>1, BeginKeeps, LookKeeps, DispatchKeeps, PutKeeps, ReleaseKeeps DEF LlmNext, Goes, Answer

\* The shared cache of model calls holds whole answers under the key of the
\* model that gave them, and a process's herd of equal calls pays for one
\* answer and for those that leave nothing under the primary's key: empty or
\* cut ones, the fallback's, and ones that could not be stored (_cache_put and
\* the lock of call).
THEOREM CallsAreSafe == LlmSpec => []CallSafety
<1> QED BY LlmInitInv, LlmStep, LlmInvImplies, PTL DEF LlmSpec
(* -------------------------------- access ------------------------------- *)

ReqRecs == [pc : {"idle", "sent", "authed", "done"}, bearer : Bearers, asked : Fallbacks,
            as : Fallbacks \union {"none", "401", "400"}, dead : BOOLEAN]

\* What is in the table, and which rows a command has shown.
TokensKept ==
    /\ mode \in {"open", "single", "multi"}
    /\ DOMAIN tokens \subseteq Hashes
    /\ \A h \in DOMAIN tokens : tokens[h].user \in Fallbacks /\ tokens[h].revoked \in BOOLEAN
    /\ hit \subseteq DOMAIN tokens /\ requests \in 0..MaxRequests
    /\ \A o \in Operators : revoke[o].pc = "update" => revoke[o].row \in hit
    /\ OnlyMatchedIsRevoked

\* Who a request acts as: its token's owner, or whom it names if that is empty.
ActingAs(owner, asked) == IF owner = "nobody" THEN asked ELSE owner

\* An authenticated request is its token's owner's, and a dead token's request
\* does not get past the lookup.
RequestIsOwned(c) ==
    /\ req[c].dead => Revoked(req[c].bearer)
    /\ req[c].pc = "sent" => req[c].as = "none"
    /\ mode = "multi" /\ (req[c].pc = "authed" \/ Answered(c)) =>
         ~req[c].dead /\ req[c].bearer \in DOMAIN tokens
    /\ mode = "multi" /\ req[c].pc = "authed" => req[c].as = tokens[req[c].bearer].user
    /\ mode = "multi" /\ Answered(c) =>
         /\ req[c].as = ActingAs(tokens[req[c].bearer].user, req[c].asked)
         /\ req[c].as # "nobody"

RequestsKept ==
    /\ req \in [Clients -> ReqRecs]
    /\ \A c \in Clients : RequestIsOwned(c)

AccessInv == TokensKept /\ RequestsKept

\* The inductive invariant is at least the one of the runs.
LEMMA AccessInvImplies == AccessInv => AccessSafety
<1> SUFFICES ASSUME AccessInv PROVE AccessSafety OBVIOUS
<1>1. \A c \in Clients : /\ req[c].pc \in {"idle", "sent", "authed", "done"}
                         /\ req[c].as \in Fallbacks \union {"none", "401", "400"}
  BY DEF AccessInv, RequestsKept, ReqRecs
<1>2. AccessTypeOK
  BY <1>1 DEF AccessInv, TokensKept, AccessTypeOK
<1>3. RevokedIsRefused /\ ActsAsTokenOwner
  BY DEF AccessInv, RequestsKept, RequestIsOwned, RevokedIsRefused, ActsAsTokenOwner,
         ActingAs
<1> QED BY <1>2, <1>3 DEF AccessSafety, AccessInv, TokensKept

\* No token and no request.
LEMMA AccessInitInv == AccessInit => AccessInv
<1> SUFFICES ASSUME AccessInit PROVE AccessInv OBVIOUS
<1> USE DEF AccessInit
<1>1. DOMAIN tokens = {}
  OBVIOUS
<1>2. TokensKept
  BY <1>1, AccessAssumption DEF TokensKept, IdleRevoke, OnlyMatchedIsRevoked
<1>3. \A c \in Clients : req[c] = IdleRequest
  OBVIOUS
<1>4. IdleRequest.pc = "idle" /\ ~IdleRequest.dead /\ IdleRequest \in ReqRecs
  BY DEF IdleRequest, ReqRecs, Bearers, Fallbacks
<1>5. RequestsKept
  BY <1>3, <1>4 DEF RequestsKept, RequestIsOwned, Answered
<1> QED BY <1>2, <1>5 DEF AccessInv

\* Tokens are made and revoked, never renamed: requests stay what they are.
LEMMA TokensGrow ==
    ASSUME RequestsKept, UNCHANGED <<mode, req>>, DOMAIN tokens \subseteq DOMAIN tokens',
           \A h \in DOMAIN tokens : /\ tokens'[h].user = tokens[h].user
                                    /\ tokens[h].revoked => tokens'[h].revoked
    PROVE  RequestsKept'
<1>1. \A h : Revoked(h) => Revoked(h)'
  BY DEF Revoked
<1> QED BY <1>1 DEF RequestsKept, RequestIsOwned, Answered

\* The commands on tokens.
LEMMA CommandsKeep ==
    ASSUME AccessInv,
           \/ \E h \in Hashes, u \in Fallbacks : CreateToken(h, u)
           \/ \E o \in Operators : Revoke(o) \/ GiveUp(o) \/ \E h \in Hashes : SelectMatch(o, PrefixOf[h])
    PROVE  AccessInv'
<1> USE DEF AccessInv
<1>1. ASSUME NEW h \in Hashes, NEW u \in Fallbacks, CreateToken(h, u) PROVE AccessInv'
  <2>1. /\ h \notin DOMAIN tokens /\ UNCHANGED <<mode, revoke, req, requests, hit>>
        /\ tokens' = [k \in DOMAIN tokens \union {h} |->
                        IF k = h THEN [user |-> u, revoked |-> FALSE] ELSE tokens[k]]
    BY <1>1 DEF CreateToken
  <2>2. /\ DOMAIN tokens' = DOMAIN tokens \union {h}
        /\ tokens'[h].user = u /\ tokens'[h].revoked = FALSE
        /\ \A k \in DOMAIN tokens : tokens'[k] = tokens[k]
    BY <2>1
  <2>3. TokensKept'
    BY <2>1, <2>2 DEF TokensKept, OnlyMatchedIsRevoked
  <2>4. RequestsKept'
    BY <2>1, <2>2, TokensGrow
  <2> QED BY <2>3, <2>4
<1>2. ASSUME NEW o \in Operators, Revoke(o) PROVE AccessInv'
  <2>1. /\ revoke[o].pc = "update" /\ UNCHANGED <<mode, req, requests, hit>>
        /\ revoke' = [revoke EXCEPT ![o] = IdleRevoke]
        /\ tokens' = [h \in DOMAIN tokens |->
                        IF h \in {revoke[o].row} THEN [tokens[h] EXCEPT !.revoked = TRUE]
                                                 ELSE tokens[h]]
    BY <1>2 DEF Revoke, Hit
  <2>2. DOMAIN tokens' = DOMAIN tokens
    BY <2>1
  <2>3. ASSUME NEW h \in DOMAIN tokens
        PROVE  /\ tokens'[h].user = tokens[h].user /\ tokens'[h].revoked \in BOOLEAN
               /\ tokens[h].revoked => tokens'[h].revoked
               /\ tokens'[h].revoked => tokens[h].revoked \/ h \in hit
    <3>1. CASE h = revoke[o].row
      <4>1. h \in hit
        BY <2>1, <3>1 DEF TokensKept
      <4>2. tokens'[h] = [tokens[h] EXCEPT !.revoked = TRUE]
        BY <2>1, <3>1
      <4> QED BY <4>1, <4>2 DEF TokensKept
    <3>2. CASE h # revoke[o].row
      <4>1. tokens'[h] = tokens[h]
        BY <2>1, <3>2
      <4> QED BY <4>1 DEF TokensKept
    <3> QED BY <3>1, <3>2
  <2>4. \A p \in Operators : revoke'[p].pc = "update" => revoke'[p].row \in hit
    BY <2>1 DEF TokensKept, IdleRevoke
  <2>5. TokensKept'
    BY <2>1, <2>2, <2>3, <2>4 DEF TokensKept, OnlyMatchedIsRevoked
  <2>6. RequestsKept'
    BY <2>1, <2>2, <2>3, TokensGrow
  <2> QED BY <2>5, <2>6
<1>3. ASSUME NEW o \in Operators, NEW prefix, SelectMatch(o, prefix) PROVE AccessInv'
  <2>1. PICK h \in DOMAIN tokens :
            /\ revoke' = [revoke EXCEPT ![o] = [pc |-> "update", prefix |-> prefix, row |-> h]]
            /\ hit' = hit \union {h}
    BY <1>3 DEF SelectMatch, Matching
  <2>2. UNCHANGED <<mode, tokens, req, requests>>
    BY <1>3 DEF SelectMatch
  <2>3. TokensKept'
    BY <2>1, <2>2 DEF TokensKept, OnlyMatchedIsRevoked
  <2>4. RequestsKept'
    BY <2>2, TokensGrow
  <2> QED BY <2>3, <2>4
<1>4. ASSUME NEW o \in Operators, GiveUp(o) PROVE AccessInv'
  <2>1. revoke' = [revoke EXCEPT ![o] = IdleRevoke] /\ UNCHANGED <<mode, tokens, req, requests, hit>>
    BY <1>4 DEF GiveUp
  <2>2. TokensKept'
    BY <2>1 DEF TokensKept, OnlyMatchedIsRevoked, IdleRevoke
  <2>3. RequestsKept'
    BY <2>1, TokensGrow
  <2> QED BY <2>2, <2>3
<1> QED BY <1>1, <1>2, <1>3, <1>4

\* A step of one request leaves the others and the tokens alone.
LEMMA OneRequest ==
    ASSUME AccessInv, UNCHANGED <<mode, tokens, revoke, hit>>, requests' \in 0..MaxRequests,
           req' \in [Clients -> ReqRecs], NEW c \in Clients, RequestIsOwned(c)',
           \A d \in Clients : d # c => req'[d] = req[d]
    PROVE  AccessInv'
<1>1. TokensKept'
  BY DEF AccessInv, TokensKept, OnlyMatchedIsRevoked
<1>2. ASSUME NEW d \in Clients, d # c PROVE RequestIsOwned(d)'
  BY <1>2 DEF AccessInv, RequestsKept, RequestIsOwned, Answered, Revoked
<1> QED BY <1>1, <1>2 DEF AccessInv, RequestsKept

\* A request is sent.
LEMMA SendKeeps ==
    ASSUME AccessInv, NEW c \in Clients, NEW b \in Bearers, NEW u \in Fallbacks, SendRequest(c, b, u)
    PROVE  AccessInv'
<1>1. /\ UNCHANGED <<mode, tokens, revoke, hit>> /\ requests < MaxRequests /\ requests' = requests + 1
      /\ req' = [req EXCEPT ![c] = [pc |-> "sent", bearer |-> b, asked |-> u,
                                    as |-> "none", dead |-> Revoked(b)]]
  BY DEF SendRequest
<1>2. requests' \in 0..MaxRequests
  BY <1>1, AccessAssumption DEF AccessInv, TokensKept
<1>3. Revoked(b) \in BOOLEAN
  <2>1. \A h \in DOMAIN tokens : tokens[h].revoked \in BOOLEAN
    BY DEF AccessInv, TokensKept
  <2> QED BY <2>1, Zenon DEF Revoked
<1>4. PICK dead \in BOOLEAN : dead = Revoked(b)
  BY <1>3, Zenon
<1>5. PICK r : r = [pc |-> "sent", bearer |-> b, asked |-> u, as |-> "none", dead |-> dead]
  OBVIOUS
<1>6. r \in ReqRecs
  <2>1. ASSUME NEW B, dead \in B
        PROVE  r \in [pc : {"idle", "sent", "authed", "done"}, bearer : Bearers, asked : Fallbacks,
                      as : Fallbacks \union {"none", "401", "400"}, dead : B]
    BY <1>5, <2>1
  <2>2. dead \in BOOLEAN
    OBVIOUS
  <2> QED BY <2>1, <2>2, Zenon DEF ReqRecs
<1>7. req' = [req EXCEPT ![c] = r]
  BY <1>1, <1>4, <1>5, Zenon
<1>8. req' \in [Clients -> ReqRecs] /\ req'[c] = r /\ \A d \in Clients : d # c => req'[d] = req[d]
  BY <1>6, <1>7 DEF AccessInv, RequestsKept
<1>9. r.pc = "sent" /\ r.bearer = b /\ r.as = "none"
  BY <1>5
<1>10. r.dead => Revoked(b)
  BY <1>4, <1>5, Zenon
<1>11. Revoked(b)' = Revoked(b)
  BY <1>1 DEF Revoked
<1>12. RequestIsOwned(c)'
  BY <1>8, <1>9, <1>10, <1>11 DEF RequestIsOwned, Answered
<1> QED BY <1>1, <1>2, <1>8, <1>12, OneRequest

\* The token is looked up.
LEMMA AuthKeeps == ASSUME AccessInv, NEW c \in Clients, RequireAuth(c) PROVE AccessInv'
<1> DEFINE b == req[c].bearer
<1>1. req[c].pc = "sent" /\ UNCHANGED <<mode, tokens, revoke, requests, hit>>
  BY DEF RequireAuth
<1>2. req[c] \in ReqRecs /\ RequestIsOwned(c) /\ req \in [Clients -> ReqRecs]
  BY DEF AccessInv, RequestsKept
<1>3. PICK pc \in {"authed", "done"}, as \in Fallbacks \union {"none", "401"} :
          /\ req' = [req EXCEPT ![c].pc = pc, ![c].as = as]
          /\ pc = IF Admitted(b) THEN "authed" ELSE "done"
          /\ as = IF ~Admitted(b) THEN "401"
                  ELSE IF mode = "multi" THEN tokens[b].user ELSE req[c].as
  <2>1. Admitted(b) /\ mode = "multi" => tokens[b].user \in Fallbacks
    BY DEF Admitted, AccessInv, TokensKept, Fallbacks
  <2>2. req[c].as = "none"
    BY <1>1, <1>2 DEF RequestIsOwned
  <2>3. req' = [req EXCEPT
          ![c].pc = IF Admitted(b) THEN "authed" ELSE "done",
          ![c].as = IF ~Admitted(b) THEN "401" ELSE IF mode = "multi" THEN tokens[b].user ELSE @]
    BY DEF RequireAuth
  <2>4. (IF Admitted(b) THEN "authed" ELSE "done") \in {"authed", "done"}
    OBVIOUS
  <2>5. (IF ~Admitted(b) THEN "401"
         ELSE IF mode = "multi" THEN tokens[b].user ELSE req[c].as) \in Fallbacks \union {"none", "401"}
    BY <2>1, <2>2
  <2> QED BY <1>2, <2>3, <2>4, <2>5
<1>4. /\ req'[c].pc = pc /\ req'[c].as = as /\ req'[c].bearer = b /\ req'[c].dead = req[c].dead
      /\ req' \in [Clients -> ReqRecs] /\ \A d \in Clients : d # c => req'[d] = req[d]
  BY <1>2, <1>3 DEF ReqRecs
<1>5. ASSUME mode = "multi", Admitted(b)
      PROVE  b \in DOMAIN tokens /\ as = tokens[b].user /\ ~req[c].dead
  BY <1>2, <1>3, <1>5 DEF Admitted, RequestIsOwned, Revoked
<1>6. mode = "multi" /\ (pc = "authed" \/ as # "401") => Admitted(b)
  BY <1>3
<1>7. RequestIsOwned(c)'
  BY <1>1, <1>2, <1>3, <1>4, <1>5, <1>6 DEF RequestIsOwned, Answered, Revoked
<1>8. requests' \in 0..MaxRequests
  BY <1>1 DEF AccessInv, TokensKept
<1> QED BY <1>1, <1>4, <1>7, <1>8, OneRequest

\* The user is chosen: in multi-user mode the one the token gave, if any.
LEMMA UserKeeps == ASSUME AccessInv, NEW c \in Clients, CurrentUser(c) PROVE AccessInv'
<1>1. /\ req[c].pc = "authed" /\ UNCHANGED <<mode, tokens, revoke, requests, hit>>
      /\ req' = [req EXCEPT ![c].pc = "done", ![c].as = UserFor(c)]
  BY DEF CurrentUser
<1>2. req[c] \in ReqRecs /\ RequestIsOwned(c) /\ req \in [Clients -> ReqRecs]
  BY DEF AccessInv, RequestsKept
<1>3. UserFor(c) \in Fallbacks \union {"none", "401", "400"}
  BY <1>2 DEF UserFor, ReqRecs
<1>4. /\ req'[c].pc = "done" /\ req'[c].as = UserFor(c) /\ req'[c].bearer = req[c].bearer
      /\ req'[c].dead = req[c].dead
      /\ req' \in [Clients -> ReqRecs] /\ \A d \in Clients : d # c => req'[d] = req[d]
  BY <1>1, <1>2, <1>3 DEF ReqRecs
<1>5. ASSUME mode = "multi", UserFor(c) \notin {"401", "400"}
      PROVE  /\ UserFor(c) = ActingAs(tokens[req[c].bearer].user, req[c].asked)
             /\ UserFor(c) # "nobody"
  <2>1. req[c].as \in Fallbacks /\ req[c].as = tokens[req[c].bearer].user
    BY <1>1, <1>2, <1>5 DEF RequestIsOwned, AccessInv, TokensKept
  <2>2. req[c].as # "none"
    BY <2>1, AccessAssumption DEF Fallbacks
  <2> QED BY <1>5, <2>1, <2>2 DEF UserFor, ActingAs
<1>6. RequestIsOwned(c)'
  <2>1. req'[c].asked = req[c].asked
    BY <1>1, <1>2, <1>3 DEF ReqRecs
  <2> QED BY <1>1, <1>2, <1>4, <1>5, <2>1 DEF RequestIsOwned, Answered, Revoked
<1>7. requests' \in 0..MaxRequests
  BY <1>1 DEF AccessInv, TokensKept
<1> QED BY <1>1, <1>4, <1>6, <1>7, OneRequest

\* Every step keeps the invariant.
LEMMA AccessStep == AccessInv /\ [AccessNext]_accessVars => AccessInv'
<1> SUFFICES ASSUME AccessInv, [AccessNext]_accessVars PROVE AccessInv' OBVIOUS
<1>1. CASE UNCHANGED accessVars
  BY <1>1 DEF accessVars, AccessInv, TokensKept, RequestsKept, RequestIsOwned, Answered, Revoked,
              OnlyMatchedIsRevoked
<1> QED BY <1>1, CommandsKeep, SendKeeps, AuthKeeps, UserKeeps DEF AccessNext

\* A request acts as the owner of its token (as the user it names if the token
\* was made for the empty user id), a token that was revoked before
\* the request was sent is refused, and only what a command showed is revoked
\* (require_auth, current_user_id and parallax token, in any order).
THEOREM AccessIsSafe == AccessSpec => []AccessSafety
<1> QED BY AccessInitInv, AccessStep, AccessInvImplies, PTL DEF AccessSpec

------------------------------------------------------------------------------
(* ------------------------ extraction and import ------------------------- *)

JobRecs == [pc : {"idle", "work"}, plan : Seq(Claims), ids : Seq(Nat)]

CardTables == UNION {[F -> Bodies] : F \in SUBSET Files}
ImportRecs == [pc : {"idle", "read", "open"}, todo : Seq(Files), work : CardTables,
               new : Nat, base : CardTables]

\* Rows are only added, so an id that was given out stays the row's.
HeldInv ==
    /\ DOMAIN held \subseteq Claims /\ IsFiniteSet(DOMAIN held)
    /\ held \in [DOMAIN held -> Nat]
    /\ ToldIdsHold

JobInv ==
    /\ job \in [Jobs -> JobRecs]
    /\ \A j \in Jobs : /\ Len(job[j].ids) <= Len(job[j].plan)
                       /\ (job[j].pc = "work" => Len(job[j].ids) < Len(job[j].plan))
    /\ FailureKeepsPrefix

CardInv ==
    /\ cards \in CardTables /\ IsFiniteSet(DOMAIN cards)
    /\ dir \in [Files -> Bodies \union Unreadable]
    /\ reported \in Nat /\ Cardinality(DOMAIN cards) = reported

\* The import that is open works on a copy of the table, alone, and has counted
\* the rows that the copy has more.
ImportInv ==
    /\ import \in [Importers -> ImportRecs]
    /\ \A i \in Importers : import[i].pc = "open" =>
         /\ import[i].base = cards
         /\ IsFiniteSet(DOMAIN import[i].work)
         /\ Cardinality(DOMAIN import[i].work) = reported + import[i].new
         /\ \A k \in Importers : import[k].pc = "open" => k = i
    /\ \A i \in Importers : import[i].pc = "read" => import[i].new = 0

ExInv == HeldInv /\ JobInv /\ CardInv /\ ImportInv /\ starts \in 0..MaxStarts

-----------------------------------------------------------------------------
\* What is parsed of an answer is a list of claims: noise has no place in it.
LEMMA ParsedAreClaims ==
    ASSUME NEW S, NEW a \in Seq(S) PROVE Parsed(a) \in Seq(Claims)
<1> DEFINE Next(f, n) == IF a[n] \in Claims THEN Append(f[n - 1], a[n]) ELSE f[n - 1]
           Upto(m, f) == f = [n \in 0..m |-> IF n = 0 THEN <<>> ELSE Next(f, n)]
           of == CHOOSE f : Upto(Len(a), f)
<1>0. Len(a) \in Nat OBVIOUS
<1>1. Parsed(a) = of[Len(a)] BY DEF Parsed
\* The recursion has a solution: the least m without one would have m - 1 with.
<1>2. \E f : Upto(Len(a), f)
  <2> DEFINE Without == {m \in Nat : ~\E f : Upto(m, f)}
  <2>1. Without = {}
    <3> SUFFICES ASSUME Without # {} PROVE FALSE OBVIOUS
    <3>1. Without \in SUBSET Nat OBVIOUS
    <3> HIDE DEF Without
    <3>2. PICK m \in Without : \A k \in Without : m <= k BY <3>1, LeastElement
    <3> USE DEF Without
    <3>3. m \in Nat /\ ~\E f : Upto(m, f) OBVIOUS
    <3>4. CASE m = 0
      <4> DEFINE g == [n \in 0..0 |-> <<>>]
      <4>1. Upto(0, g)
        <5>1. \A n \in 0..0 : n = 0 OBVIOUS
        <5>2. g = [n \in 0..0 |-> IF n = 0 THEN <<>> ELSE Next(g, n)] BY <5>1
        <5> QED BY <5>2
      <4> QED BY <3>3, <3>4, <4>1
    <3>5. CASE m # 0
      <4>1. m - 1 \in Nat /\ m - 1 < m BY <3>3, <3>5
      <4>2. \E f : Upto(m - 1, f)
        <5>1. m - 1 \notin Without
          <6> HIDE DEF Without
          <6> QED BY <3>2, <3>3, <4>1
        <5> QED BY <4>1, <5>1
      <4>3. PICK f : Upto(m - 1, f) BY <4>2
      <4> DEFINE g == [n \in 0..m |-> IF n = m THEN Next(f, m) ELSE f[n]]
      <4>4. \A n \in 0..m : g[n] = IF n = 0 THEN <<>> ELSE Next(g, n)
        <5> SUFFICES ASSUME NEW n \in 0..m
                     PROVE  g[n] = IF n = 0 THEN <<>> ELSE Next(g, n)
          OBVIOUS
        <5>0. \A k \in 0..(m - 1) : f[k] = IF k = 0 THEN <<>> ELSE Next(f, k)
          <6>1. f = [k \in 0..(m - 1) |-> IF k = 0 THEN <<>> ELSE Next(f, k)] BY <4>3
          <6> HIDE DEF Next
          <6> QED BY <6>1
        <5>1. \A k \in 0..(m - 1) : /\ g[k] = f[k]
                                     /\ f[k] = IF k = 0 THEN <<>> ELSE Next(f, k)
          <6>1. \A k \in 0..(m - 1) : k \in 0..m /\ k # m BY <4>1
          <6>2. \A k \in 0..(m - 1) : g[k] = f[k] BY <6>1
          <6> HIDE DEF Next, g
          <6> QED BY <5>0, <6>2
        <5>2. CASE n = m
          <6>1. n - 1 \in 0..(m - 1) /\ g[n - 1] = f[n - 1] BY <4>1, <5>1, <5>2
          <6>2. g[n] = Next(f, m) BY <5>2
          <6> QED BY <3>5, <5>2, <6>1, <6>2
        <5>3. CASE n # m /\ n # 0
          <6>1. n \in 0..(m - 1) /\ n - 1 \in 0..(m - 1) BY <3>3, <5>3
          <6> QED BY <5>1, <5>3, <6>1
        <5>4. CASE n # m /\ n = 0
          <6>1. n \in 0..(m - 1) BY <4>1, <5>4
          <6> QED BY <5>1, <5>4, <6>1
        <5> QED BY <5>2, <5>3, <5>4
      <4>5. g = [n \in 0..m |-> IF n = 0 THEN <<>> ELSE Next(g, n)]
        <5> HIDE DEF Next
        <5>1. g = [n \in 0..m |-> g[n]] OBVIOUS
        <5> HIDE DEF g
        <5> QED BY <4>4, <5>1
      <4>6. Upto(m, g) BY <4>5
      <4> QED BY <3>3, <4>6
    <3> QED BY <3>4, <3>5
  <2> QED BY <1>0, <2>1
<1>3. Upto(Len(a), of) BY <1>2
<1> HIDE DEF of
<1>4. \A n \in 0..Len(a) : of[n] = IF n = 0 THEN <<>> ELSE Next(of, n) BY <1>3
<1> DEFINE Bad == {n \in 0..Len(a) : of[n] \notin Seq(Claims)}
<1>5. Bad = {}
  <2> SUFFICES ASSUME Bad # {} PROVE FALSE OBVIOUS
  <2>1. Bad \in SUBSET Nat BY <1>0
  <2>2. PICK m \in Bad : \A k \in Bad : m <= k
    <3> HIDE DEF Bad
    <3> QED BY <2>1, LeastElement
  <2>3. m \in 0..Len(a) /\ of[m] \notin Seq(Claims) OBVIOUS
  <2>4. m # 0
    <3>1. <<>> \in Seq(Claims) OBVIOUS
    <3> QED BY <1>4, <2>3, <3>1
  <2>5. m - 1 \in 0..Len(a) /\ m - 1 < m /\ m - 1 \in Nat BY <1>0, <2>3, <2>4
  <2>6. m - 1 \notin Bad
    <3> HIDE DEF Bad
    <3> QED BY <2>1, <2>2, <2>5
  <2>7. of[m - 1] \in Seq(Claims) BY <2>5, <2>6
  <2>8. of[m] = Next(of, m) BY <1>4, <2>3, <2>4
  <2>9. Next(of, m) \in Seq(Claims)
    <3>1. CASE a[m] \in Claims
      <4>1. Append(of[m - 1], a[m]) \in Seq(Claims) BY <2>7, <3>1, AppendProperties
      <4> QED BY <3>1, <4>1
    <3>2. CASE a[m] \notin Claims BY <2>7, <3>2
    <3> QED BY <3>1, <3>2
  <2> QED BY <2>3, <2>8, <2>9
<1>6. Len(a) \in 0..Len(a) BY <1>0
<1> QED BY <1>1, <1>5, <1>6

\* What an answer or an index lists is a sequence.
LEMMA ListsAreSeqs == \A S : \A l \in Lists(S) : l \in Seq(S)
<1> SUFFICES ASSUME NEW S, NEW l \in Lists(S) PROVE l \in Seq(S) OBVIOUS
<1>1. PICK n \in 0..MaxItems : l \in [1..n -> S] BY DEF Lists
<1>2. n \in Nat BY <1>1
<1>3. l = [i \in 1..n |-> l[i]] /\ \A i \in 1..n : l[i] \in S BY <1>1
<1> QED BY <1>2, <1>3

\* Nothing is held, planned or imported.
LEMMA ExInitInv == ExInit => ExInv
<1> SUFFICES ASSUME ExInit PROVE ExInv OBVIOUS
<1> USE DEF ExInit
<1>1. HeldInv BY FS_EmptySet DEF HeldInv, ToldIdsHold
<1>2. IdleJob \in JobRecs /\ IdleJob.ids = <<>> /\ IdleJob.plan = <<>> /\ IdleJob.pc = "idle"
  BY DEF IdleJob, JobRecs
<1>3. JobInv
  <2>1. \A j \in Jobs : job[j] = IdleJob OBVIOUS
  <2>2. Len(<<>>) = 0 /\ 1..0 = {} OBVIOUS
  <2>3. \A j \in Jobs : 1..Len(job[j].ids) = {} BY <1>2, <2>1, <2>2
  <2>4. FailureKeepsPrefix BY <2>3 DEF FailureKeepsPrefix
  <2> QED BY <1>2, <2>1, <2>2, <2>4 DEF JobInv
<1>4. NoCards \in CardTables /\ DOMAIN NoCards = {}
  <2>1. NoCards \in [{} -> Bodies] BY DEF NoCards
  <2>2. {} \in SUBSET Files OBVIOUS
  <2> QED BY <2>1, <2>2 DEF CardTables
<1>5. CardInv BY <1>4, FS_EmptySet, MissingAssumption DEF CardInv
<1>6. IdleImport \in ImportRecs /\ IdleImport.pc = "idle"
  BY <1>4 DEF IdleImport, ImportRecs
<1>7. ImportInv BY <1>6 DEF ImportInv
<1> QED BY <1>1, <1>3, <1>5, <1>7, ExAssumption DEF ExInv

-----------------------------------------------------------------------------
(* ------------------------------ extraction ----------------------------- *)

\* insert_claim adds a row or finds one: no row's id changes.
LEMMA HoldingGrows ==
    ASSUME HeldInv, NEW c \in Claims
    PROVE  /\ DOMAIN Holding(c) = DOMAIN held \union {c} /\ IsFiniteSet(DOMAIN Holding(c))
           /\ Holding(c) \in [DOMAIN Holding(c) -> Nat]
           /\ \A d \in DOMAIN held : Holding(c)[d] = held[d]
           /\ IdOf(c) \in Nat
<1>1. IsFiniteSet(DOMAIN held \union {c}) /\ Cardinality(DOMAIN held) + 1 \in Nat
  BY FS_AddElement, FS_CardinalityType DEF HeldInv
<1>2. DOMAIN Holding(c) = DOMAIN held \union {c} BY DEF Holding
<1>3. \A d \in DOMAIN held : Holding(c)[d] = held[d] BY DEF Holding
<1>4. Holding(c) \in [DOMAIN held \union {c} -> Nat] BY <1>1 DEF Holding, HeldInv
<1> QED BY <1>1, <1>2, <1>3, <1>4 DEF IdOf

\* While the store grows, what was told and what is kept stays true.
LEMMA StoreGrows ==
    ASSUME HeldInv, held' \in [DOMAIN held' -> Nat], DOMAIN held' \subseteq Claims,
           IsFiniteSet(DOMAIN held'), DOMAIN held \subseteq DOMAIN held',
           \A d \in DOMAIN held : held'[d] = held[d], told' = told
    PROVE  HeldInv'
BY DEF HeldInv, ToldIdsHold

\* An extraction job leaves the imports alone.
LEMMA CardsApart ==
    ASSUME CardInv, ImportInv, UNCHANGED importVars PROVE CardInv' /\ ImportInv'
BY DEF CardInv, ImportInv, importVars

\* An import leaves the jobs alone.
LEMMA ClaimsApart ==
    ASSUME HeldInv, JobInv, UNCHANGED extractVars PROVE HeldInv' /\ JobInv'
BY DEF HeldInv, JobInv, extractVars, ToldIdsHold, FailureKeepsPrefix

\* A job plans the claims it could parse.
LEMMA StartJobKeepsInv ==
    ASSUME ExInv, NEW j \in Jobs, NEW answer \in Lists(Claims \union Noise), StartJob(j, answer)
    PROVE  ExInv'
<1> DEFINE plan == Parsed(answer)
           r == [IdleJob EXCEPT !.plan = plan, !.pc = IF plan = <<>> THEN "idle" ELSE "work"]
<1>1. /\ job' = [job EXCEPT ![j] = r] /\ UNCHANGED <<held, told, importVars>>
      /\ starts < MaxStarts /\ starts' = starts + 1
  BY DEF StartJob
<1>2. plan \in Seq(Claims) BY ListsAreSeqs, ParsedAreClaims
<1> HIDE DEF plan
<1>3. r \in JobRecs /\ r.plan = plan /\ r.ids = <<>> /\ (r.pc = "work" => plan # <<>>)
  <2>1. IdleJob \in JobRecs /\ IdleJob.ids = <<>> BY DEF IdleJob, JobRecs
  <2>2. ASSUME NEW p \in {"idle", "work"}
        PROVE  /\ [IdleJob EXCEPT !.plan = plan, !.pc = p] \in JobRecs
               /\ [IdleJob EXCEPT !.plan = plan, !.pc = p].plan = plan
               /\ [IdleJob EXCEPT !.plan = plan, !.pc = p].pc = p
               /\ [IdleJob EXCEPT !.plan = plan, !.pc = p].ids = <<>>
    BY <1>2, <2>1 DEF JobRecs
  <2>3. CASE plan = <<>> BY <2>2, <2>3
  <2>4. CASE plan # <<>> BY <2>2, <2>4
  <2> QED BY <2>3, <2>4
<1> HIDE DEF r
<1>4. Len(plan) \in Nat /\ (plan # <<>> => Len(plan) > 0) /\ Len(<<>>) = 0
  BY <1>2
<1>5. job \in [Jobs -> JobRecs] BY DEF ExInv, JobInv
<1>6. \A k \in Jobs : job'[k] = IF k = j THEN r ELSE job[k] BY <1>1, <1>5
<1>7. job' \in [Jobs -> JobRecs] BY <1>1, <1>3, <1>5
<1>8. \A k \in Jobs : /\ Len(job'[k].ids) <= Len(job'[k].plan)
                      /\ (job'[k].pc = "work" => Len(job'[k].ids) < Len(job'[k].plan))
  BY <1>3, <1>4, <1>6 DEF ExInv, JobInv
<1>9. FailureKeepsPrefix'
  <2> SUFFICES ASSUME NEW k \in Jobs, NEW n \in 1..Len(job'[k].ids)
               PROVE  job'[k].plan[n] \in DOMAIN held' /\ held'[job'[k].plan[n]] = job'[k].ids[n]
    BY DEF FailureKeepsPrefix
  <2>1. k # j
    <3>1. 1..Len(r.ids) = {} BY <1>3, <1>4
    <3> QED BY <1>6, <3>1
  <2> QED BY <1>1, <1>6, <2>1 DEF ExInv, JobInv, FailureKeepsPrefix
<1>10. HeldInv' BY <1>1 DEF ExInv, HeldInv, ToldIdsHold
<1>11. starts' \in 0..MaxStarts BY <1>1, ExAssumption DEF ExInv
<1> QED BY <1>1, <1>7, <1>8, <1>9, <1>10, <1>11, CardsApart DEF ExInv, JobInv

\* One claim of the plan is stored, or found there.
LEMMA IngestOneKeepsInv == ASSUME ExInv, NEW j \in Jobs, IngestOne(j) PROVE ExInv'
<1> DEFINE plan == job[j].plan
           ids == job[j].ids
           c == At(j)
           new == Append(ids, IdOf(c))
           last == Len(new) = Len(plan)
<1>1. /\ job[j].pc = "work" /\ held' = Holding(c)
      /\ job' = [job EXCEPT ![j].ids = new, ![j].pc = IF last THEN "idle" ELSE @]
      /\ told' = IF last THEN told \union {<<plan[i], new[i]>> : i \in 1..Len(new)} ELSE told
      /\ UNCHANGED <<importVars, starts>>
  BY DEF IngestOne
<1>2. job \in [Jobs -> JobRecs] /\ plan \in Seq(Claims) /\ ids \in Seq(Nat) /\ Len(ids) < Len(plan)
      /\ Len(ids) \in Nat /\ Len(plan) \in Nat
  <2>1. job \in [Jobs -> JobRecs] /\ Len(ids) < Len(plan) BY <1>1 DEF ExInv, JobInv
  <2>2. plan \in Seq(Claims) /\ ids \in Seq(Nat) BY <2>1 DEF JobRecs
  <2> QED BY <2>1, <2>2
<1>3. c \in Claims /\ c = plan[Len(ids) + 1]
  <2>1. Len(ids) + 1 \in 1..Len(plan) BY <1>2
  <2> QED BY <1>2, <2>1, ElementOfSeq DEF At
<1>4. /\ DOMAIN held' = DOMAIN held \union {c} /\ IsFiniteSet(DOMAIN held')
      /\ held' \in [DOMAIN held' -> Nat] /\ \A d \in DOMAIN held : held'[d] = held[d]
      /\ IdOf(c) \in Nat /\ IdOf(c) = held'[c]
  BY <1>1, <1>3, HoldingGrows DEF ExInv, IdOf
<1> DEFINE id == IdOf(c)
<1> HIDE DEF plan, ids, c, id
<1>5. /\ new \in Seq(Nat) /\ Len(new) = Len(ids) + 1 /\ new[Len(ids) + 1] = id
      /\ \A n \in 1..Len(ids) : new[n] = ids[n]
  BY <1>2, <1>4 DEF id
<1> HIDE DEF new
<1>6. \A n \in 1..Len(new) : plan[n] \in DOMAIN held' /\ held'[plan[n]] = new[n]
  <2> SUFFICES ASSUME NEW n \in 1..Len(new)
               PROVE  plan[n] \in DOMAIN held' /\ held'[plan[n]] = new[n]
    OBVIOUS
  <2>1. CASE n = Len(ids) + 1 BY <1>3, <1>4, <1>5, <2>1 DEF id
  <2>2. CASE n \in 1..Len(ids)
    <3>1. plan[n] \in DOMAIN held /\ held[plan[n]] = ids[n]
      BY <2>2 DEF ExInv, JobInv, FailureKeepsPrefix, plan, ids
    <3> QED BY <1>4, <1>5, <2>2, <3>1
  <2> QED BY <1>2, <1>5, <2>1, <2>2
<1>7. HeldInv'
  <2>1. ASSUME NEW r \in told' PROVE r[1] \in DOMAIN held' /\ held'[r[1]] = r[2]
    <3>1. CASE r \in told
      BY <1>4, <3>1 DEF ExInv, HeldInv, ToldIdsHold
    <3>2. CASE r \notin told
      <4>1. \E i \in 1..Len(new) : r = <<plan[i], new[i]>> BY <1>1, <2>1, <3>2
      <4> QED BY <1>6, <4>1
    <3> QED BY <3>1, <3>2
  <2>2. DOMAIN held' \subseteq Claims BY <1>3, <1>4 DEF ExInv, HeldInv
  <2> QED BY <1>4, <2>1, <2>2 DEF HeldInv, ToldIdsHold
<1>8. /\ job' \in [Jobs -> JobRecs] /\ job'[j].plan = plan /\ job'[j].ids = new
      /\ job'[j].pc = (IF last THEN "idle" ELSE "work")
      /\ \A k \in Jobs \ {j} : job'[k] = job[k]
  BY <1>1, <1>2, <1>5 DEF JobRecs, plan
<1>9. \A k \in Jobs : /\ Len(job'[k].ids) <= Len(job'[k].plan)
                      /\ (job'[k].pc = "work" => Len(job'[k].ids) < Len(job'[k].plan))
  <2> SUFFICES ASSUME NEW k \in Jobs
               PROVE  /\ Len(job'[k].ids) <= Len(job'[k].plan)
                      /\ (job'[k].pc = "work" => Len(job'[k].ids) < Len(job'[k].plan))
    OBVIOUS
  <2>1. CASE k = j BY <1>2, <1>5, <1>8, <2>1
  <2>2. CASE k # j BY <1>8, <2>2 DEF ExInv, JobInv
  <2> QED BY <2>1, <2>2
<1>10. FailureKeepsPrefix'
  <2> SUFFICES ASSUME NEW k \in Jobs, NEW n \in 1..Len(job'[k].ids)
               PROVE  job'[k].plan[n] \in DOMAIN held' /\ held'[job'[k].plan[n]] = job'[k].ids[n]
    BY DEF FailureKeepsPrefix
  <2>1. CASE k = j BY <1>6, <1>8, <2>1
  <2>2. CASE k # j
    <3>1. job[k].plan[n] \in DOMAIN held /\ held[job[k].plan[n]] = job[k].ids[n]
      BY <1>8, <2>2 DEF ExInv, JobInv, FailureKeepsPrefix
    <3> QED BY <1>4, <1>8, <2>2, <3>1
  <2> QED BY <2>1, <2>2
<1>11. CardInv' /\ ImportInv' /\ starts' \in 0..MaxStarts BY <1>1, CardsApart DEF ExInv
<1> QED BY <1>7, <1>8, <1>9, <1>10, <1>11 DEF ExInv, JobInv

\* An ingest that raises ends the job, after its commit or before.
LEMMA IngestRaisesKeepsInv ==
    ASSUME ExInv, NEW j \in Jobs, NEW committed \in BOOLEAN, IngestRaises(j, committed)
    PROVE  ExInv'
<1>1. /\ job[j].pc = "work" /\ held' = IF committed THEN Holding(At(j)) ELSE held
      /\ job' = [job EXCEPT ![j].pc = "idle"]
      /\ told' = told /\ UNCHANGED <<importVars, starts>>
  BY DEF IngestRaises
<1>2. job \in [Jobs -> JobRecs] BY DEF ExInv, JobInv
<1>3. At(j) \in Claims
  <2>1. job[j].plan \in Seq(Claims) /\ job[j].ids \in Seq(Nat) BY <1>2 DEF JobRecs
  <2>2. Len(job[j].ids) + 1 \in 1..Len(job[j].plan) BY <1>1, <2>1 DEF ExInv, JobInv
  <2> QED BY <2>1, <2>2, ElementOfSeq DEF At
<1>4. /\ DOMAIN held \subseteq DOMAIN held' /\ DOMAIN held' \subseteq Claims
      /\ IsFiniteSet(DOMAIN held')
      /\ held' \in [DOMAIN held' -> Nat] /\ \A d \in DOMAIN held : held'[d] = held[d]
  <2>1. CASE committed
    <3>1. held' = Holding(At(j)) /\ HeldInv BY <1>1, <2>1 DEF ExInv
    <3>2. DOMAIN held \subseteq Claims BY <3>1 DEF HeldInv
    <3> QED BY <1>3, <3>1, <3>2, HoldingGrows
  <2>2. CASE ~committed BY <1>1, <2>2 DEF ExInv, HeldInv
  <2> QED BY <2>1, <2>2
<1>5. HeldInv' BY <1>1, <1>4, StoreGrows DEF ExInv
<1>6. /\ job' \in [Jobs -> JobRecs]
      /\ \A k \in Jobs : /\ job'[k].plan = job[k].plan /\ job'[k].ids = job[k].ids
                         /\ job'[k].pc = IF k = j THEN "idle" ELSE job[k].pc
  BY <1>1, <1>2 DEF JobRecs
<1>7. FailureKeepsPrefix' BY <1>4, <1>6 DEF ExInv, JobInv, FailureKeepsPrefix
<1>8. CardInv' /\ ImportInv' /\ starts' \in 0..MaxStarts BY <1>1, CardsApart DEF ExInv
<1> QED BY <1>5, <1>6, <1>7, <1>8 DEF ExInv, JobInv

-----------------------------------------------------------------------------
(* ------------------------------- imports ------------------------------- *)

\* A memory file is edited or removed while imports run.
LEMMA EditKeepsInv ==
    ASSUME ExInv, NEW f \in Files, NEW is \in Bodies \union Unreadable, Edit(f, is)
    PROVE  ExInv'
<1>1. /\ dir' = [dir EXCEPT ![f] = is] /\ UNCHANGED <<extractVars, cards, import, reported, starts>>
  BY DEF Edit
<1>2. HeldInv' /\ JobInv' BY <1>1, ClaimsApart DEF ExInv
<1> QED BY <1>1, <1>2 DEF ExInv, CardInv, ImportInv

\* A step of one import that leaves the table and the other imports.
LEMMA OneImport ==
    ASSUME ExInv, NEW i \in Importers, NEW r \in ImportRecs,
           import' = [import EXCEPT ![i] = r], UNCHANGED <<extractVars, cards, dir, reported>>,
           starts' \in 0..MaxStarts,
           r.pc = "open" => /\ r.base = cards
                            /\ IsFiniteSet(DOMAIN r.work)
                            /\ Cardinality(DOMAIN r.work) = reported + r.new
                            /\ \A k \in Importers \ {i} : import[k].pc # "open",
           r.pc = "read" => r.new = 0
    PROVE  ExInv'
<1>1. HeldInv' /\ JobInv' BY ClaimsApart DEF ExInv
<1>2. CardInv' BY DEF ExInv, CardInv
<1>3. import \in [Importers -> ImportRecs] BY DEF ExInv, ImportInv
<1>4. \A k \in Importers : import'[k] = IF k = i THEN r ELSE import[k] BY <1>3
<1>5. import' \in [Importers -> ImportRecs] BY <1>3
<1>6. ASSUME NEW k \in Importers, import'[k].pc = "open"
      PROVE  /\ import'[k].base = cards'
             /\ IsFiniteSet(DOMAIN import'[k].work)
             /\ Cardinality(DOMAIN import'[k].work) = reported' + import'[k].new
             /\ \A m \in Importers : import'[m].pc = "open" => m = k
  <2>1. CASE k = i BY <1>4, <1>6, <2>1
  <2>2. CASE k # i BY <1>4, <1>6, <2>2 DEF ExInv, ImportInv
  <2> QED BY <2>1, <2>2
<1>7. \A k \in Importers : import'[k].pc = "read" => import'[k].new = 0
  BY <1>4 DEF ExInv, ImportInv
<1>8. ImportInv' BY <1>5, <1>6, <1>7 DEF ImportInv
<1> QED BY <1>1, <1>2, <1>8 DEF ExInv

\* An import takes the entries of the index.
LEMMA ReadIndexKeepsInv ==
    ASSUME ExInv, NEW i \in Importers, NEW entries \in Lists(Files), ReadIndex(i, entries)
    PROVE  ExInv'
<1> DEFINE r == [IdleImport EXCEPT !.pc = "read", !.todo = entries]
<1>1. /\ import' = [import EXCEPT ![i] = r] /\ UNCHANGED <<extractVars, cards, dir, reported>>
      /\ starts < MaxStarts /\ starts' = starts + 1
  BY DEF ReadIndex
<1>2. entries \in Seq(Files) BY ListsAreSeqs
<1>3. NoCards \in CardTables
  <2>1. NoCards \in [{} -> Bodies] BY DEF NoCards
  <2>2. {} \in SUBSET Files OBVIOUS
  <2> QED BY <2>1, <2>2 DEF CardTables
<1>4. r \in ImportRecs /\ r.pc = "read" /\ r.new = 0 BY <1>2, <1>3 DEF IdleImport, ImportRecs
<1> HIDE DEF r
<1>5. starts' \in 0..MaxStarts BY <1>1, ExAssumption DEF ExInv
<1> QED BY <1>1, <1>4, <1>5, OneImport

\* An import opens its transaction.
LEMMA BeginImportKeepsInv == ASSUME ExInv, NEW i \in Importers, BeginImport(i) PROVE ExInv'
<1> DEFINE r == [import[i] EXCEPT !.pc = "open", !.work = cards, !.base = cards]
<1>1. import \in [Importers -> ImportRecs] /\ cards \in CardTables BY DEF ExInv, ImportInv, CardInv
<1>2. /\ import[i].pc = "read" /\ \A k \in Importers : import[k].pc # "open"
      /\ import' = [import EXCEPT ![i].pc = "open", ![i].work = cards, ![i].base = cards]
      /\ UNCHANGED <<extractVars, cards, dir, reported, starts>>
  BY DEF BeginImport
<1>3. import' = [import EXCEPT ![i] = r] BY <1>1, <1>2
<1>4. /\ r \in ImportRecs /\ r.base = cards /\ r.work = cards /\ r.new = import[i].new
      /\ r.pc = "open"
  BY <1>1 DEF ImportRecs
<1> HIDE DEF r
<1>5. r.new = 0 BY <1>2, <1>4 DEF ExInv, ImportInv
<1>6. /\ IsFiniteSet(DOMAIN r.work) /\ Cardinality(DOMAIN r.work) = reported + r.new
  BY <1>4, <1>5 DEF ExInv, CardInv
<1>7. starts' \in 0..MaxStarts BY <1>2 DEF ExInv
<1> QED BY <1>2, <1>3, <1>4, <1>6, <1>7, OneImport

\* One entry becomes a card, or is skipped.
LEMMA EntryKeepsInv == ASSUME ExInv, NEW i \in Importers, Entry(i) PROVE ExInv'
<1> DEFINE f == Head(import[i].todo)
           w == import[i].work
           work == IF dir[f] \in Unreadable THEN w
                   ELSE [g \in DOMAIN w \union {f} |-> IF g = f THEN dir[f] ELSE w[g]]
           new == IF dir[f] \notin Unreadable /\ f \notin DOMAIN w THEN import[i].new + 1
                  ELSE import[i].new
           r == [import[i] EXCEPT !.todo = Tail(import[i].todo), !.work = work, !.new = new]
<1>1. import \in [Importers -> ImportRecs] /\ dir \in [Files -> Bodies \union Unreadable]
  BY DEF ExInv, ImportInv, CardInv
<1>2. /\ import[i].pc = "open" /\ import[i].todo # <<>>
      /\ import' = [import EXCEPT ![i].todo = Tail(@), ![i].work = work, ![i].new = new]
      /\ UNCHANGED <<extractVars, cards, dir, reported, starts>>
  BY DEF Entry, IsNew
<1>3. /\ import[i].todo \in Seq(Files) /\ w \in CardTables /\ import[i].new \in Nat
  BY <1>1 DEF ImportRecs
<1>4. f \in Files /\ Tail(import[i].todo) \in Seq(Files)
  BY <1>2, <1>3, HeadTailProperties
<1>5. /\ import[i].base = cards /\ IsFiniteSet(DOMAIN w)
      /\ Cardinality(DOMAIN w) = reported + import[i].new
      /\ \A k \in Importers \ {i} : import[k].pc # "open"
  BY <1>2 DEF ExInv, ImportInv
<1>6. import' = [import EXCEPT ![i] = r]
  <2> HIDE DEF work, new
  <2> QED BY <1>1, <1>2
<1>7. PICK F \in SUBSET Files : w \in [F -> Bodies] BY <1>3 DEF CardTables
<1>8. reported \in Nat BY DEF ExInv, CardInv
<1> HIDE DEF f, w
<1>9. /\ work \in CardTables /\ new \in Nat /\ IsFiniteSet(DOMAIN work)
      /\ Cardinality(DOMAIN work) = reported + new
  <2>1. CASE dir[f] \in Unreadable BY <1>3, <1>5, <2>1
  <2>2. CASE dir[f] \notin Unreadable
    <3>1. work \in [F \union {f} -> Bodies] BY <1>1, <1>4, <1>7, <2>2
    <3>2. F \union {f} \in SUBSET Files /\ DOMAIN w = F /\ DOMAIN work = F \union {f}
      BY <1>4, <1>7, <3>1
    <3>3. work \in CardTables BY <3>1, <3>2 DEF CardTables
    <3>4. /\ IsFiniteSet(F \union {f})
          /\ Cardinality(F \union {f}) = IF f \in F THEN Cardinality(F) ELSE Cardinality(F) + 1
      BY <1>5, <3>2, FS_AddElement
    <3>5. new = IF f \in F THEN import[i].new ELSE import[i].new + 1 BY <2>2, <3>2
    <3> HIDE DEF new, work
    <3>6. Cardinality(DOMAIN work) = reported + new
      BY <1>3, <1>5, <1>8, <3>2, <3>4, <3>5
    <3> QED BY <1>3, <3>2, <3>3, <3>4, <3>5, <3>6
  <2> QED BY <2>1, <2>2
<1> HIDE DEF work, new
<1>10. r \in ImportRecs /\ r.base = import[i].base /\ r.work = work /\ r.new = new /\ r.pc = "open"
  BY <1>1, <1>2, <1>4, <1>9 DEF ImportRecs
<1> HIDE DEF r
<1>11. starts' \in 0..MaxStarts BY <1>2 DEF ExInv
<1> QED BY <1>2, <1>5, <1>6, <1>9, <1>10, <1>11, OneImport

\* An import that has not begun has a record like any other.
LEMMA IdleImportTyped == IdleImport \in ImportRecs /\ IdleImport.pc = "idle"
<1>1. NoCards \in [{} -> Bodies] BY DEF NoCards
<1>2. {} \in SUBSET Files OBVIOUS
<1>3. NoCards \in CardTables BY <1>1, <1>2 DEF CardTables
<1> QED BY <1>3 DEF IdleImport, ImportRecs

\* The cards of an import are committed together.
LEMMA CommitImportKeepsInv == ASSUME ExInv, NEW i \in Importers, CommitImport(i) PROVE ExInv'
<1>1. /\ import[i].pc = "open" /\ cards' = import[i].work /\ reported' = reported + import[i].new
      /\ import' = [import EXCEPT ![i] = IdleImport] /\ UNCHANGED <<extractVars, dir, starts>>
  BY DEF CommitImport
<1>2. HeldInv' /\ JobInv' BY <1>1, ClaimsApart DEF ExInv
<1>3. import \in [Importers -> ImportRecs] BY DEF ExInv, ImportInv
<1>4. import[i].work \in CardTables /\ import[i].new \in Nat BY <1>3 DEF ImportRecs
<1>5. /\ IsFiniteSet(DOMAIN import[i].work)
      /\ Cardinality(DOMAIN import[i].work) = reported + import[i].new
      /\ \A k \in Importers : import[k].pc = "open" => k = i
  BY <1>1 DEF ExInv, ImportInv
<1>6. CardInv' BY <1>1, <1>4, <1>5 DEF ExInv, CardInv
<1>7. /\ import' \in [Importers -> ImportRecs]
      /\ \A k \in Importers : import'[k].pc # "open" /\ (k # i => import'[k] = import[k])
      /\ import'[i].pc = "idle"
  BY <1>1, <1>3, <1>5, IdleImportTyped
<1>8. ImportInv' BY <1>7 DEF ExInv, ImportInv
<1> QED BY <1>1, <1>2, <1>6, <1>8 DEF ExInv

\* An import that raises leaves the committed cards as they were.
LEMMA ImportRaisesKeepsInv == ASSUME ExInv, NEW i \in Importers, ImportRaises(i) PROVE ExInv'
<1>1. import' = [import EXCEPT ![i] = IdleImport]
      /\ UNCHANGED <<extractVars, cards, dir, reported, starts>>
  BY DEF ImportRaises
<1>2. starts' \in 0..MaxStarts BY <1>1 DEF ExInv
<1> QED BY <1>1, <1>2, IdleImportTyped, OneImport

\* Every step keeps the invariant.
LEMMA ExStepInv == ExInv /\ [ExtractNext \/ ImportNext]_exVars => ExInv'
<1> SUFFICES ASSUME ExInv, [ExtractNext \/ ImportNext]_exVars PROVE ExInv' OBVIOUS
<1>1. CASE UNCHANGED exVars
  <2>1. UNCHANGED extractVars /\ UNCHANGED importVars /\ starts' = starts
    BY <1>1 DEF exVars, extractVars, importVars
  <2> QED BY <2>1, ClaimsApart, CardsApart DEF ExInv
<1>2. CASE ExtractNext
  BY <1>2, StartJobKeepsInv, IngestOneKeepsInv, IngestRaisesKeepsInv DEF ExtractNext
<1>3. CASE ImportNext
  BY <1>3, EditKeepsInv, BeginImportKeepsInv, EntryKeepsInv, CommitImportKeepsInv,
     ImportRaisesKeepsInv, ReadIndexKeepsInv
     DEF ImportNext
<1> QED BY <1>1, <1>2, <1>3

\* The inductive invariant is at least the one of the runs.
LEMMA ExInvSafe == ExInv => ExtractionSafety
<1> SUFFICES ASSUME ExInv PROVE ExtractionSafety OBVIOUS
<1>1. ToldIdsHold /\ FailureKeepsPrefix /\ OpenImportChangesNothing /\ TableGrowsByInserted
  BY DEF ExInv, HeldInv, JobInv, ImportInv, CardInv, OpenImportChangesNothing, TableGrowsByInserted
<1>2. ExTypeOK
  <2>1. Cardinality({i \in Importers : import[i].pc = "open"}) <= 1
    <3> DEFINE opened == {i \in Importers : import[i].pc = "open"}
    <3>1. opened = {} \/ \E i : opened = {i}
      <4>1. \A i, k \in opened : i = k BY DEF ExInv, ImportInv
      <4> HIDE DEF opened
      <4>2. ASSUME NEW i \in opened PROVE opened = {i} BY <4>1
      <4> QED BY <4>2
    <3> HIDE DEF opened
    <3>2. Cardinality(opened) \in {0, 1} BY <3>1, FS_EmptySet, FS_Singleton
    <3>3. Cardinality(opened) <= 1 BY <3>2
    <3> QED BY <3>3 DEF opened
  <2>2. \A j \in Jobs : job[j].pc \in {"idle", "work"} /\ Len(job[j].ids) <= Len(job[j].plan)
    BY DEF ExInv, JobInv, JobRecs
  <2>3. DOMAIN cards \subseteq Files /\ \A f \in DOMAIN cards : cards[f] \in Bodies
    <3>1. PICK F \in SUBSET Files : cards \in [F -> Bodies] BY DEF ExInv, CardInv, CardTables
    <3> QED BY <3>1
  <2>4. DOMAIN held \subseteq Claims /\ \A c \in DOMAIN held : held[c] \in Nat
    BY DEF ExInv, HeldInv
  <2> QED BY <2>1, <2>2, <2>3, <2>4 DEF ExTypeOK, ExInv, CardInv
<1> QED BY <1>1, <1>2 DEF ExtractionSafety

\* What the two ways to feed the store promise: the ids that were told stay
\* those of the rows, a failure keeps the claims before it (extract_and_ingest),
\* and an import is seen whole and reports the rows it added (memory_md.py).
THEOREM ExtractionIsSafe == ExSpec => []ExtractionSafety
<1>1. ExSpec => []ExInv BY ExInitInv, ExStepInv, PTL DEF ExSpec
<1> QED BY <1>1, ExInvSafe, PTL

------------------------------------------------------------------------------
(* ------------------------- queries and ranking -------------------------- *)

EventRecs == [kind : {"event"}, at : 0..MaxTime]
ClaimRecs == [kind : {"exact", "prefix"}, conf : Nat]
HitRecs == [id : Nat, score : Nat]
AskRecs == [pc : {"idle", "second", "done"}, form : {"none", "bug_fix", "entity", "timeline"},
            hits : SUBSET HitRecs, began : SUBSET Nat, since : Nat,
            until : [at : Nat, grain : Nat]]

StoreInv ==
    /\ Ids = 1..Cardinality(Ids) /\ Cardinality(Ids) \in 0..MaxRows
    /\ rows \in [Ids -> EventRecs \union ClaimRecs]
    /\ now \in 0..MaxTime
    /\ \A i \in EventRows : rows[i].at <= now

\* by_entity's exact match i, with enough claims that are as sure.
Outranked(form, began, i) ==
    /\ form = "entity" /\ rows[i].kind = "exact"
    /\ Cardinality({c \in (began \intersect ClaimRows) \ {i} : rows[c].conf >= rows[i].conf}) >= Limit

\* The hits H leave i out only for as many that score as much.
FullOver(form, H, i) == Cardinality(H) = Limit /\ \A h \in H : h.score >= Score(form, i)

\* H does right by i: it is among the hits, or rightly not.
Covers(form, began, H, i) ==
    \/ \E h \in H : h.id = i /\ h.score >= Score(form, i)
    \/ FullOver(form, H, i)
    \/ Outranked(form, began, i)

FirstKind(form) == IF form = "bug_fix" THEN EventRows ELSE ClaimRows

AskInv ==
    /\ ask \in AskRecs
    /\ ask.began \subseteq Ids /\ Returned \subseteq Ids
    /\ IsFiniteSet(ask.hits) /\ Cardinality(ask.hits) <= Limit
    /\ (ask.pc = "second" => /\ ask.form \in {"bug_fix", "entity"}
                             /\ \A i \in ask.began \intersect FirstKind(ask.form) :
                                  Covers(ask.form, ask.began, ask.hits, i))
    /\ (ask.pc = "done" /\ ask.form \in {"bug_fix", "entity"} =>
          \A i \in ask.began \ Returned :
            FullOver(ask.form, ask.hits, i) \/ Outranked(ask.form, ask.began, i))
    /\ (ask.pc = "done" /\ ask.form = "timeline" => ask.began \subseteq EventRows /\ Returned \subseteq EventRows)
    /\ WindowIsWhole

RetrInv == StoreInv /\ AskInv /\ FusionKeepsAgreement

-----------------------------------------------------------------------------
(* ------------------------------ arithmetic ----------------------------- *)

\* A larger divisor, a smaller recency.
LEMMA QuotientFalls ==
    ASSUME NEW m \in Nat \ {0}, NEW n \in Nat, m <= n
    PROVE  200 \div n <= 200 \div m /\ 200 \div n \in Nat /\ 200 \div m \in Nat
OBVIOUS

\* A whole day, or second, from a bound that begins one.
LEMMA GrainIsWhole ==
    ASSUME NEW g \in Nat \ {0}, NEW at \in Nat, at % g = 0, NEW t \in Nat, t \div g <= at \div g
    PROVE  t <= at + g - 1
OBVIOUS

\* 1/a + 1/b > 1/c + 1/d.
LEMMA FractionFalls ==
    ASSUME NEW a \in Nat \ {0}, NEW b \in Nat \ {0}, NEW c \in Nat, NEW d \in Nat, a < c, b < d
    PROVE  ~((c + d) * (a * b) >= (a + b) * (c * d))
OBVIOUS

-----------------------------------------------------------------------------
(* -------------------------------- scores ------------------------------- *)

\* What the invariant says of one row.
LEMMA RowKinds ==
    ASSUME StoreInv
    PROVE  /\ \A i \in EventRows : /\ i \in Ids /\ rows[i].kind = "event"
                                   /\ rows[i].at \in Nat /\ rows[i].at <= now
                                   /\ rows[i].at <= MaxTime
           /\ \A i \in ClaimRows : /\ i \in Ids /\ rows[i].kind \in {"exact", "prefix"}
                                   /\ rows[i].conf \in Nat
           /\ Ids \subseteq Nat /\ IsFiniteSet(Ids)
<1>1. \A i \in Ids : rows[i] \in EventRecs \union ClaimRecs BY DEF StoreInv
<1>2. \A i \in EventRows : i \in Ids /\ rows[i].kind = "event" /\ rows[i] \in EventRecs
  BY <1>1 DEF EventRows, ClaimRecs
<1>3. \A i \in ClaimRows : i \in Ids /\ rows[i] \in ClaimRecs
  BY <1>1 DEF EventRows, ClaimRows, EventRecs
<1>4. Ids \subseteq Nat /\ IsFiniteSet(Ids)
  <2>1. Cardinality(Ids) \in Nat /\ Ids = 1..Cardinality(Ids) BY RetrAssumption DEF StoreInv
  <2>2. 1 \in Int /\ Cardinality(Ids) \in Int BY <2>1
  <2>3. IsFiniteSet(1..Cardinality(Ids)) BY <2>2, FS_Interval
  <2> HIDE DEF Ids
  <2> QED BY <2>1, <2>3
<1>5. \A i \in EventRows : rows[i].at \in 0..MaxTime BY <1>2 DEF EventRecs
<1>6. \A i \in EventRows : rows[i].at <= now BY DEF StoreInv
<1> QED BY <1>2, <1>3, <1>4, <1>5, <1>6, RetrAssumption DEF ClaimRecs, EventRecs

\* An older row of the same kind scores no more.
LEMMA OlderScoresLess ==
    ASSUME StoreInv, NEW i \in EventRows, NEW j \in EventRows, rows[i].at <= rows[j].at,
           NEW form \in {"bug_fix", "entity", "timeline"}
    PROVE  /\ Score(form, i) <= Score(form, j)
           /\ Score(form, i) \in Nat /\ Score(form, j) \in Nat
<1>1. /\ rows[i].kind = "event" /\ rows[i].at \in Nat /\ rows[i].at <= now
      /\ rows[j].kind = "event" /\ rows[j].at \in Nat /\ rows[j].at <= now /\ now \in Nat
  BY RowKinds, RetrAssumption DEF StoreInv
<1>2. 2 + (now - rows[j].at) \in Nat \ {0} /\ 2 + (now - rows[i].at) \in Nat
      /\ 2 + (now - rows[j].at) <= 2 + (now - rows[i].at)
  BY <1>1
<1>3. /\ Recency(rows[i].at) <= Recency(rows[j].at)
      /\ Recency(rows[i].at) \in Nat /\ Recency(rows[j].at) \in Nat
  BY <1>2, QuotientFalls DEF Recency
<1>4. CASE form = "bug_fix" BY <1>1, <1>3, <1>4 DEF Score, EventScore, ClaimScore
<1>5. CASE form = "entity" BY <1>1, <1>3, <1>5 DEF Score, EventScore, ClaimScore
<1>6. CASE form = "timeline" BY <1>1, <1>3, <1>6 DEF Score, EventScore, ClaimScore
<1> QED BY <1>4, <1>5, <1>6

\* Every row has a score.
LEMMA ScoreIsNat ==
    ASSUME StoreInv, NEW i \in Ids, NEW form \in {"bug_fix", "entity", "timeline"}
    PROVE  Score(form, i) \in Nat
<1>1. CASE i \in EventRows
  <2>1. rows[i].at <= rows[i].at BY <1>1, RowKinds
  <2> QED BY <1>1, <2>1, OlderScoresLess
<1>2. CASE i \in ClaimRows BY <1>2, RowKinds DEF Score, EventScore, ClaimScore
<1> QED BY <1>1, <1>2 DEF ClaimRows

\* With time a row's score falls, and rows do not change.
LEMMA ScoreFalls ==
    ASSUME StoreInv, NEW i \in Ids, NEW form \in {"bug_fix", "entity"}, i \in Ids',
           rows'[i] = rows[i], now' \in Nat, now <= now'
    PROVE  Score(form, i)' <= Score(form, i) /\ Score(form, i)' \in Nat
<1>0. now \in Nat BY RetrAssumption DEF StoreInv
<1>1. CASE i \in EventRows
  <2>1. rows[i].kind = "event" /\ rows[i].at \in Nat /\ rows[i].at <= now
    BY <1>1, RowKinds
  <2>2. 2 + (now - rows[i].at) \in Nat \ {0} /\ 2 + (now' - rows[i].at) \in Nat
        /\ 2 + (now - rows[i].at) <= 2 + (now' - rows[i].at)
    BY <1>0, <2>1
  <2>3. /\ 200 \div (2 + (now' - rows[i].at)) <= 200 \div (2 + (now - rows[i].at))
        /\ 200 \div (2 + (now' - rows[i].at)) \in Nat /\ 200 \div (2 + (now - rows[i].at)) \in Nat
    BY <2>2, QuotientFalls
  <2> DEFINE q == 200 \div (2 + (now - rows[i].at))
             r == 200 \div (2 + (now' - rows[i].at))
  <2>4. /\ Score(form, i) = (IF form = "bug_fix" THEN 6000 + 40 * q ELSE 5000 + 30 * q)
        /\ Score(form, i)' = (IF form = "bug_fix" THEN 6000 + 40 * r ELSE 5000 + 30 * r)
    <3>1. Recency(rows[i].at) = q BY DEF Recency
    <3>2. Recency(rows[i].at)' = r BY DEF Recency
    <3>3. rows'[i].kind = "event" BY <2>1
    <3> HIDE DEF q, r
    <3>4. Score(form, i) = IF form = "bug_fix" THEN 6000 + 40 * q ELSE 5000 + 30 * q
      <4>1. Score(form, i) = EventScore(form, rows[i].at) BY <2>1 DEF Score
      <4> QED BY <3>1, <4>1 DEF EventScore
    <3>5. Score(form, i)' = IF form = "bug_fix" THEN 6000 + 40 * r ELSE 5000 + 30 * r
      <4>1. Score(form, i)' = EventScore(form, rows[i].at)' BY <3>3 DEF Score
      <4> QED BY <3>2, <4>1 DEF EventScore
    <3> QED BY <3>4, <3>5
  <2> HIDE DEF q, r
  <2>5. r <= q /\ r \in Nat /\ q \in Nat BY <2>3 DEF q, r
  <2> QED BY <2>4, <2>5
<1>2. CASE i \in ClaimRows
  <2>1. rows[i].kind \in {"exact", "prefix"} BY <1>2, RowKinds
  <2> QED BY <2>1 DEF Score, EventScore, ClaimScore
<1> QED BY <1>1, <1>2 DEF ClaimRows

-----------------------------------------------------------------------------
(* --------------------------- halves and merges ------------------------- *)

\* As many hits as rows were found.
LEMMA HitsCount ==
    ASSUME StoreInv, NEW form \in {"bug_fix", "entity", "timeline"},
           NEW S \in SUBSET Ids
    PROVE  /\ IsFiniteSet(Hits(form, S)) /\ Cardinality(Hits(form, S)) = Cardinality(S)
           /\ Hits(form, S) \subseteq HitRecs
           /\ {h.id : h \in Hits(form, S)} = S
<1> DEFINE f == [i \in S |-> [id |-> i, score |-> Score(form, i)]]
<1>1. IsFiniteSet(S) /\ S \subseteq Nat BY RowKinds, FS_Subset
<1>2. f \in Surjection(S, Hits(form, S))
  <2>1. f \in [S -> Hits(form, S)] BY DEF Hits
  <2>2. \A h \in Hits(form, S) : \E i \in S : f[i] = h BY DEF Hits
  <2> HIDE DEF f
  <2> QED BY <2>1, <2>2, Fun_IsSurj
<1>3. f \in Injection(S, Hits(form, S))
  <2>1. f \in [S -> Hits(form, S)] BY DEF Hits
  <2>2. ASSUME NEW i \in S, NEW j \in S, f[i] = f[j] PROVE i = j
    <3>1. f[i].id = i /\ f[j].id = j OBVIOUS
    <3> HIDE DEF f
    <3> QED BY <2>2, <3>1
  <2> HIDE DEF f
  <2> QED BY <2>1, <2>2, Fun_IsInj
<1> HIDE DEF f
<1>4. IsFiniteSet(Hits(form, S)) /\ Cardinality(Hits(form, S)) = Cardinality(S)
  BY <1>1, <1>2, <1>3, FS_Surjection
<1>5. \A i \in S : Score(form, i) \in Nat BY ScoreIsNat
<1>6. Hits(form, S) \subseteq HitRecs BY <1>1, <1>5 DEF Hits, HitRecs
<1>7. {h.id : h \in Hits(form, S)} = S
  <2>1. \A h \in Hits(form, S) : h.id \in S BY DEF Hits
  <2>2. ASSUME NEW i \in S PROVE \E h \in Hits(form, S) : h.id = i
    <3> DEFINE h == [id |-> i, score |-> Score(form, i)]
    <3>1. h \in Hits(form, S) /\ h.id = i BY DEF Hits
    <3> QED BY <3>1
  <2> QED BY <2>1, <2>2
<1> QED BY <1>4, <1>6, <1>7

\* What ORDER BY ... LIMIT leaves out, it leaves out for `limit` others.
LEMMA LeftOut ==
    ASSUME NEW S, IsFiniteSet(S), NEW T \in SUBSET S,
           Cardinality(T) = IF Cardinality(S) < Limit THEN Cardinality(S) ELSE Limit
    PROVE  /\ IsFiniteSet(T) /\ Cardinality(T) <= Limit
           /\ (T # S => Cardinality(T) = Limit)
           /\ \A U \in SUBSET S : Cardinality(U) = Limit => Cardinality(T) = Limit
<1>1. IsFiniteSet(T) /\ Cardinality(S) \in Nat /\ Cardinality(T) \in Nat
  BY FS_Subset, FS_CardinalityType
<1>2. Cardinality(T) <= Limit BY <1>1, RetrAssumption
<1>3. T # S => Cardinality(T) = Limit
  <2>1. T # S => Cardinality(T) # Cardinality(S) BY FS_Subset
  <2> QED BY <2>1
<1>4. ASSUME NEW U \in SUBSET S, Cardinality(U) = Limit PROVE Cardinality(T) = Limit
  <2>1. Cardinality(U) <= Cardinality(S) BY FS_Subset
  <2> QED BY <1>1, <1>4, <2>1, RetrAssumption
<1> QED BY <1>1, <1>2, <1>3, <1>4

\* The newest events do right by every event.
LEMMA EventsCovered ==
    ASSUME StoreInv, NEW form \in {"bug_fix", "entity"}, NEW S \in NewestEvents,
           NEW began, NEW i \in EventRows
    PROVE  Covers(form, began, Hits(form, S), i)
<1>1. /\ S \in SUBSET EventRows
      /\ Cardinality(S) = IF Cardinality(EventRows) < Limit THEN Cardinality(EventRows) ELSE Limit
      /\ \A x \in S, y \in EventRows \ S : rows[x].at >= rows[y].at
  BY DEF NewestEvents, Top, kSubset
<1>2. EventRows \subseteq Ids BY DEF EventRows
<1>3. IsFiniteSet(EventRows) BY <1>2, RowKinds, FS_Subset
<1>4. S \in SUBSET Ids BY <1>1, <1>2
<1>5. CASE i \in S
  <2> DEFINE h == [id |-> i, score |-> Score(form, i)]
  <2>1. h \in Hits(form, S) /\ h.id = i /\ h.score = Score(form, i) BY <1>5 DEF Hits
  <2>2. Score(form, i) \in Nat BY <1>2, ScoreIsNat
  <2> HIDE DEF h
  <2> QED BY <2>1, <2>2 DEF Covers
<1>6. CASE i \notin S
  <2>1. Cardinality(S) = Limit BY <1>1, <1>3, <1>6, LeftOut
  <2>2. Cardinality(Hits(form, S)) = Limit BY <1>4, <2>1, HitsCount
  <2>3. ASSUME NEW h \in Hits(form, S) PROVE h.score >= Score(form, i)
    <3>1. PICK x \in S : h = [id |-> x, score |-> Score(form, x)] BY DEF Hits
    <3>2. rows[x].at >= rows[i].at /\ x \in EventRows BY <1>1, <1>6
    <3>3. rows[i].at <= rows[x].at
      <4>1. rows[i].at \in Nat /\ rows[x].at \in Nat BY <3>2, RowKinds
      <4> QED BY <3>2, <4>1
    <3>4. Score(form, i) <= Score(form, x) /\ Score(form, i) \in Nat /\ Score(form, x) \in Nat
      BY <3>2, <3>3, OlderScoresLess
    <3>5. h.score = Score(form, x) BY <3>1
    <3> QED BY <3>4, <3>5
  <2> QED BY <2>2, <2>3 DEF Covers, FullOver
<1> QED BY <1>5, <1>6

\* The surest claims do right by every claim, but for by_entity's exact match.
LEMMA ClaimsCovered ==
    ASSUME StoreInv, NEW form \in {"bug_fix", "entity"}, NEW S \in SurestClaims,
           NEW began \in SUBSET Ids, form = "entity" => began = Ids, NEW i \in ClaimRows
    PROVE  Covers(form, began, Hits(form, S), i)
<1>1. /\ S \in SUBSET ClaimRows
      /\ Cardinality(S) = IF Cardinality(ClaimRows) < Limit THEN Cardinality(ClaimRows) ELSE Limit
      /\ \A x \in S, y \in ClaimRows \ S : rows[x].conf >= rows[y].conf
  BY DEF SurestClaims, Top, kSubset
<1>2. ClaimRows \subseteq Ids BY DEF ClaimRows
<1>3. IsFiniteSet(ClaimRows) BY <1>2, RowKinds, FS_Subset
<1>4. S \in SUBSET Ids BY <1>1, <1>2
<1>5. CASE i \in S
  <2> DEFINE h == [id |-> i, score |-> Score(form, i)]
  <2>1. h \in Hits(form, S) /\ h.id = i /\ h.score = Score(form, i) BY <1>5 DEF Hits
  <2>2. Score(form, i) \in Nat BY <1>2, ScoreIsNat
  <2> HIDE DEF h
  <2> QED BY <2>1, <2>2 DEF Covers
<1>6. CASE i \notin S
  <2>1. Cardinality(S) = Limit BY <1>1, <1>3, <1>6, LeftOut
  <2>2. Cardinality(Hits(form, S)) = Limit BY <1>4, <2>1, HitsCount
  <2>3. CASE form = "bug_fix" \/ rows[i].kind = "prefix"
    <3>1. ASSUME NEW h \in Hits(form, S) PROVE h.score >= Score(form, i)
      <4>1. PICK x \in S : h = [id |-> x, score |-> Score(form, x)] BY DEF Hits
      <4>2. rows[x].kind \in {"exact", "prefix"} /\ rows[i].kind \in {"exact", "prefix"}
        BY <1>1, RowKinds
      <4>3. Score(form, x) >= Score(form, i)
        <5>1. CASE form = "bug_fix"
          <6>1. rows[x].kind # "event" /\ rows[i].kind # "event" BY <4>2
          <6>2. Score(form, x) = 8000 BY <5>1, <6>1 DEF Score, EventScore, ClaimScore
          <6>3. Score(form, i) = 8000 BY <5>1, <6>1 DEF Score, EventScore, ClaimScore
          <6> QED BY <6>2, <6>3
        <5>2. CASE form = "entity"
          <6>1. rows[i].kind = "prefix" BY <2>3, <5>2
          <6>2. Score(form, i) = 7000 BY <5>2, <6>1 DEF Score, EventScore, ClaimScore
          <6>3. Score(form, x) \in {7000, 11000} BY <4>2, <5>2 DEF Score, EventScore, ClaimScore
          <6> QED BY <6>2, <6>3
        <5> QED BY <5>1, <5>2
      <4>4. h.score = Score(form, x) BY <4>1
      <4> QED BY <4>3, <4>4
    <3> QED BY <2>2, <3>1 DEF Covers, FullOver
  <2>4. CASE form = "entity" /\ rows[i].kind = "exact"
    <3> DEFINE surer == {c \in (began \intersect ClaimRows) \ {i} : rows[c].conf >= rows[i].conf}
    <3>1. S \subseteq surer BY <1>1, <1>2, <1>6, <2>4
    <3>2. IsFiniteSet(surer) BY <1>3, FS_Subset
    <3> HIDE DEF surer
    <3>3. Cardinality(S) <= Cardinality(surer) /\ Cardinality(surer) \in Nat
      BY <3>1, <3>2, FS_Subset, FS_CardinalityType
    <3>4. Cardinality(surer) >= Limit BY <2>1, <3>3, RetrAssumption
    <3> QED BY <2>4, <3>4 DEF Covers, Outranked, surer
  <2> QED BY <2>3, <2>4, RowKinds
<1> QED BY <1>5, <1>6

\* The merge of two halves does right by what either of them did right by.
LEMMA MergeCovers ==
    ASSUME NEW H \in SUBSET HitRecs, IsFiniteSet(H), NEW T \in SUBSET H,
           Cardinality(T) = IF Cardinality(H) < Limit THEN Cardinality(H) ELSE Limit,
           \A x \in T, y \in H \ T : x.score >= y.score,
           NEW part \in SUBSET H, NEW form, NEW began, NEW i, Score(form, i) \in Nat,
           Covers(form, began, part, i), i \notin {h.id : h \in T}
    PROVE  FullOver(form, T, i) \/ Outranked(form, began, i)
<1>1. IsFiniteSet(T) /\ (T # H => Cardinality(T) = Limit)
      /\ \A U \in SUBSET H : Cardinality(U) = Limit => Cardinality(T) = Limit
  BY LeftOut
<1>2. \A h \in H : h.score \in Nat BY DEF HitRecs
<1>3. ASSUME NEW h \in H \ T, h.score >= Score(form, i) PROVE FullOver(form, T, i)
  <2>1. Cardinality(T) = Limit BY <1>1, <1>3
  <2>2. ASSUME NEW x \in T PROVE x.score >= Score(form, i)
    <3>1. x.score >= h.score BY <1>3
    <3>2. x.score \in Nat /\ h.score \in Nat BY <1>2, <1>3
    <3> QED BY <1>3, <3>1, <3>2
  <2> QED BY <2>1, <2>2 DEF FullOver
<1>4. CASE \E h \in part : h.id = i /\ h.score >= Score(form, i)
  BY <1>3, <1>4
<1>5. CASE FullOver(form, part, i)
  <2>1. Cardinality(T) = Limit BY <1>1, <1>5 DEF FullOver
  <2>2. CASE part \subseteq T
    <3>1. part = T BY <1>1, <1>5, <2>1, <2>2, FS_Subset DEF FullOver
    <3> QED BY <1>5, <3>1
  <2>3. CASE ~(part \subseteq T)
    <3>1. PICK h \in part : h \notin T BY <2>3
    <3> QED BY <1>3, <1>5, <3>1 DEF FullOver
  <2> QED BY <2>2, <2>3
<1> QED BY <1>4, <1>5 DEF Covers

-----------------------------------------------------------------------------
(* -------------------------------- queries ------------------------------ *)

\* No query is a query like any other.
LEMMA NoQueryTyped == NoQuery \in AskRecs /\ NoQuery.pc = "idle" /\ NoQuery.hits = {} /\ NoQuery.began = {}
BY DEF NoQuery, AskRecs

\* No row, no query and no ranking.
LEMMA RetrInitInv == RetrInit => RetrInv
<1> SUFFICES ASSUME RetrInit PROVE RetrInv OBVIOUS
<1> USE DEF RetrInit
<1>1. Ids = {} /\ EventRows = {} BY DEF Ids, EventRows
<1>2. Cardinality({}) = 0 /\ IsFiniteSet({}) /\ 1..0 = {} BY FS_EmptySet
<1>3. StoreInv
  <2>1. rows \in [{} -> EventRecs \union ClaimRecs] OBVIOUS
  <2> QED BY <1>1, <1>2, <2>1, RetrAssumption DEF StoreInv
<1>4. AskInv
  <2>1. Returned = {} BY NoQueryTyped DEF Returned
  <2> QED BY <1>2, <2>1, NoQueryTyped, RetrAssumption DEF AskInv, WindowIsWhole
<1>5. FusionKeepsAgreement BY DEF FusionKeepsAgreement
<1> QED BY <1>3, <1>4, <1>5 DEF RetrInv

\* Rows are added and the clock moves: no answer, whole or half, becomes wrong.
LEMMA AnswersStay ==
    ASSUME StoreInv, AskInv, ask' = ask, Ids \subseteq Ids',
           \A i \in Ids : rows'[i] = rows[i], now' \in Nat, now <= now'
    PROVE  AskInv'
<1>1. ask \in AskRecs /\ ask.began \subseteq Ids /\ Returned \subseteq Ids /\ ask.hits \subseteq HitRecs
  BY DEF AskInv, AskRecs
<1>2. \A i \in Ids : (i \in EventRows <=> i \in EventRows') /\ (i \in ClaimRows <=> i \in ClaimRows')
  BY DEF EventRows, ClaimRows
<1>3. ASSUME NEW form \in {"bug_fix", "entity"}, NEW i \in Ids
      PROVE  /\ Score(form, i)' <= Score(form, i)
             /\ Score(form, i)' \in Nat /\ Score(form, i) \in Nat
  BY ScoreFalls, ScoreIsNat
<1>4. ASSUME NEW form, NEW i \in Ids, Outranked(form, ask.began, i)
      PROVE  Outranked(form, ask.began, i)'
  <2>1. {c \in (ask.began \intersect ClaimRows) \ {i} : rows[c].conf >= rows[i].conf}
          = {c \in (ask.began \intersect ClaimRows') \ {i} : rows'[c].conf >= rows'[i].conf}
    BY <1>1, <1>2
  <2> QED BY <1>4, <2>1 DEF Outranked
<1>5. ASSUME NEW form \in {"bug_fix", "entity"}, NEW i \in Ids, FullOver(form, ask.hits, i)
      PROVE  FullOver(form, ask.hits, i)'
  <2>1. ASSUME NEW h \in ask.hits PROVE h.score >= Score(form, i)'
    <3>1. h.score >= Score(form, i) /\ h.score \in Nat BY <1>1, <1>5 DEF FullOver, HitRecs
    <3> QED BY <1>3, <3>1
  <2> QED BY <1>5, <2>1 DEF FullOver
<1>6. ASSUME NEW form \in {"bug_fix", "entity"}, NEW i \in Ids,
             Covers(form, ask.began, ask.hits, i)
      PROVE  Covers(form, ask.began, ask.hits, i)'
  <2>1. ASSUME NEW h \in ask.hits, h.id = i, h.score >= Score(form, i)
        PROVE  h.score >= Score(form, i)'
    <3>1. h.score \in Nat BY <1>1 DEF HitRecs
    <3> QED BY <1>3, <2>1, <3>1
  <2> QED BY <1>4, <1>5, <1>6, <2>1 DEF Covers
<1>7. ask.pc = "second" => /\ ask.form \in {"bug_fix", "entity"}
                           /\ \A i \in ask.began \intersect FirstKind(ask.form)' :
                                Covers(ask.form, ask.began, ask.hits, i)'
  <2> SUFFICES ASSUME ask.pc = "second"
               PROVE  /\ ask.form \in {"bug_fix", "entity"}
                      /\ \A i \in ask.began \intersect FirstKind(ask.form)' :
                           Covers(ask.form, ask.began, ask.hits, i)'
    OBVIOUS
  <2>1. ask.form \in {"bug_fix", "entity"} BY DEF AskInv
  <2>2. ASSUME NEW i \in ask.began \intersect FirstKind(ask.form)'
        PROVE  Covers(ask.form, ask.began, ask.hits, i)'
    <3>1. i \in Ids /\ i \in FirstKind(ask.form) BY <1>1, <1>2, <2>1, <2>2 DEF FirstKind
    <3>2. Covers(ask.form, ask.began, ask.hits, i) BY <3>1, <2>2 DEF AskInv
    <3> QED BY <1>6, <2>1, <3>1, <3>2
  <2> QED BY <2>1, <2>2
<1>8. ask.pc = "done" /\ ask.form \in {"bug_fix", "entity"} =>
        \A i \in ask.began \ Returned :
          FullOver(ask.form, ask.hits, i)' \/ Outranked(ask.form, ask.began, i)'
  <2> SUFFICES ASSUME ask.pc = "done", ask.form \in {"bug_fix", "entity"},
                      NEW i \in ask.began \ Returned
               PROVE  FullOver(ask.form, ask.hits, i)' \/ Outranked(ask.form, ask.began, i)'
    OBVIOUS
  <2>1. FullOver(ask.form, ask.hits, i) \/ Outranked(ask.form, ask.began, i) BY DEF AskInv
  <2> QED BY <1>1, <1>4, <1>5, <2>1
<1>9. Returned' = Returned BY DEF Returned
<1>10. ask.pc = "done" /\ ask.form = "timeline"
         => ask.began \subseteq EventRows' /\ Returned \subseteq EventRows'
  BY <1>1, <1>2 DEF AskInv
<1>11. WindowIsWhole'
  <2> SUFFICES ASSUME ask.pc = "done", ask.form = "timeline", NEW i \in ask.began \ Returned,
                      ask.since <= rows'[i].at,
                      rows'[i].at \div ask.until.grain <= ask.until.at \div ask.until.grain
               PROVE  Cardinality(Returned) = Limit /\ \A j \in Returned : rows'[j].at <= rows'[i].at
    BY <1>9 DEF WindowIsWhole
  <2>1. rows'[i] = rows[i] /\ \A j \in Returned : rows'[j] = rows[j] BY <1>1
  <2> QED BY <2>1 DEF AskInv, WindowIsWhole
<1> QED BY <1>1, <1>7, <1>8, <1>9, <1>10, <1>11 DEF AskInv

\* Time passes and the recency of a row falls.
LEMMA TickKeepsInv == ASSUME RetrInv, Tick PROVE RetrInv'
<1>1. now < MaxTime /\ now' = now + 1 /\ rows' = rows /\ ask' = ask /\ fused' = fused BY DEF Tick
<1>2. now \in Nat /\ now' \in Nat /\ now <= now' /\ now' \in 0..MaxTime
  BY <1>1, RetrAssumption DEF RetrInv, StoreInv
<1>3. StoreInv'
  <2>1. Ids' = Ids /\ EventRows' = EventRows BY <1>1 DEF Ids, EventRows
  <2>2. \A i \in EventRows : rows[i].at \in Nat /\ rows[i].at <= now BY RowKinds DEF RetrInv
  <2>3. \A i \in EventRows : rows[i].at <= now' BY <1>2, <2>2
  <2> QED BY <1>1, <1>2, <2>1, <2>3 DEF RetrInv, StoreInv
<1>4. AskInv'
  <2>1. Ids \subseteq Ids' BY <1>1 DEF Ids
  <2> QED BY <1>1, <1>2, <2>1, AnswersStay DEF RetrInv
<1> QED BY <1>1, <1>3, <1>4 DEF RetrInv, FusionKeepsAgreement

\* A row is written between the two halves of a query.
LEMMA WriteKeepsInv ==
    ASSUME RetrInv, NEW row \in EventRecs \union ClaimRecs, row.kind = "event" => row.at = now,
           Write(row)
    PROVE  RetrInv'
<1> DEFINE n == Cardinality(Ids)
<1>1. /\ n < MaxRows /\ now' = now /\ ask' = ask /\ fused' = fused
      /\ rows' = [i \in Ids \union {n + 1} |-> IF i \in Ids THEN rows[i] ELSE row]
  BY DEF Write
<1>2. n \in Nat /\ Ids = 1..n /\ now \in Nat /\ rows \in [Ids -> EventRecs \union ClaimRecs]
  BY RetrAssumption DEF RetrInv, StoreInv
<1>3. IsFiniteSet(Ids) /\ n + 1 \notin Ids
  BY <1>2, RowKinds DEF RetrInv
<1>4. Ids' = Ids \union {n + 1} BY <1>1 DEF Ids
<1>5. Cardinality(Ids') = n + 1 /\ Ids' = 1..(n + 1)
  <2>1. Cardinality(Ids') = n + 1
    <3> HIDE DEF n
    <3> QED BY <1>2, <1>3, <1>4, FS_AddElement DEF n
  <2>2. 1..n \union {n + 1} = 1..(n + 1)
    BY <1>2
  <2> QED BY <1>2, <1>4, <2>1, <2>2
<1>6. rows' \in [Ids' -> EventRecs \union ClaimRecs] /\ rows'[n + 1] = row
      /\ \A i \in Ids : rows'[i] = rows[i]
  <2> HIDE DEF n
  <2> QED BY <1>1, <1>2, <1>3, <1>4
<1>7. \A i \in EventRows' : rows'[i].at <= now'
  <2> SUFFICES ASSUME NEW i \in EventRows' PROVE rows'[i].at <= now' OBVIOUS
  <2>1. i \in Ids' /\ rows'[i].kind = "event" BY DEF EventRows
  <2>2. CASE i \in Ids
    <3>1. i \in EventRows BY <1>6, <2>1, <2>2 DEF EventRows
    <3> QED BY <1>1, <1>6, <2>2, <3>1 DEF RetrInv, StoreInv
  <2>3. CASE i \notin Ids
    <3>1. rows'[i] = row BY <1>4, <1>6, <2>1, <2>3
    <3> QED BY <1>1, <1>2, <2>1, <3>1
  <2> QED BY <2>2, <2>3
<1>8. StoreInv'
  <2>1. n + 1 \in 0..MaxRows BY <1>1, <1>2, RetrAssumption
  <2> HIDE DEF n
  <2>2. now' \in 0..MaxTime BY <1>1 DEF RetrInv, StoreInv
  <2> QED BY <1>5, <1>6, <1>7, <2>1, <2>2 DEF StoreInv
<1>9. AskInv'
  <2> HIDE DEF n
  <2>1. now' \in Nat /\ now <= now' BY <1>1, <1>2
  <2> QED BY <1>1, <1>4, <1>6, <2>1, AnswersStay DEF RetrInv
<1> QED BY <1>1, <1>8, <1>9 DEF RetrInv, FusionKeepsAgreement

\* A step of the query alone.
LEMMA StoreStays ==
    ASSUME RetrInv, UNCHANGED <<rows, now, fused>>
    PROVE  /\ StoreInv' /\ FusionKeepsAgreement'
           /\ Ids' = Ids /\ EventRows' = EventRows /\ ClaimRows' = ClaimRows
           /\ \A form, i : Score(form, i)' = Score(form, i)
<1>1. Ids' = Ids BY DEF Ids
<1>2. EventRows' = EventRows BY <1>1 DEF EventRows
<1>3. ClaimRows' = ClaimRows BY <1>1, <1>2 DEF ClaimRows
<1>4. \A form, i : Score(form, i)' = Score(form, i)
  BY DEF Score, EventScore, ClaimScore, Recency
<1>5. StoreInv' BY <1>1, <1>2 DEF RetrInv, StoreInv
<1>6. FusionKeepsAgreement' BY DEF RetrInv, FusionKeepsAgreement
<1> QED BY <1>1, <1>2, <1>3, <1>4, <1>5, <1>6

\* What a select with a LIMIT returns.
LEMMA NewestAre ==
    ASSUME StoreInv, NEW S \in NewestEvents \union SurestClaims
    PROVE  S \in SUBSET Ids /\ IsFiniteSet(S) /\ Cardinality(S) <= Limit
<1>1. CASE S \in NewestEvents
  <2>1. /\ S \in SUBSET EventRows
        /\ Cardinality(S) = IF Cardinality(EventRows) < Limit THEN Cardinality(EventRows) ELSE Limit
    BY <1>1 DEF NewestEvents, Top, kSubset
  <2>2. EventRows \subseteq Ids BY DEF EventRows
  <2>3. IsFiniteSet(EventRows) BY <2>2, RowKinds, FS_Subset
  <2> QED BY <2>1, <2>2, <2>3, LeftOut
<1>2. CASE S \in SurestClaims
  <2>1. /\ S \in SUBSET ClaimRows
        /\ Cardinality(S) = IF Cardinality(ClaimRows) < Limit THEN Cardinality(ClaimRows) ELSE Limit
    BY <1>2 DEF SurestClaims, Top, kSubset
  <2>2. ClaimRows \subseteq Ids BY DEF ClaimRows
  <2>3. IsFiniteSet(ClaimRows) BY <2>2, RowKinds, FS_Subset
  <2> QED BY <2>1, <2>2, <2>3, LeftOut
<1> QED BY <1>1, <1>2

\* The first half covers the rows of its kind.
LEMMA FirstQueryKeepsInv ==
    ASSUME RetrInv, NEW form \in {"bug_fix", "entity"}, FirstQuery(form) PROVE RetrInv'
<1>1. UNCHANGED <<rows, now, fused>> BY DEF FirstQuery
<1>2. PICK S \in (IF form = "bug_fix" THEN NewestEvents ELSE SurestClaims) :
        ask' = [NoQuery EXCEPT !.pc = "second", !.form = form, !.hits = Hits(form, S),
                               !.began = Ids]
  BY DEF FirstQuery
<1>3. S \in SUBSET Ids /\ IsFiniteSet(S) /\ Cardinality(S) <= Limit
  BY NewestAre DEF RetrInv
<1>4. /\ IsFiniteSet(Hits(form, S)) /\ Cardinality(Hits(form, S)) = Cardinality(S)
      /\ Hits(form, S) \subseteq HitRecs /\ {h.id : h \in Hits(form, S)} = S
  BY <1>3, HitsCount DEF RetrInv
<1>5. Ids \subseteq Nat BY RowKinds DEF RetrInv
<1>6. /\ ask' \in AskRecs /\ ask'.pc = "second" /\ ask'.form = form
      /\ ask'.hits = Hits(form, S) /\ ask'.began = Ids
  <2> DEFINE hits == Hits(form, S)
  <2>1. hits \subseteq HitRecs BY <1>4
  <2> HIDE DEF hits
  <2>2. ask' = [NoQuery EXCEPT !.pc = "second", !.form = form, !.hits = hits, !.began = Ids]
    BY <1>2 DEF hits
  <2>3. ask' \in AskRecs /\ ask'.pc = "second" /\ ask'.form = form
        /\ ask'.hits = hits /\ ask'.began = Ids
    BY <1>5, <2>1, <2>2, NoQueryTyped DEF AskRecs
  <2> QED BY <2>3 DEF hits
<1>7. StoreInv' /\ FusionKeepsAgreement' /\ Ids' = Ids /\ EventRows' = EventRows
      /\ ClaimRows' = ClaimRows /\ \A f, i : Score(f, i)' = Score(f, i)
  BY <1>1, StoreStays
<1>8. ASSUME NEW i \in FirstKind(form) PROVE Covers(form, Ids, Hits(form, S), i)
  <2>1. CASE form = "bug_fix"
    BY <1>2, <1>8, <2>1, EventsCovered DEF RetrInv, FirstKind
  <2>2. CASE form = "entity"
    BY <1>2, <1>8, <2>2, ClaimsCovered DEF RetrInv, FirstKind
  <2> QED BY <2>1, <2>2
<1>10. FirstKind(form)' = FirstKind(form) BY <1>7 DEF FirstKind
<1>11. Returned' = S
  <2>1. Returned' = {h.id : h \in Hits(form, S)} BY <1>6 DEF Returned
  <2> QED BY <1>4, <2>1
<1>13. \A i \in ask'.began \intersect FirstKind(ask.form)' : Covers(ask.form, ask.began, ask.hits, i)'
  <2> SUFFICES ASSUME NEW i \in Ids \intersect FirstKind(form)
               PROVE  Covers(ask.form, ask.began, ask.hits, i)'
    BY <1>6, <1>7 DEF FirstKind
  <2> DEFINE H == Hits(form, S)
  <2>1. Covers(form, Ids, H, i) BY <1>8
  <2> HIDE DEF H
  <2>2. ask'.hits = H BY <1>6 DEF H
  <2>3. FullOver(form, H, i) => FullOver(ask.form, ask.hits, i)'
    BY <1>6, <1>7, <2>2 DEF FullOver
  <2>4. Outranked(form, Ids, i) => Outranked(ask.form, ask.began, i)'
    BY <1>1, <1>6, <1>7 DEF Outranked
  <2> QED BY <1>6, <1>7, <2>1, <2>2, <2>3, <2>4 DEF Covers
<1>14. AskInv'
  <2>1. IsFiniteSet(ask'.hits) /\ Cardinality(ask'.hits) <= Limit BY <1>3, <1>4, <1>6
  <2>2. WindowIsWhole' BY <1>6 DEF WindowIsWhole
  <2> QED BY <1>3, <1>6, <1>7, <1>11, <1>13, <2>1, <2>2 DEF AskInv
<1> QED BY <1>7, <1>14 DEF RetrInv
\* The half that the first query did not read.
LEMMA OtherHalfCovered ==
    ASSUME RetrInv, NEW form \in {"bug_fix", "entity"},
           NEW S \in (IF form = "bug_fix" THEN SurestClaims ELSE NewestEvents),
           NEW began \in SUBSET Ids, NEW i \in Ids, i \notin FirstKind(form)
    PROVE  Covers(form, began, Hits(form, S), i)
<1>1. CASE form = "bug_fix"
  <2>1. i \in ClaimRows BY <1>1 DEF FirstKind, ClaimRows
  <2>2. S \in SurestClaims /\ ~(form = "entity") BY <1>1
  <2> QED BY <2>1, <2>2, ClaimsCovered DEF RetrInv
<1>2. CASE form = "entity"
  <2>1. i \in EventRows BY <1>2 DEF FirstKind, ClaimRows
  <2>2. S \in NewestEvents BY <1>2
  <2> QED BY <2>1, <2>2, EventsCovered DEF RetrInv
<1> QED BY <1>1, <1>2

\* The second half covers the others, and the merge loses neither.
LEMMA SecondQueryKeepsInv == ASSUME RetrInv, SecondQuery PROVE RetrInv'
<1> DEFINE form == ask.form
<1>1. UNCHANGED <<rows, now, fused>> /\ ask.pc = "second" BY DEF SecondQuery
<1>2. PICK S \in (IF form = "bug_fix" THEN SurestClaims ELSE NewestEvents) :
        \E T \in Top(ask.hits \union Hits(form, S), LAMBDA h : h.score) :
          ask' = [ask EXCEPT !.pc = "done", !.hits = T]
  BY DEF SecondQuery
<1> DEFINE F == Hits(form, S)
           H == ask.hits \union F
<1>3. PICK T : /\ T \in SUBSET H
               /\ Cardinality(T) = IF Cardinality(H) < Limit THEN Cardinality(H) ELSE Limit
               /\ \A x \in T, y \in H \ T : x.score >= y.score
               /\ ask' = [ask EXCEPT !.pc = "done", !.hits = T]
  <2>1. PICK T \in Top(H, LAMBDA h : h.score) : ask' = [ask EXCEPT !.pc = "done", !.hits = T]
    BY <1>2
  <2> HIDE DEF H
  <2> QED BY <2>1 DEF Top, kSubset
<1>4. /\ ask \in AskRecs /\ form \in {"bug_fix", "entity"} /\ ask.began \subseteq Ids
      /\ ask.hits \subseteq HitRecs /\ IsFiniteSet(ask.hits)
      /\ Returned \subseteq Ids
      /\ \A i \in ask.began \intersect FirstKind(form) : Covers(form, ask.began, ask.hits, i)
  BY <1>1 DEF RetrInv, AskInv, AskRecs
<1>5. S \in SUBSET Ids BY <1>2, NewestAre DEF RetrInv
<1>6. IsFiniteSet(F) /\ F \subseteq HitRecs /\ {h.id : h \in F} = S
  BY <1>4, <1>5, HitsCount DEF RetrInv
<1>7. StoreInv' /\ FusionKeepsAgreement' /\ Ids' = Ids /\ EventRows' = EventRows
      /\ ClaimRows' = ClaimRows /\ \A f, i : Score(f, i)' = Score(f, i)
  BY <1>1, StoreStays
<1>8. \A i \in ask.began : i \notin FirstKind(form) => Covers(form, ask.began, F, i)
  <2> SUFFICES ASSUME NEW i \in ask.began, i \notin FirstKind(form)
               PROVE  Covers(form, ask.began, F, i)
    OBVIOUS
  <2> HIDE DEF form
  <2> QED BY <1>2, <1>4, OtherHalfCovered
<1> HIDE DEF F
<1>9. H \in SUBSET HitRecs /\ IsFiniteSet(H) BY <1>4, <1>6, FS_Union
<1>10. \A h \in H : h.id \in Ids
  <2>1. \A h \in F : h.id \in S BY <1>6
  <2>2. \A h \in ask.hits : h.id \in Returned BY DEF Returned
  <2> QED BY <1>4, <1>5, <2>1, <2>2
<1>11. ASSUME NEW i \in ask.began, i \notin {h.id : h \in T}
       PROVE  FullOver(form, T, i) \/ Outranked(form, ask.began, i)
  <2>1. Score(form, i) \in Nat BY <1>4, ScoreIsNat DEF RetrInv
  <2>2. \E part \in SUBSET H : Covers(form, ask.began, part, i)
    <3>1. CASE i \in FirstKind(form)
      <4>1. ask.hits \in SUBSET H OBVIOUS
      <4> QED BY <1>4, <3>1, <4>1
    <3>2. CASE i \notin FirstKind(form)
      <4>1. F \in SUBSET H OBVIOUS
      <4> QED BY <1>8, <3>2, <4>1
    <3> QED BY <3>1, <3>2
  <2>3. PICK part \in SUBSET H : Covers(form, ask.began, part, i) BY <2>2
  <2> HIDE DEF H, form
  <2> QED BY <1>3, <1>9, <1>11, <2>1, <2>3, MergeCovers
<1>12. IsFiniteSet(T) /\ Cardinality(T) <= Limit
  <2> HIDE DEF H
  <2> QED BY <1>3, <1>9, LeftOut
<1> HIDE DEF H
<1>13. /\ ask' \in AskRecs /\ ask'.pc = "done" /\ ask'.form = form
       /\ ask'.hits = T /\ ask'.began = ask.began
  <2>1. T \subseteq HitRecs BY <1>3, <1>9
  <2> QED BY <1>3, <1>4, <2>1 DEF AskRecs
<1>14. Returned' = {h.id : h \in T} BY <1>13 DEF Returned
<1>15. Returned' \subseteq Ids BY <1>3, <1>10, <1>14
<1>16. ASSUME NEW i \in ask.began \ Returned'
       PROVE  FullOver(ask.form, ask.hits, i)' \/ Outranked(ask.form, ask.began, i)'
  <2>1. FullOver(form, T, i) \/ Outranked(form, ask.began, i) BY <1>11, <1>14
  <2>2. FullOver(form, T, i) => FullOver(ask.form, ask.hits, i)'
    BY <1>7, <1>13 DEF FullOver
  <2>3. Outranked(form, ask.began, i) => Outranked(ask.form, ask.began, i)'
    BY <1>1, <1>7, <1>13 DEF Outranked
  <2> QED BY <2>1, <2>2, <2>3
<1>17. AskInv'
  <2>1. ask'.pc # "second" /\ ~(ask'.form = "timeline") BY <1>4, <1>13
  <2>2. WindowIsWhole' BY <2>1 DEF WindowIsWhole
  <2> QED BY <1>4, <1>7, <1>12, <1>13, <1>15, <1>16, <2>1, <2>2 DEF AskInv
<1> QED BY <1>7, <1>17 DEF RetrInv

\* An answer is taken.
LEMMA TakeAnswerKeepsInv == ASSUME RetrInv, TakeAnswer PROVE RetrInv'
<1>1. UNCHANGED <<rows, now, fused>> /\ ask' = NoQuery BY DEF TakeAnswer
<1>2. StoreInv' /\ FusionKeepsAgreement' BY <1>1, StoreStays
<1>3. Returned' = {} BY <1>1, NoQueryTyped DEF Returned
<1>4. AskInv'
  <2>1. IsFiniteSet({}) /\ Cardinality({}) = 0 BY FS_EmptySet
  <2>2. WindowIsWhole' BY <1>1, NoQueryTyped DEF WindowIsWhole
  <2> QED BY <1>1, <1>3, <2>1, <2>2, NoQueryTyped, RetrAssumption DEF AskInv
<1> QED BY <1>2, <1>4 DEF RetrInv

-----------------------------------------------------------------------------
(* ------------------------------- timeline ------------------------------ *)

\* The bound reaches the end of its day or second.
LEMMA BoundIsWhole ==
    ASSUME NEW g \in {1, Second, Day}, NEW at \in 0..MaxTime, at % g = 0
    PROVE  /\ UntilBound([at |-> at, grain |-> g]) \in Nat
           /\ \A t \in Nat : t \div g <= at \div g => t <= UntilBound([at |-> at, grain |-> g])
<1> DEFINE u == [at |-> at, grain |-> g]
<1>1. u.at = at /\ u.grain = g OBVIOUS
<1>2. at \in Nat /\ g \in Nat \ {0} /\ Second \in Nat \ {0} /\ Day \in Nat \ {0}
  BY RetrAssumption
<1>3. \A t \in Nat : t \div g <= at \div g => t <= at + g - 1
  BY <1>2, GrainIsWhole
<1> HIDE DEF u
<1>4. CASE g = Day
  <2>1. UntilBound(u) = at + Day - 1 BY <1>1, <1>4 DEF UntilBound
  <2> QED BY <1>2, <1>3, <1>4, <2>1 DEF u
<1>5. CASE g # Day /\ at % Second = 0
  <2>1. UntilBound(u) = at + Second - 1 BY <1>1, <1>5 DEF UntilBound
  <2>2. g = 1 \/ g = Second BY <1>5
  <2>3. \A t \in Nat : t \div g <= at \div g => t <= at + Second - 1
    BY <1>2, <1>3, <2>2
  <2> QED BY <1>2, <2>1, <2>3 DEF u
<1>6. CASE g # Day /\ at % Second # 0
  <2>1. UntilBound(u) = at BY <1>1, <1>6 DEF UntilBound
  <2>2. g = 1 BY <1>6
  <2>3. \A t \in Nat : t \div g <= at \div g => t <= at
    BY <1>2, <1>3, <2>2
  <2> QED BY <1>2, <2>1, <2>3 DEF u
<1> QED BY <1>4, <1>5, <1>6

\* The arguments of a timeline are numbers.
LEMMA BoundsTyped ==
    ASSUME NEW since \in 0..MaxTime, NEW g \in {1, Second, Day}, NEW at \in 0..MaxTime
    PROVE  since \in Nat /\ g \in Nat /\ at \in Nat
BY RetrAssumption

\* What is further from the end is earlier.
LEMMA EarlierIsLeft ==
    ASSUME NEW m \in Nat, NEW s \in Nat, NEW t \in Nat, m - s >= m - t
    PROVE  s <= t
OBVIOUS

\* The timeline returns the oldest rows of a whole window.
LEMMA TimelineKeepsInv ==
    ASSUME RetrInv, NEW since \in 0..MaxTime, NEW g \in {1, Second, Day},
           NEW at \in 0..MaxTime, at % g = 0, Timeline(since, [at |-> at, grain |-> g])
    PROVE  RetrInv'
<1> DEFINE until == [at |-> at, grain |-> g]
           inWindow == {i \in EventRows : since <= rows[i].at /\ rows[i].at <= UntilBound(until)}
<1>1. UNCHANGED <<rows, now, fused>> BY DEF Timeline
<1>2. PICK S \in Top(inWindow, LAMBDA i : MaxTime - rows[i].at) :
        ask' = [pc |-> "done", form |-> "timeline", hits |-> Hits("timeline", S),
                began |-> EventRows, since |-> since, until |-> until]
  BY DEF Timeline
<1>3. /\ S \in SUBSET inWindow
      /\ Cardinality(S) = IF Cardinality(inWindow) < Limit THEN Cardinality(inWindow) ELSE Limit
      /\ \A x \in S, y \in inWindow \ S : MaxTime - rows[x].at >= MaxTime - rows[y].at
  <2> HIDE DEF inWindow
  <2> QED BY DEF Top, kSubset
<1>4. EventRows \subseteq Ids /\ IsFiniteSet(EventRows) /\ Ids \subseteq Nat
  <2>1. EventRows \subseteq Ids BY DEF EventRows
  <2> QED BY <2>1, RowKinds, FS_Subset DEF RetrInv
<1>5. IsFiniteSet(inWindow) BY <1>4, FS_Subset
<1>6. S \in SUBSET Ids /\ S \subseteq EventRows BY <1>3, <1>4
<1>7. IsFiniteSet(S) /\ Cardinality(S) <= Limit /\ (S # inWindow => Cardinality(S) = Limit)
  <2> HIDE DEF inWindow
  <2> QED BY <1>3, <1>5, LeftOut
<1>8. StoreInv' /\ FusionKeepsAgreement' /\ Ids' = Ids /\ EventRows' = EventRows
  BY <1>1, StoreStays
<1> DEFINE H == Hits("timeline", S)
<1>9. IsFiniteSet(H) /\ Cardinality(H) = Cardinality(S) /\ H \subseteq HitRecs
      /\ {h.id : h \in H} = S
  BY <1>6, HitsCount DEF RetrInv
<1> HIDE DEF H
<1>10. /\ ask' = [pc |-> "done", form |-> "timeline", hits |-> H, began |-> EventRows,
                  since |-> since, until |-> until]
       /\ ask' \in AskRecs /\ ask'.pc = "done" /\ ask'.form = "timeline"
       /\ ask'.hits = H /\ ask'.began = EventRows /\ ask'.since = since
       /\ ask'.until.at = at /\ ask'.until.grain = g
  <2>1. ask' = [pc |-> "done", form |-> "timeline", hits |-> H, began |-> EventRows,
                since |-> since, until |-> until]
    BY <1>2 DEF H
  <2>2. until \in [at : Nat, grain : Nat] /\ until.at = at /\ until.grain = g /\ since \in Nat
    <3>1. at \in Nat /\ g \in Nat /\ since \in Nat BY BoundsTyped
    <3> QED BY <3>1
  <2> HIDE DEF until
  <2>3. EventRows \in SUBSET Nat /\ H \in SUBSET HitRecs BY <1>4, <1>9
  <2> QED BY <2>1, <2>2, <2>3 DEF AskRecs
<1>11. Returned' = S BY <1>9, <1>10 DEF Returned
<1>12. WindowIsWhole'
  <2> SUFFICES ASSUME NEW i \in EventRows \ S, since <= rows[i].at,
                      rows[i].at \div g <= at \div g
               PROVE  Cardinality(S) = Limit /\ \A j \in S : rows[j].at <= rows[i].at
    BY <1>1, <1>10, <1>11 DEF WindowIsWhole
  <2>1. rows[i].at \in Nat /\ rows[i].at <= MaxTime BY RowKinds DEF RetrInv
  <2>2. i \in inWindow BY <2>1, BoundIsWhole
  <2>3. Cardinality(S) = Limit BY <1>7, <2>2
  <2>4. ASSUME NEW j \in S PROVE rows[j].at <= rows[i].at
    <3>1. MaxTime - rows[j].at >= MaxTime - rows[i].at BY <1>3, <2>2
    <3>2. rows[j].at \in Nat BY <1>6, RowKinds DEF RetrInv
    <3>3. MaxTime \in Nat BY RetrAssumption
    <3> QED BY <2>1, <3>1, <3>2, <3>3, EarlierIsLeft
  <2> QED BY <2>3, <2>4
<1>13. AskInv'
  <2>1. ask'.pc # "second" /\ ~(ask'.form \in {"bug_fix", "entity"}) BY <1>10
  <2>2. Cardinality(ask'.hits) <= Limit BY <1>7, <1>9, <1>10
  <2> QED BY <1>4, <1>6, <1>8, <1>9, <1>10, <1>11, <1>12, <2>1, <2>2 DEF AskInv
<1> QED BY <1>8, <1>13 DEF RetrInv

-----------------------------------------------------------------------------
(* -------------------------------- ranking ------------------------------ *)

\* An order has every candidate, once.
LEMMA OrdersAreWhole ==
    ASSUME NEW s \in Orders
    PROVE  /\ {s[i] : i \in 1..ItemCount} = Items
           /\ \A x \in Items : Rank(s, x) \in 1..ItemCount /\ s[Rank(s, x)] = x
           /\ \A i \in 1..ItemCount : s[i] \in Items /\ Rank(s, s[i]) = i
<1>1. s \in [1..ItemCount -> Items] /\ \A i, j \in 1..ItemCount : s[i] = s[j] => i = j
  BY DEF Orders
<1>2. ItemCount \in Nat /\ IsFiniteSet(Items)
  BY RetrAssumption, FS_CardinalityType DEF ItemCount
<1>3. IsFiniteSet(1..ItemCount) /\ Cardinality(1..ItemCount) = ItemCount
  <2>1. 1 \in Int /\ ItemCount \in Int BY <1>2
  <2>2. Cardinality(1..ItemCount) = (IF 1 > ItemCount THEN 0 ELSE ItemCount - 1 + 1)
    BY <2>1, FS_Interval
  <2> QED BY <1>2, <2>1, <2>2, FS_Interval
<1>4. s \in Injection(1..ItemCount, Items) BY <1>1, Fun_IsInj
<1> DEFINE img == {s[i] : i \in 1..ItemCount}
<1>5. img \subseteq Items /\ s \in Surjection(1..ItemCount, img)
  <2>1. img \subseteq Items BY <1>1
  <2>2. s \in [1..ItemCount -> img] BY <1>1
  <2>3. \A y \in img : \E i \in 1..ItemCount : s[i] = y OBVIOUS
  <2> HIDE DEF img
  <2> QED BY <2>1, <2>2, <2>3, Fun_IsSurj
<1>6. s \in Injection(1..ItemCount, img)
  <2>1. s \in [1..ItemCount -> img] BY <1>1
  <2> HIDE DEF img
  <2> QED BY <1>1, <2>1, Fun_IsInj
<1> HIDE DEF img
<1>7. Cardinality(img) = ItemCount
  BY <1>3, <1>5, <1>6, FS_Surjection
<1>8. img = Items BY <1>2, <1>5, <1>7, FS_Subset DEF ItemCount
<1>9. \A x \in Items : \E i \in 1..ItemCount : s[i] = x BY <1>8 DEF img
<1>10. \A x \in Items : Rank(s, x) \in 1..ItemCount /\ s[Rank(s, x)] = x
  BY <1>9 DEF Rank
<1>11. \A i \in 1..ItemCount : s[i] \in Items /\ Rank(s, s[i]) = i
  BY <1>1, <1>10
<1> QED BY <1>8, <1>10, <1>11 DEF img

\* The fusion ranks as both rankings do where they agree.
LEMMA HybridRankKeepsInv ==
    ASSUME RetrInv, NEW lex \in Orders, NEW dense \in Orders, NEW ok \in BOOLEAN,
           HybridRank(lex, dense, ok)
    PROVE  RetrInv'
<1>1. UNCHANGED <<rows, now, ask>> BY DEF HybridRank
<1>2. Ids' = Ids /\ EventRows' = EventRows BY <1>1 DEF Ids, EventRows
<1>3. StoreInv' BY <1>1, <1>2 DEF RetrInv, StoreInv
<1>4. AskInv'
  <2>1. now \in Nat BY RetrAssumption DEF RetrInv, StoreInv
  <2> QED BY <1>1, <1>2, <2>1, AnswersStay DEF RetrInv
<1>5. ItemCount \in Nat BY RetrAssumption, FS_CardinalityType DEF ItemCount
<1>6. FusionKeepsAgreement'
  <2>1. CASE ok
    <3>1. PICK s \in Orders :
            /\ \A i, j \in 1..ItemCount :
                 i < j => AtLeast(Fused(lex, dense, s[i]), Fused(lex, dense, s[j]))
            /\ fused' = [lex |-> lex, dense |-> dense, out |-> s]
      BY <2>1 DEF HybridRank
    <3>2. ASSUME NEW x \in Items, NEW y \in Items, Rank(lex, x) < Rank(lex, y),
                 Rank(dense, x) < Rank(dense, y)
          PROVE  Rank(s, x) < Rank(s, y)
      <4>1. /\ Rank(lex, x) \in 1..ItemCount /\ Rank(lex, y) \in 1..ItemCount
            /\ Rank(dense, x) \in 1..ItemCount /\ Rank(dense, y) \in 1..ItemCount
            /\ Rank(s, x) \in 1..ItemCount /\ Rank(s, y) \in 1..ItemCount
            /\ s[Rank(s, x)] = x /\ s[Rank(s, y)] = y
        BY OrdersAreWhole
      <4>2. x # y BY <1>5, <3>2, <4>1
      <4>3. Rank(s, x) # Rank(s, y) BY <4>1, <4>2
      <4>4. SUFFICES ASSUME Rank(s, y) < Rank(s, x) PROVE FALSE
        BY <1>5, <4>1, <4>3
      <4>5. AtLeast(Fused(lex, dense, y), Fused(lex, dense, x)) BY <3>1, <4>1, <4>4
      <4> DEFINE a == K + Rank(lex, x)
                 b == K + Rank(dense, x)
                 c == K + Rank(lex, y)
                 d == K + Rank(dense, y)
      <4>6. (c + d) * (a * b) >= (a + b) * (c * d)
        BY <4>5 DEF AtLeast, Fused
      <4>7. a \in Nat \ {0} /\ b \in Nat \ {0} /\ c \in Nat /\ d \in Nat /\ a < c /\ b < d
        BY <1>5, <3>2, <4>1, RetrAssumption
      <4> HIDE DEF a, b, c, d
      <4> QED BY <4>6, <4>7, FractionFalls
    <3>3. dense # <<>> \/ Items = {}
      <4>1. CASE Items = {} BY <4>1
      <4>2. CASE Items # {}
        <5>1. PICK x \in Items : TRUE BY <4>2
        <5>2. 1 \in 1..ItemCount
          <6>1. Rank(dense, x) \in 1..ItemCount BY OrdersAreWhole
          <6> QED BY <1>5, <6>1
        <5>3. DOMAIN dense = 1..ItemCount BY DEF Orders
        <5>4. DOMAIN <<>> = {} OBVIOUS
        <5> QED BY <5>2, <5>3, <5>4
      <4> QED BY <4>1, <4>2
    <3>4. {s[i] : i \in 1..ItemCount} = Items BY OrdersAreWhole
    <3>5. fused'.lex = lex /\ fused'.dense = dense /\ fused'.out = s BY <3>1
    <3>6. \A t, x : Rank(t, x)' = Rank(t', x') OBVIOUS
    <3> QED BY <3>2, <3>3, <3>4, <3>5 DEF FusionKeepsAgreement, Rank
  <2>2. CASE ~ok
    <3>1. fused' = [lex |-> lex, dense |-> <<>>, out |-> lex] BY <2>2 DEF HybridRank
    <3>2. {lex[i] : i \in 1..ItemCount} = Items BY OrdersAreWhole
    <3>3. fused'.lex = lex /\ fused'.out = lex BY <3>1
    <3> QED BY <3>2, <3>3 DEF FusionKeepsAgreement, Rank
  <2> QED BY <2>1, <2>2
<1> QED BY <1>3, <1>4, <1>6 DEF RetrInv

-----------------------------------------------------------------------------
\* Every step keeps the invariant.
LEMMA RetrStepInv == RetrInv /\ [QueryNext \/ RankNext]_retrVars => RetrInv'
<1> SUFFICES ASSUME RetrInv, [QueryNext \/ RankNext]_retrVars PROVE RetrInv' OBVIOUS
<1>1. CASE Tick BY <1>1, TickKeepsInv
<1>2. CASE Write([kind |-> "event", at |-> now])
  <2> DEFINE row == [kind |-> "event", at |-> now]
  <2>1. row \in EventRecs \union ClaimRecs /\ row.at = now
    BY DEF RetrInv, StoreInv, EventRecs
  <2>2. Write(row) BY <1>2
  <2> HIDE DEF row
  <2> QED BY <2>1, <2>2, WriteKeepsInv
<1>3. ASSUME NEW k \in {"exact", "prefix"}, NEW c \in 1..2, Write([kind |-> k, conf |-> c])
      PROVE  RetrInv'
  <2> DEFINE row == [kind |-> k, conf |-> c]
  <2>1. row \in EventRecs \union ClaimRecs /\ row.kind # "event"
    BY DEF ClaimRecs
  <2>2. Write(row) BY <1>3
  <2> HIDE DEF row
  <2> QED BY <2>1, <2>2, WriteKeepsInv
<1>4. ASSUME NEW form \in {"bug_fix", "entity"}, FirstQuery(form) PROVE RetrInv'
  BY <1>4, FirstQueryKeepsInv
<1>5. CASE SecondQuery BY <1>5, SecondQueryKeepsInv
<1>6. ASSUME NEW since \in 0..MaxTime, NEW g \in {1, Second, Day},
             NEW at \in {t \in 0..MaxTime : t % g = 0}, Timeline(since, [at |-> at, grain |-> g])
      PROVE  RetrInv'
  BY <1>6, TimelineKeepsInv
<1>7. CASE TakeAnswer BY <1>7, TakeAnswerKeepsInv
<1>8. ASSUME NEW lex \in Orders, NEW dense \in Orders, NEW ok \in BOOLEAN,
             HybridRank(lex, dense, ok)
      PROVE  RetrInv'
  BY <1>8, HybridRankKeepsInv
<1>9. CASE UNCHANGED retrVars
  <2>1. UNCHANGED <<rows, now, fused>> /\ ask' = ask BY <1>9 DEF retrVars
  <2>2. Ids' = Ids BY <2>1 DEF Ids
  <2>3. now \in Nat BY RetrAssumption DEF RetrInv, StoreInv
  <2>4. AskInv' BY <2>1, <2>2, <2>3, AnswersStay DEF RetrInv
  <2> QED BY <2>1, <2>4, StoreStays DEF RetrInv
<1> QED BY <1>1, <1>2, <1>3, <1>4, <1>5, <1>6, <1>7, <1>8, <1>9 DEF QueryNext, RankNext

\* The inductive invariant is at least the one of the runs.
LEMMA RetrInvSafe == RetrInv => RetrievalSafety
<1> SUFFICES ASSUME RetrInv PROVE RetrievalSafety OBVIOUS
<1>1. RetrTypeOK
  <2>1. \A i \in Ids : rows[i].kind \in {"event", "exact", "prefix"}
    BY DEF RetrInv, StoreInv, EventRecs, ClaimRecs
  <2>2. Cardinality(ask.hits) <= 2 * Limit
    <3>1. Cardinality(ask.hits) \in Nat /\ Cardinality(ask.hits) <= Limit
      BY FS_CardinalityType DEF RetrInv, AskInv
    <3> QED BY <3>1, RetrAssumption
  <2>3. ask.pc \in {"idle", "second", "done"} BY DEF RetrInv, AskInv, AskRecs
  <2>4. Cardinality(Ids) <= MaxRows BY RetrAssumption DEF RetrInv, StoreInv
  <2> QED BY <2>1, <2>2, <2>3, <2>4 DEF RetrTypeOK, RetrInv, StoreInv, AskInv
<1>2. BestIsNotMissed
  <2> SUFFICES ASSUME ask.pc = "done", ask.form \in {"bug_fix", "entity"},
                      NEW i \in ask.began \ Returned,
                      ~Outranked(ask.form, ask.began, i)
               PROVE  Cardinality({h \in ask.hits : h.score >= Score(ask.form, i)}) = Limit
    BY DEF BestIsNotMissed, Outranked
  <2>1. FullOver(ask.form, ask.hits, i) BY DEF RetrInv, AskInv
  <2>2. {h \in ask.hits : h.score >= Score(ask.form, i)} = ask.hits BY <2>1 DEF FullOver
  <2> QED BY <2>1, <2>2 DEF FullOver
<1> QED BY <1>1, <1>2 DEF RetrievalSafety, RetrInv, AskInv

\* A query that ran while others wrote misses nothing better than what it
\* returns, but for by_entity's exact match; a timeline holds the whole of its
\* last day or second; the fused ranking keeps what both rankings agree on.
THEOREM RetrievalIsSafe == RetrSpec => []RetrievalSafety
<1>1. RetrInit => RetrInv BY RetrInitInv
<1>2. RetrInv /\ [QueryNext \/ RankNext]_retrVars => RetrInv' BY RetrStepInv
<1>3. RetrInv => RetrievalSafety BY RetrInvSafe
<1> QED BY <1>1, <1>2, <1>3, PTL DEF RetrSpec
==============================================================================
