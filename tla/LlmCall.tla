------------------------------- MODULE LlmCall -------------------------------
(***************************************************************************)
(* llm/call.py: one entry point for model calls, with a cache file shared  *)
(* by processes, three attempts per model, and a fallback model.  Inside a *)
(* process the whole of a call, the provider's answers included, runs under*)
(* one lock.  A prompt stands for messages, schema and every knob that the *)
(* cache key is made of (_hash_prompt), so key and request agree.          *)
(***************************************************************************)
EXTENDS Naturals, FiniteSets

CONSTANTS Processes, Threads,   \* Threads: the callers, spread over processes
          ProcessOf,            \* which process a thread belongs to
          Prompts,
          Primary, Fallback,    \* the model asked for and its fallback
          Attempts,             \* stop_after_attempt
          Answers,              \* the outcomes of a dispatch that occur
          MaxCalls              \* bound: calls in all

VARIABLES cache,     \* the file: <<model, prompt>> -> the row, the newest wins
          lock,      \* lock[p]: {} or {the thread in call()}
          call,      \* call[t]: [pc, prompt, fallback, model, tries, got]
          calls,     \* calls begun
          said,      \* history: <<model, prompt, stop reason>> of the texts that came
          paid,      \* history: paid[p][q]: answers that p's threads got for q
          unkept     \* history: unkept[p][q]: those that are not under the primary's key

llmVars == <<cache, lock, call, calls, said, paid, unkept>>
accounts == <<paid, unkept>>

Models == {Primary, Fallback}

(* What a dispatch can bring: text with the stop reasons the adapters      *)
(* normalise to, no text, or an error as _classify_provider_error sorts it.*)
Texts == {"stop", "unknown", "length", "blocked"}
Retried == {"rate_limit", "transient", "call_error", "empty"}
Final == {"config", "permanent"}
ASSUME LlmAssumption ==
  /\ Answers \subseteq Texts \union Retried \union Final
  /\ ProcessOf \in [Threads -> Processes]
  /\ Attempts \in Nat \ {0} /\ MaxCalls \in Nat
Uncacheable == {"length", "blocked"}
FallsBack == {"rate_limit", "transient"}

Idle == [pc |-> "idle", prompt |-> "none", fallback |-> FALSE, model |-> Primary,
         tries |-> 0, got |-> "none"]

LlmTypeOK ==
  /\ DOMAIN cache \subseteq Models \X Prompts
  /\ \A p \in Processes : lock[p] \subseteq Threads /\ Cardinality(lock[p]) <= 1
  /\ \A t \in Threads : /\ call[t].pc \in {"idle", "wait", "look", "dispatch", "put", "done"}
                        /\ call[t].tries \in 0..(Attempts - 1)
  /\ calls \in 0..MaxCalls /\ said \subseteq Models \X Prompts \X Texts
  /\ paid \in [Processes -> [Prompts -> Nat]] /\ unkept \in [Processes -> [Prompts -> Nat]]

LlmInit ==
  /\ cache = [k \in {} |-> 0]
  /\ lock = [p \in Processes |-> {}]
  /\ call = [t \in Threads |-> Idle]
  /\ calls = 0 /\ said = {}
  /\ paid = [p \in Processes |-> [q \in Prompts |-> 0]]
  /\ unkept = [p \in Processes |-> [q \in Prompts |-> 0]]

Goto(t, pc) == call' = [call EXCEPT ![t].pc = pc]

Begin(t, q, fb) ==
  /\ call[t].pc = "idle" /\ calls < MaxCalls
  /\ calls' = calls + 1
  /\ call' = [call EXCEPT ![t] = [Idle EXCEPT !.pc = "wait", !.prompt = q, !.fallback = fb]]
  /\ UNCHANGED <<cache, lock, said, accounts>>

TakeLock(t) ==
  /\ call[t].pc = "wait" /\ lock[ProcessOf[t]] = {}
  /\ lock' = [lock EXCEPT ![ProcessOf[t]] = {t}]
  /\ Goto(t, "look")
  /\ UNCHANGED <<cache, calls, said, accounts>>

Return(t, got) == call' = [call EXCEPT ![t].pc = "done", ![t].got = got]

Look(t) ==
  LET key == <<Primary, call[t].prompt>> IN
  /\ call[t].pc = "look"
  /\ IF key \in DOMAIN cache THEN Return(t, "cached") ELSE Goto(t, "dispatch")
  /\ UNCHANGED <<cache, lock, calls, said, accounts>>

(* Answers come with text or empty, errors are none.  One that is empty,   *)
(* cut, or the fallback's leaves nothing under the primary's key.          *)
PaidFor(a) == a \in Texts \union {"empty"}
Loose(model, a) == model # Primary \/ a \in Uncacheable \union {"empty"}
Counted(count, t, b) ==
  IF b THEN [count EXCEPT ![ProcessOf[t]][call[t].prompt] = @ + 1] ELSE count

(* One attempt of _dispatch_with_retry and what call() makes of it.  The   *)
(* cache is not asked again for the fallback's key.                        *)
Dispatch(t, a) ==
  LET c == call[t]
      n == c.tries + 1
  IN
  /\ c.pc = "dispatch"
  /\ said' = IF a \in Texts THEN said \union {<<c.model, c.prompt, a>>} ELSE said
  /\ paid' = Counted(paid, t, PaidFor(a))
  /\ unkept' = Counted(unkept, t, PaidFor(a) /\ Loose(c.model, a))
  /\ \/ a \in Texts \ Uncacheable /\ call' = [call EXCEPT ![t].pc = "put", ![t].got = a]
     \/ a \in Uncacheable /\ Return(t, a)
     \/ a \in Retried /\ n < Attempts /\ call' = [call EXCEPT ![t].tries = n]
     \/ /\ a \in FallsBack /\ n = Attempts /\ c.fallback /\ c.model = Primary
        /\ call' = [call EXCEPT ![t].model = Fallback, ![t].tries = 0]
     \/ /\ a \in Final \/ (a \in Retried /\ n = Attempts)
        /\ ~(a \in FallsBack /\ c.fallback /\ c.model = Primary)
        /\ Return(t, "error")
  /\ UNCHANGED <<cache, lock, calls>>

\* Mutant: the answer is stored under the key that was looked up, also when
\* the fallback gave it.
PutUnderPrimary(t, ok) ==
  LET key == <<Primary, call[t].prompt>> IN
  /\ call[t].pc = "put"
  /\ cache' = IF ok
       THEN [k \in DOMAIN cache \union {key} |->
               IF k = key THEN [model |-> call[t].model, stop |-> call[t].got] ELSE cache[k]]
       ELSE cache
  /\ unkept' = Counted(unkept, t, ~ok /\ call[t].model = Primary)
  /\ Return(t, IF ok THEN call[t].got ELSE "error")
  /\ UNCHANGED <<lock, calls, said, paid>>

(* _cache_put under the key of the model that answered; it may also fail,  *)
(* another process holding the file past the busy timeout.                 *)
Put(t, ok) ==
  LET key == <<call[t].model, call[t].prompt>> IN
  /\ call[t].pc = "put"
  /\ cache' = IF ok
       THEN [k \in DOMAIN cache \union {key} |->
               IF k = key THEN [model |-> call[t].model, stop |-> call[t].got] ELSE cache[k]]
       ELSE cache
  /\ unkept' = Counted(unkept, t, ~ok /\ call[t].model = Primary)
  /\ Return(t, IF ok THEN call[t].got ELSE "error")
  /\ UNCHANGED <<lock, calls, said, paid>>

\* Mutant: an error leaves the lock held.
ReleaseUnlessError(t) ==
  /\ call[t].pc = "done"
  /\ lock' = IF call[t].got = "error" THEN lock ELSE [lock EXCEPT ![ProcessOf[t]] = {}]
  /\ call' = [call EXCEPT ![t] = Idle]
  /\ UNCHANGED <<cache, calls, said, accounts>>

Release(t) ==
  /\ call[t].pc = "done"
  /\ lock' = [lock EXCEPT ![ProcessOf[t]] = {}]
  /\ call' = [call EXCEPT ![t] = Idle]
  /\ UNCHANGED <<cache, calls, said, accounts>>

Answer(t) == \E a \in Answers : Dispatch(t, a)
Goes(t) == Look(t) \/ (\E ok \in BOOLEAN : Put(t, ok)) \/ Release(t)

LlmNext ==
  \E t \in Threads :
    Goes(t) \/ Answer(t) \/ TakeLock(t) \/ \E q \in Prompts, fb \in BOOLEAN : Begin(t, q, fb)

(* Threads are scheduled.  A provider need not answer: the Gemini client is*)
(* made and called without a timeout.                                      *)
LlmFairness == \A t \in Threads : WF_llmVars(Goes(t)) /\ WF_llmVars(TakeLock(t))

LlmSpec == LlmInit /\ [][LlmNext]_llmVars

(* ------------------------------ properties ----------------------------- *)

(* Every row of the cache is a whole answer of the model its key names: a  *)
(* truncated, blocked or empty answer is never replayed, nor the fallback's*)
(* answer as the primary's.                                                *)
CacheIsWholeAndTrue ==
  \A k \in DOMAIN cache : /\ cache[k].model = k[1]
                          /\ cache[k].stop \notin Uncacheable
                          /\ <<k[1], k[2], cache[k].stop>> \in said

(* The callers of a prompt inside one process pay for an answer once, the  *)
(* look, the dispatch and the store being one span of the lock, and once   *)
(* more for every answer that leaves nothing under the primary's key: an   *)
(* empty or a cut one, one that could not be stored, and the fallback's,   *)
(* whose row nobody looks up on the primary's behalf.                      *)
HerdAsksOnce == \A p \in Processes, q \in Prompts : paid[p][q] <= 1 + unkept[p][q]

(* Where the requests of a process's own threads end, its calls do: the    *)
(* attempts and fallbacks are bounded, the lock is released on every path, *)
(* and a request that hangs hangs the callers of its own process only.     *)
CallEnds ==
  \A t \in Threads :
    (\A u \in Threads : ProcessOf[u] = ProcessOf[t] => WF_llmVars(Answer(u)))
      => (call[t].pc = "wait" ~> call[t].pc = "idle")

(* What callers may rely on when they share a cache.                       *)
CallSafety == LlmTypeOK /\ CacheIsWholeAndTrue /\ HerdAsksOnce
=============================================================================
