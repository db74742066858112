------------------------------ MODULE WalQueue ------------------------------
(***************************************************************************)
(* The client's offline queue (wal.py): events are enqueued in a local     *)
(* SQLite file and drained to the server, at least once, by drains that    *)
(* may overlap, crash between the request and the commit, and give up on a *)
(* row after five failures.                                                *)
(***************************************************************************)
EXTENDS Naturals, FiniteSets

CONSTANTS Drains,        \* drain calls that may overlap
          MaxSeq,        \* bound: rows enqueued
          DRAIN_BATCH, MaxAttempts

ASSUME WalAssumption ==
  /\ IsFiniteSet(Drains)
  /\ MaxSeq \in Nat /\ DRAIN_BATCH \in Nat /\ MaxAttempts \in Nat

VARIABLES queue,     \* queue[seq]: attempts so far, of rows in the table
          lastSeq,   \* the autoincrement counter
          drn,       \* drn[d]: [pc, rows]: the rows a drain has read
          arrived,   \* seq -> how often the server acted on it
          fate,      \* seq -> why it left the queue
          disturbed  \* history: seqs hit by a crash, a lost answer, two drains

walVars == <<queue, lastSeq, drn, arrived, fate, disturbed>>

Seqs == 1..MaxSeq
Queued == DOMAIN queue
Without(q) == [s \in Queued \ {q} |-> queue[s]]

WalTypeOK ==
  /\ Queued \subseteq 1..lastSeq
  /\ \A s \in Queued : queue[s] \in 0..(MaxAttempts + Cardinality(Drains))
  /\ lastSeq \in 0..MaxSeq
  /\ \A d \in Drains : /\ drn[d].pc \in {"idle", "sending", "answered"}
                       /\ DOMAIN drn[d].rows \subseteq Seqs
  /\ arrived \in [Seqs -> Nat]
  /\ fate \in [Seqs -> {"queued", "sent", "refused", "evicted"}]
  /\ disturbed \subseteq Seqs

NoDrain == [pc |-> "idle", rows |-> [s \in {} |-> 0], answer |-> "none"]

WalInit ==
  /\ queue = [s \in {} |-> 0]
  /\ lastSeq = 0
  /\ drn = [d \in Drains |-> NoDrain]
  /\ arrived = [s \in Seqs |-> 0]
  /\ fate = [s \in Seqs |-> "queued"]
  /\ disturbed = {}

Enqueue ==
  /\ lastSeq < MaxSeq
  /\ lastSeq' = lastSeq + 1
  /\ queue' = [s \in Queued \union {lastSeq'} |-> IF s = lastSeq' THEN 0 ELSE queue[s]]
  /\ UNCHANGED <<drn, arrived, fate, disturbed>>

Dead(s) == queue[s] >= MaxAttempts

(* The first DRAIN_BATCH rows of a table, by seq. *)
Batch(rows) == {s \in rows : Cardinality({t \in rows : t < s}) < DRAIN_BATCH}

(* drain: dead rows that are old enough are evicted, then one batch is     *)
(* read, dead rows that stay included.                                     *)
StartDrain(d, expired) ==
  /\ drn[d].pc = "idle"
  /\ expired \subseteq {s \in Queued : Dead(s)}
  /\ LET rows == Queued \ expired
     IN /\ queue' = [s \in rows |-> queue[s]]
        /\ drn' = [drn EXCEPT ![d] = [pc |-> "sending", answer |-> "none",
                                      rows |-> [s \in Batch(rows) |-> queue[s]]]]
        /\ disturbed' = disturbed \union
             (IF \E e \in Drains : drn[e].pc # "idle" THEN Batch(rows) ELSE {})
  /\ fate' = [s \in Seqs |-> IF s \in expired /\ fate[s] = "queued" THEN "evicted" ELSE fate[s]]
  /\ UNCHANGED <<lastSeq, arrived>>

Rest(d) == DOMAIN drn[d].rows
First(d) == CHOOSE s \in Rest(d) : \A t \in Rest(d) : s <= t
Pass(d) == [pc |-> "sending", answer |-> "none",
            rows |-> [s \in Rest(d) \ {First(d)} |-> drn[d].rows[s]]]

Skip(d) ==
  /\ drn[d].pc = "sending" /\ Rest(d) # {}
  /\ drn[d].rows[First(d)] >= MaxAttempts
  /\ drn' = [drn EXCEPT ![d] = Pass(d)]
  /\ UNCHANGED <<queue, lastSeq, arrived, fate, disturbed>>

(* The POST: the server acts on it and answers 2xx, refuses it (4xx), or   *)
(* fails (5xx) without acting; or no answer comes, in time or at all,      *)
(* whether it acted or not.                                                *)
Post(d) ==
  /\ drn[d].pc = "sending" /\ Rest(d) # {}
  /\ drn[d].rows[First(d)] < MaxAttempts
  /\ \E answer \in {"2xx", "4xx", "retry"}, acted \in BOOLEAN :
       /\ answer = "2xx" => acted
       /\ answer = "4xx" => ~acted
       /\ arrived' = [arrived EXCEPT ![First(d)] = @ + (IF acted THEN 1 ELSE 0)]
       /\ disturbed' = IF answer = "retry" /\ acted THEN disturbed \union {First(d)}
                                                    ELSE disturbed
       /\ drn' = [drn EXCEPT ![d].pc = "answered", ![d].answer = answer]
  /\ UNCHANGED <<queue, lastSeq, fate>>

\* Mutant: the row is deleted whatever the server answered.
SettleByDeleting(d) ==
  /\ drn[d].pc = "answered"
  /\ queue' = Without(First(d))
  /\ drn' = [drn EXCEPT ![d] = Pass(d)]
  /\ UNCHANGED <<lastSeq, arrived, fate, disturbed>>

(* The row is deleted, or its attempts counted, and that is committed.  A  *)
(* row another drain deleted is not there to update.                       *)
Settle(d) ==
  LET s == First(d) IN
  /\ drn[d].pc = "answered"
  /\ queue' = IF drn[d].answer # "retry" THEN Without(s)
              ELSE [t \in Queued |-> queue[t] + (IF t = s THEN 1 ELSE 0)]
  /\ fate' = IF s \in Queued /\ drn[d].answer # "retry"
               THEN [fate EXCEPT ![s] = IF drn[d].answer = "2xx" THEN "sent" ELSE "refused"]
               ELSE fate
  /\ drn' = [drn EXCEPT ![d] = Pass(d)]
  /\ UNCHANGED <<lastSeq, arrived, disturbed>>

EndDrain(d) ==
  /\ drn[d].pc = "sending" /\ Rest(d) = {}
  /\ drn' = [drn EXCEPT ![d] = NoDrain]
  /\ UNCHANGED <<queue, lastSeq, arrived, fate, disturbed>>

KillDrain(d) ==
  /\ drn[d].pc # "idle"
  /\ drn' = [drn EXCEPT ![d] = NoDrain]
  /\ disturbed' = disturbed \union (IF drn[d].pc = "answered" THEN {First(d)} ELSE {})
  /\ UNCHANGED <<queue, lastSeq, arrived, fate>>

DrainGoesOn(d) == Skip(d) \/ Post(d) \/ Settle(d) \/ EndDrain(d)

WalNext ==
  \/ Enqueue
  \/ \E d \in Drains :
       \/ DrainGoesOn(d) \/ KillDrain(d)
       \/ \E expired \in SUBSET Queued : StartDrain(d, expired)

WalSpec == WalInit /\ [][WalNext]_walVars

(* ------------------------------ properties ----------------------------- *)

(* At least once: an event leaves the queue when the server acted on it or *)
(* refused it, or five attempts failed and a week has passed; never by a   *)
(* crash, nor by another drain's row.                                      *)
NothingLostFromQueue ==
  \A s \in 1..lastSeq :
    \/ s \in Queued
    \/ fate[s] = "sent" /\ arrived[s] > 0
    \/ fate[s] \in {"refused", "evicted"}

(* What the server sees twice was disturbed: a crash between the answer and*)
(* the commit, an answer that was lost, or two drains at a time.  A queue  *)
(* that is drained in peace delivers each event once.                      *)
DuplicatesAreExplained == \A s \in Seqs : arrived[s] > 1 => s \in disturbed

(* What the offline queue promises the hooks that write to it.             *)
QueueSafety == WalTypeOK /\ NothingLostFromQueue /\ DuplicatesAreExplained
=============================================================================
