------------------------------- MODULE Canary -------------------------------
(***************************************************************************)
(* The durable canary store and its readers.  Producers write two rows for *)
(* a request, the audit row and the outcome row, in two autocommitted      *)
(* statements (instrument.py); the metrics exporter reads the file with    *)
(* four queries and keeps the result for a while (exporter.py); the DoD    *)
(* gate reads it with two (dod.py).  Nothing holds a transaction over two  *)
(* of these statements.                                                    *)
(***************************************************************************)
EXTENDS Naturals, FiniteSets

CONSTANTS Producers,  \* threads with a CanaryRequestRecorder
          Events,     \* event ids
          Stages,     \* KNOWN_STAGES
          Kinds,      \* the outcomes that the requests have
          MinHits,    \* DOD_THRESHOLD[MIN_HITS]
          Percent,    \* the rate thresholds, in percent
          MaxSpans    \* bound: requests measured in all

VARIABLES tables,     \* the tables that the file has
          audit,      \* audit_log: event -> whether the status is >= 500
          ledger,     \* canary_outcomes: event -> [stage, outcome]
          rolled,     \* canary_rollback_state, or "unknown" without a row
          span,       \* span[p]: [pc, event, stage, outcome, error, auditOk]
          spans,      \* measured so far
          scrape,     \* collect_canary_snapshot in progress: [pc, snap]
          cached,     \* the snapshot that is served
          gate,       \* compute_dod: [pc, stage, joined, errors, lost, rev]
          certified,  \* history: the events whose span was recorded
          rev         \* history: rows of the ledger that were changed

canaryVars == <<tables, audit, ledger, rolled, span, spans, scrape, cached, gate,
                certified, rev>>

ASSUME KindsAssumption == Kinds \subseteq {"ok", "discrepancy", "data_loss"}
ASSUME CanaryAssumption ==
  /\ IsFiniteSet(Stages) /\ MinHits \in Nat /\ Percent \in Nat /\ MaxSpans \in Nat
OutcomeKinds == {"ok", "discrepancy", "data_loss"}
NoSpan == [pc |-> "idle", event |-> "none", stage |-> "none", outcome |-> "none",
           error |-> FALSE, auditOk |-> FALSE]
NoSnapshot ==
  [present |-> FALSE, clean |-> TRUE, quiet |-> TRUE, rev |-> 0, sure |-> 0,
   events |-> [s \in Stages |-> [o \in OutcomeKinds |-> 0]],
   errors |-> [s \in Stages |-> 0], durations |-> [s \in Stages |-> 0],
   state |-> "unknown"]
NoScrape == [pc |-> "idle", snap |-> NoSnapshot]
NoGate == [pc |-> "idle", stage |-> "none", joined |-> 0, errors |-> 0, lost |-> {}, rev |-> 0]

OfStage(s) == {e \in DOMAIN ledger : ledger[e].stage = s}
Cell(s, o) == Cardinality({e \in OfStage(s) : ledger[e].outcome = o})
Joined(s) == OfStage(s) \intersect DOMAIN audit
InError(s) == {e \in Joined(s) : audit[e]}
Total(snap, s) == snap.events[s]["ok"] + snap.events[s]["discrepancy"]
                    + snap.events[s]["data_loss"]

CanaryTypeOK ==
  /\ tables \subseteq {"audit_log", "canary_outcomes"}
  /\ DOMAIN audit \subseteq Events /\ DOMAIN ledger \subseteq Events
  /\ \A e \in DOMAIN ledger : ledger[e] \in [stage : Stages, outcome : OutcomeKinds]
  /\ rolled \in {"unknown", "known"}
  /\ \A p \in Producers : span[p].pc \in {"idle", "audit", "outcome"}
  /\ scrape.pc \in {"idle", "events", "errors", "durations", "state"}
  /\ gate.pc \in {"idle", "counts", "pass", "other"}
  /\ spans \in 0..MaxSpans /\ certified \subseteq Events /\ rev \in 0..MaxSpans

CanaryInit ==
  /\ tables = {} /\ audit = [e \in {} |-> 0] /\ ledger = [e \in {} |-> 0]
  /\ rolled = "unknown"
  /\ span = [p \in Producers |-> NoSpan] /\ spans = 0
  /\ scrape = NoScrape /\ cached = NoSnapshot
  /\ gate = NoGate /\ certified = {} /\ rev = 0

(* ------------------------------ producers ------------------------------ *)

(* The constructors of AuditLog and OutcomeStore make their table; a drill *)
(* without a stage makes the first one only.                               *)
MakeTable(t) ==
  /\ t \notin tables /\ tables' = tables \union {t}
  /\ UNCHANGED <<audit, ledger, rolled, span, spans, scrape, cached, gate, certified, rev>>

(* RollbackController (module Rollback) saves its state: here only whether *)
(* there is a row to be read.                                              *)
SaveState ==
  /\ tables # {} /\ rolled' = "known"
  /\ UNCHANGED <<tables, audit, ledger, span, spans, scrape, cached, gate, certified, rev>>

(* CanaryRequestRecorder.request: the body of the `with` has run or raised.*)
Measure(p, e, s, o, err) ==
  /\ tables = {"audit_log", "canary_outcomes"}
  /\ span[p].pc = "idle" /\ spans < MaxSpans /\ spans' = spans + 1
  /\ span' = [span EXCEPT ![p] = [pc |-> "audit", event |-> e, stage |-> s, outcome |-> o,
                                  error |-> err, auditOk |-> FALSE]]
  /\ UNCHANGED <<tables, audit, ledger, rolled, scrape, cached, gate, certified, rev>>

(* A row has landed; a scrape that is under way may or may not see it.     *)
Disturb == scrape' = [scrape EXCEPT !.snap.quiet = scrape.pc = "idle"]

(* AuditLog.record: insert or update; a failure is only a returned False.  *)
PutAudit(p, ok) ==
  /\ span[p].pc = "audit"
  /\ span' = [span EXCEPT ![p].pc = "outcome", ![p].auditOk = ok]
  /\ audit' = IF ok
       THEN [e \in DOMAIN audit \union {span[p].event} |->
               IF e = span[p].event THEN span[p].error ELSE audit[e]]
       ELSE audit
  /\ Disturb
  /\ UNCHANGED <<tables, ledger, rolled, spans, cached, gate, certified, rev>>

\* Mutant: either half is enough for `recorded`.
RecordedByHalf(auditOk, outcomeOk) == auditOk \/ outcomeOk

Recorded(auditOk, outcomeOk) == auditOk /\ outcomeOk

(* OutcomeStore.record, which also replaces the stage and the outcome of a *)
(* row that is there, and the span's `recorded`.                           *)
PutOutcome(p, ok) ==
  LET e == span[p].event
      row == [stage |-> span[p].stage, outcome |-> span[p].outcome]
  IN
  /\ span[p].pc = "outcome"
  /\ span' = [span EXCEPT ![p] = NoSpan]
  /\ ledger' = IF ok THEN [f \in DOMAIN ledger \union {e} |-> IF f = e THEN row ELSE ledger[f]]
                     ELSE ledger
  /\ rev' = IF ok /\ e \in DOMAIN ledger /\ ledger[e] # row THEN rev + 1 ELSE rev
  /\ certified' = IF Recorded(span[p].auditOk, ok) THEN certified \union {e} ELSE certified
  /\ Disturb
  /\ UNCHANGED <<tables, audit, rolled, spans, cached, gate>>

(* The producer's process is killed.                                       *)
Die(p) ==
  /\ span[p].pc # "idle" /\ span' = [span EXCEPT ![p] = NoSpan]
  /\ UNCHANGED <<tables, audit, ledger, rolled, spans, scrape, cached, gate, certified, rev>>

(* ------------------------------ exporter ------------------------------- *)

(* The cache has expired; one scrape at a time, under the cache's lock.    *)
Open ==
  /\ scrape.pc = "idle"
  /\ IF tables = {}
       THEN /\ cached' = NoSnapshot
            /\ UNCHANGED scrape
       ELSE /\ scrape' = [pc |-> "events",
                          snap |-> [NoSnapshot EXCEPT !.sure = Cardinality(certified)]]
            /\ UNCHANGED cached
  /\ UNCHANGED <<tables, audit, ledger, rolled, span, spans, gate, certified, rev>>

(* A query fails when its table is not there, or on a lock it cannot get.  *)
Query(at, next, needs, ok, filled) ==
  /\ scrape.pc = at /\ (ok => needs \subseteq tables)
  /\ scrape' = [pc |-> next,
                snap |-> IF ok THEN filled ELSE [scrape.snap EXCEPT !.clean = FALSE]]
  /\ UNCHANGED <<tables, audit, ledger, rolled, span, spans, cached, gate, certified, rev>>

\* Mutant: a query that fails counts as one without rows.
ReadEventsAsZero(ok) ==
  Query("events", "errors", IF ok THEN {"canary_outcomes"} ELSE {}, TRUE,
        [scrape.snap EXCEPT !.present = TRUE, !.quiet = TRUE, !.rev = rev,
           !.events = [s \in Stages |-> [o \in OutcomeKinds |-> IF ok THEN Cell(s, o) ELSE 0]]])

ReadEvents(ok) ==
  Query("events", "errors", {"canary_outcomes"}, ok,
        [scrape.snap EXCEPT !.present = TRUE, !.quiet = TRUE, !.rev = rev,
           !.events = [s \in Stages |-> [o \in OutcomeKinds |-> Cell(s, o)]]])

ReadErrors(ok) ==
  Query("errors", "durations", {"canary_outcomes", "audit_log"}, ok,
        [scrape.snap EXCEPT !.errors = [s \in Stages |-> Cardinality(InError(s))]])

ReadDurations(ok) ==
  Query("durations", "state", {"canary_outcomes", "audit_log"}, ok,
        [scrape.snap EXCEPT !.durations = [s \in Stages |-> Cardinality(Joined(s))]])

Publish(ok) ==
  /\ scrape.pc = "state"
  /\ cached' = [scrape.snap EXCEPT !.state = IF ok THEN rolled ELSE "unknown"]
  /\ scrape' = NoScrape
  /\ UNCHANGED <<tables, audit, ledger, rolled, span, spans, gate, certified, rev>>

(* ------------------------------- DoD gate ------------------------------ *)

(* The first query: the rows of both tables for the stage.                 *)
Sample(s) ==
  /\ gate.pc \in {"idle", "pass", "other"} /\ tables = {"audit_log", "canary_outcomes"}
  /\ gate' = [pc |-> "counts", stage |-> s, joined |-> Cardinality(Joined(s)),
              errors |-> Cardinality(InError(s)),
              lost |-> {e \in OfStage(s) : ledger[e].outcome = "data_loss"}, rev |-> rev]
  /\ UNCHANGED <<tables, audit, ledger, rolled, span, spans, scrape, cached, certified, rev>>

Below(n, total) == 100 * n < Percent * total

(* Every metric wants MIN_HITS rows of the corpus that it reads.           *)
Passes(joined, errors, total, discrepancies, losses) ==
  /\ joined >= MinHits /\ Below(errors, joined)
  /\ total >= MinHits /\ Below(discrepancies, total)
  /\ losses = 0

(* The second query and the verdict; the split gate is open.               *)
Judge ==
  LET s == gate.stage IN
  /\ gate.pc = "counts"
  /\ gate' = [gate EXCEPT !.pc =
       IF Passes(gate.joined, gate.errors, Cardinality(OfStage(s)),
                 Cell(s, "discrepancy"), Cell(s, "data_loss"))
         THEN "pass" ELSE "other"]
  /\ UNCHANGED <<tables, audit, ledger, rolled, span, spans, scrape, cached, certified, rev>>

CanaryNext ==
  \/ \E t \in {"audit_log", "canary_outcomes"} : MakeTable(t)
  \/ SaveState
  \/ \E p \in Producers :
       \/ \E e \in Events, s \in Stages, o \in Kinds, err \in BOOLEAN :
            Measure(p, e, s, o, err)
       \/ \E ok \in BOOLEAN : PutAudit(p, ok) \/ PutOutcome(p, ok)
       \/ Die(p)
  \/ Open
  \/ \E ok \in BOOLEAN : ReadEvents(ok) \/ ReadErrors(ok) \/ ReadDurations(ok) \/ Publish(ok)
  \/ \E s \in Stages : Sample(s)
  \/ Judge

(* ------------------------------ properties ----------------------------- *)

CanarySpec == CanaryInit /\ [][CanaryNext]_canaryVars

(* One mark for every row that the metric counted, stage by stage: their   *)
(* number is the sum of the counts.                                        *)
LedgerMarks(snap) ==
  UNION {{c} \X (1..snap.events[c[1]][c[2]]) : c \in Stages \X OutcomeKinds}
DurationMarks(snap) == UNION {{s} \X (1..snap.durations[s]) : s \in Stages}

(* What a producer was told is recorded reaches the dashboard, both halves *)
(* of it: a snapshot whose queries all ran counts at least the events that *)
(* were certified before it, in the ledger and in the latency histogram.   *)
CertifiedIsExported ==
  cached.present /\ cached.clean =>
    /\ cached.sure <= Cardinality(LedgerMarks(cached))
    /\ cached.sure <= Cardinality(DurationMarks(cached))

(* The rates of T1 and T3 are at most one: the four queries see different  *)
(* moments of the file only if a row landed while the scrape ran.          *)
QuietScrapeAgrees ==
  cached.present /\ cached.clean /\ cached.quiet =>
    \A s \in Stages : /\ cached.errors[s] <= cached.durations[s]
                      /\ cached.durations[s] <= Total(cached, s)

(* The exported "counters" are counts of rows that are replaced in place:  *)
(* one falls between two readable scrapes only if a ledger row was         *)
(* recorded again with another stage or outcome.                           *)
CountersFallOnlyOnRerecord ==
  [][cached.present /\ cached'.present /\ cached' # cached =>
       \A s \in Stages, o \in OutcomeKinds :
         cached'.events[s][o] < cached.events[s][o] => cached'.rev > cached.rev]_canaryVars

(* A stage is promoted on enough rows of both tables, and never over a     *)
(* loss that the ledger held when the evaluation began (unless that event  *)
(* was recorded again).                                                    *)
PassIsEarned ==
  gate.pc = "pass" => /\ gate.joined >= MinHits
                      /\ gate.lost = {} \/ rev > gate.rev
                      /\ Below(gate.errors, gate.joined)

(* What the readers of the canary store may conclude from it.              *)
CanarySafety == CanaryTypeOK /\ CertifiedIsExported /\ QuietScrapeAgrees /\ PassIsEarned
=============================================================================
