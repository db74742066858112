------------------------------ MODULE Observers ------------------------------
(***************************************************************************)
(* What a dual-read query leaves behind it (DualReadRouter.query after the *)
(* canonical answer is there): the attempt counter, the conflict row in    *)
(* the events table, the outcome counters, one line of the decision log;   *)
(* and the reader that makes rates of that log (dual_read_metrics).        *)
(* How the query is answered is module DualRead.                           *)
(*                                                                         *)
(* The queries of a router run on several threads and share the events     *)
(* connection, whose transaction is the caller's to commit.                *)
(***************************************************************************)
EXTENDS Naturals, Sequences, FiniteSets

CONSTANTS Queries,   \* queries, each with its correlation id
          Refs,      \* canonical refs: the first hit's id, or the sentinel
          Hour,      \* DEDUP_WINDOW_SECONDS
          MaxTime,   \* bound: the wall clock stops there
          MaxTorn    \* bound: writes of the log that are cut short

ASSUME ObsAssumption ==
  /\ {"none", "legacy"} \intersect Queries = {}
  /\ Hour \in Nat /\ MaxTime \in Nat /\ MaxTorn \in Nat

VARIABLES now,       \* time.time_ns()
          config,    \* [dual, log, events, factory]: the flags, whether a connection is
                     \* given, and the row_factory its owner gave it
          factory,   \* the connection's row_factory: "row" (sqlite3.Row) or "tuple"
          query,     \* query[q]: see Begun; saw, blind, wrote: history, the rows when it read
                     \* the clock, that its look read tuples, that its line was written whole
          rows,      \* committed arbitration_conflict rows: [query, ref, at]
          open,      \* the rows of the connection's open transaction
          lost,      \* history: rows that a rollback took
          requests,  \* parallax_dual_read_requests_total, as the set of the queries
          observed,  \* the outcome counters, as the set of the queries counted
          failures,  \* _write_failures, as the set of the queries
          log,       \* the decision log: lines [record, whole, ended]
          torn,      \* torn writes so far
          glued      \* history: queries whose line continued a torn one

obsVars == <<now, config, factory, query, rows, open, lost, requests, observed, failures, log, torn, glued>>

NoEvent == "none"
Begun == [pc |-> "idle", source |-> "natural", outcome |-> "none", fallback |-> FALSE,
          ref |-> "none", at |-> 0, event |-> NoEvent, error |-> FALSE,
          saved |-> "none", saw |-> {}, blind |-> FALSE, wrote |-> FALSE]

(* A line of an older build, without traffic_source.                       *)
Legacy == [query |-> "legacy", source |-> "missing", fallback |-> FALSE,
           event |-> NoEvent, error |-> FALSE]

Sources == {"natural", "synthetic", "missing"}
(* match and diverge; primary_only and aphelion_unreachable, where there is*)
(* no secondary result.                                                    *)
DualOutcomes == {"compared", "alone"}

Factories == {"row", "tuple"}
Configs == [dual : BOOLEAN, log : BOOLEAN, events : BOOLEAN, factory : Factories]

ObsTypeOK ==
  /\ now \in 0..MaxTime /\ torn \in 0..MaxTorn
  /\ config \in Configs /\ factory \in Factories
  /\ \A q \in Queries : query[q].pc \in
       {"idle", "dispatch", "save", "swap", "stamp", "select", "insert", "restore", "record",
        "log", "done"}
  /\ rows \union open \union lost \subseteq [query : Queries, ref : Refs, at : 0..now]
  /\ requests \union observed \union failures \union glued \subseteq Queries
  /\ \A i \in DOMAIN log : log[i].whole \in BOOLEAN /\ log[i].ended \in BOOLEAN

ObsInit ==
  /\ now = 0
  /\ config \in Configs /\ factory = config.factory
  /\ query = [q \in Queries |-> Begun]
  /\ rows = {} /\ open = {} /\ lost = {}
  /\ requests = {} /\ observed = {} /\ failures = {}
  /\ log \in {<<>>, <<[record |-> Legacy, whole |-> TRUE, ended |-> TRUE]>>}
  /\ torn = 0 /\ glued = {}

table == <<rows, open, lost, factory>>
counters == <<requests, observed, failures>>
logged == <<log, torn, glued>>

Step(q, changes) == query' = [query EXCEPT ![q] = changes]

(* Attempts are counted where a decision record is due: before anything of *)
(* the query has run, and only with dual read and the log on.              *)
Counts == config.dual /\ config.log

Enter(q, source) ==
  /\ query[q].pc = "idle"
  /\ Step(q, [Begun EXCEPT !.pc = "dispatch", !.source = source])
  /\ requests' = IF Counts THEN requests \union {q} ELSE requests
  /\ UNCHANGED <<now, config, table, observed, failures, logged>>

(* The canonical query raises: no record of any kind.                      *)
PrimaryRaises(q) ==
  /\ query[q].pc = "dispatch" /\ Step(q, [query[q] EXCEPT !.pc = "done"])
  /\ UNCHANGED <<now, config, table, counters, logged>>

(* The flag is off, or the query is the change trace of a bug.             *)
Skip(q) ==
  /\ query[q].pc = "dispatch"
  /\ Step(q, [query[q] EXCEPT !.pc = "record", !.outcome = "skipped"])
  /\ UNCHANGED <<now, config, table, counters, logged>>

(* arbitrate: the owner of the query type wins when both sides have hits;  *)
(* without a secondary result it is a fallback.                            *)
Arbitrate(q, o, fallback, ref) ==
  /\ query[q].pc = "dispatch" /\ config.dual
  /\ o = "alone" => fallback
  /\ Step(q, [query[q] EXCEPT !.outcome = o, !.fallback = fallback, !.ref = ref,
                !.pc = IF fallback /\ config.events THEN "save" ELSE "record"])
  /\ UNCHANGED <<now, config, table, counters, logged>>

(* write_conflict_event: it saves the row_factory of the connection that   *)
(* all queries share, sets its own, reads the clock, looks for a row,      *)
(* inserts, and in the end puts back what it saved.                        *)
SaveFactory(q) ==
  /\ query[q].pc = "save"
  /\ Step(q, [query[q] EXCEPT !.pc = "swap", !.saved = factory])
  /\ UNCHANGED <<now, config, table, counters, logged>>

SwapFactory(q) ==
  /\ query[q].pc = "swap" /\ Step(q, [query[q] EXCEPT !.pc = "stamp"])
  /\ factory' = "row"
  /\ UNCHANGED <<now, config, rows, open, lost, counters, logged>>

StampConflict(q) ==
  /\ query[q].pc = "stamp"
  /\ Step(q, [query[q] EXCEPT !.pc = "select", !.at = now, !.saw = rows \union open])
  /\ UNCHANGED <<now, config, table, counters, logged>>

\* Mutant: only committed rows are looked at.
DuplicatesCommitted(q) ==
  {r \in rows : r.ref = query[q].ref /\ r.at + Hour >= query[q].at}

Duplicates(q) ==
  {r \in rows \union open : r.ref = query[q].ref /\ r.at + Hour >= query[q].at}

Newest(set) == CHOOSE r \in set : \A s \in set : s.at <= r.at

(* A tuple cannot be read by column name: the TypeError counts as "none".  *)
Found(q) == IF factory = "row" THEN Duplicates(q) ELSE {}

Select(q) ==
  /\ query[q].pc = "select"
  /\ Step(q, IF Found(q) = {}
               THEN [query[q] EXCEPT !.pc = "insert", !.blind = factory # "row"]
               ELSE [query[q] EXCEPT !.pc = "restore", !.event = Newest(Found(q)).query])
  /\ UNCHANGED <<now, config, table, counters, logged>>

Insert(q) ==
  /\ query[q].pc = "insert"
  /\ open' = open \union {[query |-> q, ref |-> query[q].ref, at |-> query[q].at]}
  /\ Step(q, [query[q] EXCEPT !.pc = "restore", !.event = q])
  /\ UNCHANGED <<now, config, factory, rows, lost, counters, logged>>

(* Whatever raises inside the writer ends as the empty event id.           *)
WriteFails(q) ==
  /\ query[q].pc \in {"select", "insert"}
  /\ failures' = failures \union {q}
  /\ Step(q, [query[q] EXCEPT !.pc = "restore", !.error = TRUE])
  /\ UNCHANGED <<now, config, table, requests, observed, logged>>

RestoreFactory(q) ==
  /\ query[q].pc = "restore" /\ Step(q, [query[q] EXCEPT !.pc = "record"])
  /\ factory' = query[q].saved
  /\ UNCHANGED <<now, config, rows, open, lost, counters, logged>>

(* _record; the rolling windows are module RollingWindow.                  *)
RecordOutcome(q) ==
  /\ query[q].pc = "record"
  /\ observed' = observed \union {q}
  /\ Step(q, [query[q] EXCEPT !.pc = "log"])
  /\ UNCHANGED <<now, config, table, requests, failures, logged>>

(* The writer calls an absent source natural; the reader does not.         *)
Normalized(source) == IF source = "synthetic" THEN "synthetic" ELSE "natural"

RecordOf(q) ==
  [query |-> q, source |-> Normalized(query[q].source), fallback |-> query[q].fallback,
   event |-> query[q].event, error |-> query[q].error]

Unended == log # <<>> /\ ~log[Len(log)].ended

(* append_decision writes a line with its newline, if it can; a write that *)
(* is cut short leaves a tail that the next line continues.                *)
Appended(q, full) ==
  IF Unended
    THEN [log EXCEPT ![Len(log)] = [@ EXCEPT !.whole = FALSE, !.ended = full]]
    ELSE Append(log, [record |-> RecordOf(q), whole |-> full, ended |-> full])

LogDecision(q) ==
  /\ query[q].pc = "log"
  /\ \/ \E full \in BOOLEAN :
          /\ config.log /\ (full \/ torn < MaxTorn)
          /\ log' = Appended(q, full)
          /\ torn' = IF full THEN torn ELSE torn + 1
          /\ glued' = IF Unended THEN glued \union {q} ELSE glued
          /\ Step(q, [query[q] EXCEPT !.pc = "done", !.wrote = full])
     \/ Step(q, [query[q] EXCEPT !.pc = "done"]) /\ UNCHANGED logged
  /\ UNCHANGED <<now, config, table, counters>>

(* The caller's commit or rollback of the events connection.               *)
Commit ==
  /\ open # {} /\ rows' = rows \union open /\ open' = {}
  /\ UNCHANGED <<now, config, factory, query, lost, counters, logged>>

Rollback ==
  /\ open # {} /\ lost' = lost \union open /\ open' = {}
  /\ UNCHANGED <<now, config, factory, query, rows, counters, logged>>

ClockTick ==
  /\ now < MaxTime /\ now' = now + 1
  /\ UNCHANGED <<config, query, table, counters, logged>>

ObsNext ==
  \/ \E q \in Queries :
       \/ \E s \in Sources : Enter(q, s)
       \/ PrimaryRaises(q) \/ Skip(q)
       \/ \E o \in DualOutcomes, fallback \in BOOLEAN, ref \in Refs : Arbitrate(q, o, fallback, ref)
       \/ SaveFactory(q) \/ SwapFactory(q) \/ StampConflict(q) \/ Select(q) \/ Insert(q)
       \/ WriteFails(q) \/ RestoreFactory(q)
       \/ RecordOutcome(q) \/ LogDecision(q)
  \/ Commit \/ Rollback \/ ClockTick

ObsSpec == ObsInit /\ [][ObsNext]_obsVars

(* ------------------------------- reader -------------------------------- *)

(* load_records: a line that does not parse is counted and passed over.    *)
Parses(line) == line.whole
Readable == {log[i].record : i \in {j \in DOMAIN log : Parses(log[j])}}

(* record_traffic_source.                                                  *)
Partition(source) == {r \in Readable : r.source = source}

(* ------------------------------ properties ----------------------------- *)

(* Within the hour a conflict is not written twice, except by queries that *)
(* overlap: a row that the connection held when a query read its clock is  *)
(* found by its look, unless it was rolled back, or unless the owner's     *)
(* factory is not sqlite3.Row and another query put that one back before   *)
(* the look.                                                               *)
SettledConflictNotDoubled ==
  \A a, b \in rows \union open :
    a # b /\ a.ref = b.ref /\ a.at <= b.at /\ b.at <= a.at + Hour
      => a \notin query[b.query].saw \/ (query[b.query].blind /\ config.factory # "row")

(* conflict_writer.py:296-298: "The caller's original ``row_factory`` is   *)
(* preserved by saving + restoring it on exit (try/finally)": with no      *)
(* query inside the writer, the connection has its owner's factory.        *)
Writing == {q \in Queries : query[q].pc \in {"swap", "stamp", "select", "insert", "restore"}}
FactoryIsPreserved == Writing = {} => factory = config.factory

(* The log tells the truth about the events table, which another component *)
(* wrote: an error means that no row was inserted, an event id names a row *)
(* of this conflict no older than the hour (that a rollback may since have *)
(* taken), and a fallback without either is one without a connection.      *)
LogTellsOfEvents ==
  \A r \in Readable \ {Legacy} :
    /\ r.error => \A e \in rows \union open \union lost : e.query # r.query
    /\ r.error <=> r.query \in failures
    /\ r.event # NoEvent => \E e \in rows \union open \union lost :
         /\ e.query = r.event /\ e.ref = query[r.query].ref
         /\ e.at + Hour >= query[r.query].at
    /\ config.events /\ r.fallback => r.error \/ r.event # NoEvent

(* The silence alarm compares attempts with records: every record of a     *)
(* query that dual read answered was counted as an attempt, and every      *)
(* attempt that ended without its outcome counted is one that raised.      *)
AttemptsCoverRecords ==
  /\ config.dual => \A r \in Readable \ {Legacy} : r.query \in requests
  /\ \A q \in requests : query[q].pc = "done" /\ q \notin observed => query[q].outcome = "none"

(* The partition of unknown provenance is closed: no new line joins it, so *)
(* it only drains, and the gates read from the other two.                  *)
UnknownIsLegacy == Partition("missing") \subseteq {Legacy}

(* Every other decision that was written whole is read back, except those  *)
(* whose line continued a torn one: one torn write costs at most one more. *)
LossesAreTorn ==
  /\ \A q \in Queries : query[q].wrote => q \in glued \/ RecordOf(q) \in Readable
  /\ Cardinality(glued) <= torn

(* What the traces of a query tell of it and of one another.               *)
ObserverSafety ==
  /\ ObsTypeOK /\ SettledConflictNotDoubled /\ LogTellsOfEvents
  /\ AttemptsCoverRecords /\ UnknownIsLegacy /\ LossesAreTorn
=============================================================================
