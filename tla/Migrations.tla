----------------------------- MODULE Migrations -----------------------------
(***************************************************************************)
(* Schema migrations (migrations/).  Each version's statements run in one  *)
(* BEGIN IMMEDIATE .. COMMIT with its row of the ledger.  What is to be    *)
(* done is read from the ledger before the first transaction, so commands  *)
(* that overlap work from lists that are out of date.  The application     *)
(* appends events in between.                                              *)
(***************************************************************************)
EXTENDS Naturals, Sequences

CONSTANTS Commands,      \* invocations of migrate_to_latest / migrate_down_to
          EventIds,      \* events the application may append
          Targets        \* bound: versions a downgrade may go back to

ASSUME MigAssumption == Targets \subseteq Nat

VARIABLES db,        \* the committed file: [ledger, schema, events, fts]
          txn,       \* the open transaction's copy of it; db when none is open
          cmd,       \* cmd[p]: [pc, todo, up]
          crossed    \* history: a downgrade overlapped another command

migVars == <<db, txn, cmd, crossed>>

(* A migration: what its statements need, add and take away of the schema, *)
(* what its down() takes away, whether up() fails on a schema that has it. *)
Migration(needs, adds, once) == [needs |-> needs, adds |-> adds, once |-> once]

M1  == Migration({}, {"events", "claims"}, FALSE)
M2  == Migration({"events"}, {"appendOnly"}, FALSE)
M3  == Migration({}, {"metadata"}, FALSE)
M4  == Migration({"events"}, {"userTimeIndex"}, FALSE)
M5  == Migration({"metadata"}, {"metadataFk"}, FALSE)
M6  == Migration({"events"}, {"sessionId"}, TRUE)
M7  == Migration({"claims"}, {"hashWithUser"}, FALSE)
(* Rewrites timestamps, events' too: the append-only triggers are dropped  *)
(* for it and put back, in the same transaction.                           *)
M8  == Migration({"events"}, {"appendOnly"}, FALSE)
M9  == Migration({}, {"apiTokens"}, FALSE)
M10 == Migration({}, {"memoryCards"}, FALSE)
M11 == Migration({}, {"crosswalk"}, FALSE)
M12 == Migration({"crosswalk"}, {"aphelionDocId"}, TRUE)
M13 == Migration({"events"}, {"correlationIndex"}, FALSE)
M14 == Migration({"events"}, {"fts"}, FALSE)

MIGRATIONS == <<M1, M2, M3, M4, M5, M6, M7, M8, M9, M10, M11, M12, M13, M14>>
Versions == DOMAIN MIGRATIONS
Parts == UNION {MIGRATIONS[v].adds : v \in Versions}

(* down(): version 8 has no inverse; version 6 rebuilds the events table   *)
(* and puts the triggers back; dropping a table drops what hangs on it.    *)
DownDrops(v) ==
  CASE v = 1 -> {"events", "claims", "appendOnly", "userTimeIndex", "sessionId",
                 "hashWithUser", "correlationIndex"}
    [] v = 3 -> {"metadata", "metadataFk"}
    [] v = 6 -> {"sessionId", "appendOnly"}
    [] v = 8 -> {}
    [] v = 11 -> {"crosswalk", "aphelionDocId"}
    [] OTHER -> MIGRATIONS[v].adds
DownAdds(v) == IF v = 6 THEN {"appendOnly"} ELSE {}
DownNeeds(v) == CASE v = 5 -> {"metadata"} [] v = 6 -> {"events"} [] v = 7 -> {"claims"}
                  [] v = 12 -> {"aphelionDocId"} [] OTHER -> {}

CanUp(v, d) == /\ MIGRATIONS[v].needs \subseteq d.schema
               /\ MIGRATIONS[v].once => MIGRATIONS[v].adds \intersect d.schema = {}
               /\ v \notin d.ledger            \* the ledger's primary key
CanDown(v, d) == DownNeeds(v) \subseteq d.schema

(* up() and the INSERT into the ledger; version 14 indexes the events that *)
(* are there, if its table is empty.                                       *)
Up(v, d) == [d EXCEPT !.ledger = @ \union {v}, !.schema = @ \union MIGRATIONS[v].adds,
                      !.fts = IF v = 14 /\ @ = {} THEN d.events ELSE @]

(* down() and the DELETE from the ledger. *)
Down(v, d) == [d EXCEPT !.ledger = @ \ {v},
                        !.schema = (@ \ DownDrops(v)) \union DownAdds(v),
                        !.events = IF v = 1 THEN {} ELSE @,
                        !.fts = IF v = 14 THEN {} ELSE @]

Idle == [pc |-> "idle", todo |-> {}, up |-> TRUE]

MigTypeOK ==
  /\ {db, txn} \subseteq [ledger : SUBSET Versions, schema : SUBSET Parts,
                          events : SUBSET EventIds, fts : SUBSET EventIds]
  /\ \A p \in Commands : /\ cmd[p].pc \in {"idle", "planned", "begun", "changed"}
                         /\ cmd[p].todo \subseteq Versions
  /\ crossed \in BOOLEAN

MigInit ==
  /\ db = [ledger |-> {}, schema |-> {}, events |-> {}, fts |-> {}]
  /\ txn = db
  /\ cmd = [p \in Commands |-> Idle]
  /\ crossed = FALSE

LockFree == \A p \in Commands : cmd[p].pc \in {"idle", "planned"}

Plan(p, todo, up) ==
  /\ cmd[p].pc = "idle"
  /\ cmd' = [cmd EXCEPT ![p] = [pc |-> "planned", todo |-> todo, up |-> up]]
  /\ crossed' = (crossed \/ \E q \in Commands : cmd[q].pc # "idle" /\ ~(cmd[q].up /\ up))
  /\ UNCHANGED <<db, txn>>

(* pending(conn) *)
PlanUp(p) == Plan(p, Versions \ db.ledger, TRUE)
(* the applied versions above the target *)
PlanDown(p, target) == Plan(p, {v \in db.ledger : v > target}, FALSE)

Step(p) == CHOOSE v \in cmd[p].todo :
             \A w \in cmd[p].todo : IF cmd[p].up THEN v <= w ELSE v >= w

Begin(p) ==
  /\ cmd[p].pc = "planned" /\ cmd[p].todo # {}
  /\ LockFree
  /\ cmd' = [cmd EXCEPT ![p].pc = "begun"]
  /\ UNCHANGED <<db, txn, crossed>>

\* Mutant: the statements commit themselves, before the ledger row.
ChangeAutocommit(p) ==
  /\ cmd[p].pc = "begun"
  /\ IF cmd[p].up THEN CanUp(Step(p), db) /\ txn' = Up(Step(p), db)
                  ELSE CanDown(Step(p), db) /\ txn' = Down(Step(p), db)
  /\ db' = [db EXCEPT !.schema = txn'.schema]
  /\ cmd' = [cmd EXCEPT ![p].pc = "changed"]
  /\ UNCHANGED crossed

(* The statements and the ledger row, in the transaction. *)
Change(p) ==
  /\ cmd[p].pc = "begun"
  /\ IF cmd[p].up THEN CanUp(Step(p), db) /\ txn' = Up(Step(p), db)
                  ELSE CanDown(Step(p), db) /\ txn' = Down(Step(p), db)
  /\ cmd' = [cmd EXCEPT ![p].pc = "changed"]
  /\ UNCHANGED <<db, crossed>>

CommitVersion(p) ==
  /\ cmd[p].pc = "changed"
  /\ db' = txn
  /\ cmd' = [cmd EXCEPT ![p].pc = "planned", ![p].todo = @ \ {Step(p)}]
  /\ UNCHANGED <<txn, crossed>>

(* A statement fails, the lock is held too long, or the process dies: the  *)
(* transaction is rolled back and the command is over.                     *)
Abort(p) ==
  /\ cmd[p].pc # "idle"
  /\ txn' = IF cmd[p].pc \in {"begun", "changed"} THEN db ELSE txn
  /\ cmd' = [cmd EXCEPT ![p] = Idle]
  /\ UNCHANGED <<db, crossed>>

Finish(p) ==
  /\ cmd[p].pc = "planned" /\ cmd[p].todo = {}
  /\ cmd' = [cmd EXCEPT ![p] = Idle]
  /\ UNCHANGED <<db, txn, crossed>>

(* The application appends an event; with version 14 in place a trigger    *)
(* adds it to the search index.                                            *)
AppendEvent(e) ==
  /\ LockFree
  /\ "events" \in db.schema
  /\ e \notin db.events
  /\ db' = [db EXCEPT !.events = @ \union {e},
                      !.fts = IF "fts" \in db.schema THEN @ \union {e} ELSE @]
  /\ txn' = db'
  /\ UNCHANGED <<cmd, crossed>>

(* A client deletes an event, which the trigger of version 2 aborts. *)
DeleteEvent(e) ==
  /\ LockFree
  /\ e \in db.events
  /\ "appendOnly" \notin db.schema
  /\ db' = [db EXCEPT !.events = @ \ {e}]
  /\ txn' = db'
  /\ UNCHANGED <<cmd, crossed>>

MigNext ==
  \/ \E p \in Commands :
       \/ PlanUp(p) \/ (\E t \in Targets : PlanDown(p, t))
       \/ Begin(p) \/ Change(p) \/ CommitVersion(p) \/ Abort(p) \/ Finish(p)
  \/ \E e \in EventIds : AppendEvent(e) \/ DeleteEvent(e)

MigSpec == MigInit /\ [][MigNext]_migVars

(* ------------------------------ properties ----------------------------- *)

(* A version is recorded exactly if its change is in the file, whatever    *)
(* aborts half-way: the schema is the one of the versions in the ledger.   *)
SchemaMatchesLedger ==
  crossed \/ db.schema = UNION {MIGRATIONS[v].adds : v \in db.ledger}

(* The versions applied have no gap, also after upgrades that raced one    *)
(* another from the same plan.  (A command that overlaps a downgrade can   *)
(* leave one.)                                                             *)
LedgerHasNoGap == crossed \/ \A v \in db.ledger : 1..v \subseteq db.ledger

(* With the search index in place every event is in it exactly, over       *)
(* downgrades, events appended while it was gone, and upgrades again.      *)
SearchFindsEveryEvent ==
  crossed \/ ("fts" \in db.schema => db.fts = db.events)

(* What every migration leaves behind, however commands abort and race.    *)
MigrationSafety ==
  MigTypeOK /\ SchemaMatchesLedger /\ LedgerHasNoGap /\ SearchFindsEveryEvent
=============================================================================
