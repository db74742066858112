------------------------------ MODULE AuditDb ------------------------------
(***************************************************************************)
(* The audit database (apex/audit_db.py, apex/audit_writer.py): worker     *)
(* threads, each with a connection of its own, append rows in explicit     *)
(* BEGIN IMMEDIATE .. COMMIT transactions, and an envelope may be emitted  *)
(* only for a row that was committed.  A batch of one is write_audit_row,  *)
(* a larger one write_audit_rows_atomic.  Each call has rows of its own:   *)
(* their message ids are fresh.                                            *)
(***************************************************************************)
CONSTANTS Workers,       \* threads that write audit rows
          Batches        \* the rows of each call: disjoint non-empty sets

ASSUME BatchesAreFresh ==
  /\ {} \notin Batches
  /\ \A a, b \in Batches : a \intersect b # {} => a = b

VARIABLES log,      \* committed rows of the audit_row table
          conn,     \* conn[w]: "closed", "open" or "inTxn"
          staged,   \* staged[w]: rows inserted by the open transaction
          batch,    \* batch[w]: the rows the current call must write
          step,     \* step[w]: where the call stands
          schema,   \* what the file's schema version table reports
          status    \* status[b]: what became of the call that wrote b

auditVars == <<log, conn, staged, batch, step, schema, status>>

Rows == UNION Batches

AuditTypeOK ==
  /\ log \subseteq Rows
  /\ conn \in [Workers -> {"closed", "open", "inTxn"}]
  /\ staged \in [Workers -> SUBSET Rows]
  /\ batch \in [Workers -> Batches \union {{}}]
  /\ step \in [Workers -> {"idle", "asked", "inserting", "failing", "written"}]
  /\ schema \in {"fresh", "current", "other"}
  /\ status \in [Batches -> {"new", "running", "failed", "emitted", "cut"}]

AuditInit ==
  /\ log = {}
  /\ conn = [w \in Workers |-> "closed"]
  /\ staged = [w \in Workers |-> {}]
  /\ batch = [w \in Workers |-> {}]
  /\ step = [w \in Workers |-> "idle"]
  /\ schema \in {"fresh", "current", "other"}
  /\ status = [b \in Batches |-> "new"]

At(w, s) == step' = [step EXCEPT ![w] = s]
Use(w, c) == conn' = [conn EXCEPT ![w] = c]
Outcome(b, s) == status' = [status EXCEPT ![b] = s]

Done(w, s) ==
  /\ At(w, "idle")
  /\ Outcome(batch[w], s)
  /\ batch' = [batch EXCEPT ![w] = {}]

(* The call raises AuditDbWriteError, AuditDbUsageError, AuditDbConfigError*)
(* or the INSERT's own error: each is a failed read to the adapter.        *)
Fail(w) == Done(w, "failed")

(* BEGIN IMMEDIATE takes the one write lock of the file. *)
LockFree == \A w \in Workers : conn[w] # "inTxn"

(* open_audit_db: verify the version if the table exists, apply the schema,*)
(* verify it again.                                                        *)
ApplySchema == schema # "other" /\ schema' = "current"

Ask(w, b) ==
  /\ step[w] = "idle"
  /\ status[b] = "new"
  /\ At(w, "asked")
  /\ batch' = [batch EXCEPT ![w] = b]
  /\ Outcome(b, "running")
  /\ UNCHANGED <<log, conn, staged, schema>>

(* get_thread_local_audit_conn: the first call of a thread opens its       *)
(* connection, later calls reuse it.                                       *)
OpenConnection(w) ==
  /\ step[w] = "asked"
  /\ conn[w] = "closed"
  /\ ApplySchema
  /\ Use(w, "open")
  /\ UNCHANGED <<log, staged, batch, step, status>>

(* The call ends before its BEGIN: the connection cannot be opened; it     *)
(* still has a transaction open (AuditDbUsageError); or the lock is held   *)
(* past the busy timeout, by a worker or by another process.               *)
Refuse(w) ==
  /\ step[w] = "asked"
  /\ Fail(w)
  /\ UNCHANGED <<log, conn, staged, schema>>

Begin(w) ==
  /\ step[w] = "asked"
  /\ conn[w] = "open"
  /\ LockFree
  /\ Use(w, "inTxn")
  /\ At(w, "inserting")
  /\ UNCHANGED <<log, staged, batch, schema, status>>

\* Mutant: the INSERT is outside an explicit transaction and commits itself.
InsertAutocommit(w) ==
  /\ step[w] = "inserting"
  /\ \E r \in batch[w] \ staged[w] :
       /\ staged' = [staged EXCEPT ![w] = @ \union {r}]
       /\ log' = log \union {r}
  /\ UNCHANGED <<conn, batch, step, schema, status>>

Insert(w) ==
  /\ step[w] = "inserting"
  /\ \E r \in batch[w] \ staged[w] :
       staged' = [staged EXCEPT ![w] = @ \union {r}]
  /\ UNCHANGED <<log, conn, batch, step, schema, status>>

(* The row does not validate, or the INSERT or the COMMIT raises. *)
WriteFails(w) ==
  /\ step[w] = "inserting"
  /\ At(w, "failing")
  /\ UNCHANGED <<log, conn, staged, batch, schema, status>>

Commit(w) ==
  /\ step[w] = "inserting"
  /\ staged[w] = batch[w]
  /\ log' = log \union staged[w]
  /\ staged' = [staged EXCEPT ![w] = {}]
  /\ Use(w, "open")
  /\ At(w, "written")
  /\ UNCHANGED <<batch, schema, status>>

Rollback(w) ==
  /\ step[w] = "failing"
  /\ staged' = [staged EXCEPT ![w] = {}]
  /\ Use(w, "open")
  /\ Fail(w)
  /\ UNCHANGED <<log, schema>>

(* The ROLLBACK itself raises and is logged: the transaction stays open on *)
(* the thread's connection.                                                *)
RollbackFails(w) ==
  /\ step[w] = "failing"
  /\ Fail(w)
  /\ UNCHANGED <<log, conn, staged, schema>>

\* Mutant: the envelope does not wait for the COMMIT.
EmitBeforeCommit(w) ==
  /\ step[w] \in {"inserting", "written"}
  /\ \E s \in {"emitted", "cut"} : Done(w, s)
  /\ UNCHANGED <<log, conn, staged, schema>>

(* assert_audit_row_committed, then the envelope with the row's hash; or   *)
(* the envelope does not validate and the committed row stays without one. *)
Emit(w) ==
  /\ step[w] = "written"
  /\ \E s \in {"emitted", "cut"} : Done(w, s)
  /\ UNCHANGED <<log, conn, staged, schema>>

WriteStep(w) ==
  \/ OpenConnection(w) \/ Refuse(w) \/ Begin(w) \/ Insert(w)
  \/ WriteFails(w) \/ Commit(w) \/ Rollback(w) \/ RollbackFails(w) \/ Emit(w)

(* Threads end, with their process or alone: their connections are closed, *)
(* which rolls back what they had open.                                    *)
CloseThreads(W) ==
  /\ conn' = [w \in Workers |-> IF w \in W THEN "closed" ELSE conn[w]]
  /\ staged' = [w \in Workers |-> IF w \in W THEN {} ELSE staged[w]]
  /\ step' = [w \in Workers |-> IF w \in W THEN "idle" ELSE step[w]]
  /\ batch' = [w \in Workers |-> IF w \in W THEN {} ELSE batch[w]]
  /\ status' = [b \in Batches |->
       IF \E w \in W : step[w] # "idle" /\ batch[w] = b THEN "cut" ELSE status[b]]
  /\ UNCHANGED <<log, schema>>

ThreadEnds(w) == step[w] = "idle" /\ CloseThreads({w})

(* ------------------------------ properties ----------------------------- *)

(* A package's rows are committed together: whatever fails in the middle   *)
(* of write_audit_rows_atomic, on whichever connection, the table never    *)
(* holds a part of a batch.                                                *)
BatchesAreWhole == \A b \in Batches : b \subseteq log \/ b \intersect log = {}

(* An envelope's audit_db_ref names a row that is in the database, whatever*)
(* crashed or was rolled back since (the write-order invariant).           *)
EnvelopeHasRow == \A b \in Batches : status[b] = "emitted" => b \subseteq log

(* A write that was reported as failed left no row: neither at once, nor   *)
(* later, through a transaction that its failed ROLLBACK left open on the  *)
(* thread's cached connection and that a later call committed.             *)
FailedWriteLeavesNothing ==
  \A b \in Batches : status[b] = "failed" => b \intersect log = {}

(* The table only ever changes as the abstract log does. *)
Abstract == INSTANCE AuditLog WITH log <- log, Batches <- Batches
ImplementsAuditLog == Abstract!Spec

(* What the writers may rely on, and that the write lock has one holder,   *)
(* also while a failed ROLLBACK keeps it.                                  *)
AuditSafety ==
  /\ AuditTypeOK
  /\ BatchesAreWhole /\ EnvelopeHasRow /\ FailedWriteLeavesNothing
  /\ \A v, w \in Workers : conn[v] = "inTxn" /\ conn[w] = "inTxn" => v = w
=============================================================================
