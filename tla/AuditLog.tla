------------------------------ MODULE AuditLog ------------------------------
(***************************************************************************)
(* What the audit database promises its writers (apex/audit_db.py): a      *)
(* batch of rows is appended as a whole or not at all, and nothing is ever *)
(* taken back.                                                             *)
(***************************************************************************)
CONSTANT Batches         \* the batches writers may hand over: sets of rows

VARIABLE log             \* the rows committed so far

Init == log = {}

AppendBatch(b) == /\ b \intersect log = {}
                  /\ log' = log \union b

Next == \E b \in Batches : AppendBatch(b)

Spec == Init /\ [][Next]_log
=============================================================================
