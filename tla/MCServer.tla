------------------------------ MODULE MCServer ------------------------------
EXTENDS Server, TLC
CONSTANTS i1, i2, q1, q2, r1, r2, r3
MCBatches == {{r1, r2}, {r3}}

(* A bound: two instances overlap in behaviours without audit writes; the  *)
(* audit writes are made by one instance and its successors, up to the end *)
(* of the process whose drain timed out.                                   *)
Focus == \/ \A b \in Batches : status[b] = "new"
         \/ /\ phase[i2] = "down"
            /\ timeouts = 0 \/ phase[i1] \in {"timedOut", "down"}
MCSpec == Init /\ [][Next /\ Focus']_vars /\ Fairness
=============================================================================
