---------------------------- MODULE MCIdempotency ----------------------------
(* Instances of Idempotency for TLC.                                       *)
EXTENDS Idempotency, TLC

CONSTANTS t1, t2, t3, e1, e2, o1, o2, o3

Symmetry == Permutations({t1, t2, t3})
=============================================================================
