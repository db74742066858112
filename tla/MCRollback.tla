------------------------------ MODULE MCRollback ------------------------------
(* Instances of Rollback for TLC.                                          *)
EXTENDS Rollback

CONSTANTS t1, t2, w1

\* One tick is the window of T2; the gate's window is twice that long.
WindowTicks == [w \in Triggers |-> 1]
=============================================================================
