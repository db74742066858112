------------------------------ MODULE MCDualRead ------------------------------
(* Instances of DualRead for TLC.                                          *)
EXTENDS DualRead

CONSTANTS r1, r2, r3
=============================================================================
