---------------------------- MODULE MCMaintenance ----------------------------
(***************************************************************************)
(* The parts that maintain the database file and its neighbours, each with *)
(* its own variables.  They share nothing here, so only one of them moves  *)
(* in a behaviour: the others stay in their initial state, and the state   *)
(* spaces add up instead of multiplying.                                   *)
(***************************************************************************)
EXTENDS Migrations, WalQueue, Backup, Gate, Packages, TLC

CONSTANTS f1, f2, good1, good2, bad, untrusted, s1, s2, p1, p2

MCClaimSubjects ==
  good1 :> {s1} @@ good2 :> {s2} @@ bad :> {s1, s2} @@ untrusted :> {s1, s2}

(* Readers and package files are interchangeable, and so are the subjects  *)
(* along with the contents that hold one of them.                          *)
Symmetry ==
  {p @@ q @@ t : p \in Permutations({p1, p2}), q \in Permutations({f1, f2}),
     t \in {s1 :> s1, s1 :> s2 @@ s2 :> s1 @@ good1 :> good2 @@ good2 :> good1}}

MCInit == MigInit /\ WalInit /\ BkInit /\ GateInit /\ PkgInit

(* The connection's part of Gate has not moved; Gate's two parts take      *)
(* turns too.                                                              *)
GateAtRest == made = {} /\ corpus = {} /\ bf = IdleBackfill

(* Bounds: upgrades that cross each other are cut (see Migrations), and a  *)
(* seq arrives at the server at most three times.  For the packages, a     *)
(* second actor only while the directory changes less, readers that overlap*)
(* before any ingest, one audited package, and nothing after a swap that   *)
(* the histories record.                                                   *)
Reading == {r \in Readers : rd[r].pc # "idle"}
Focus == /\ Cardinality(audited) <= 1
         /\ Reading = Readers => changes <= 1 /\ ing.pc = "idle" /\ audited = {}
         /\ Reading # {} /\ ing.pc # "idle" => changes <= 2
MCNext ==
  \/ /\ WalInit /\ BkInit /\ GateInit /\ PkgInit
     /\ ~crossed /\ MigNext
     /\ UNCHANGED <<walVars, bkVars, gateVars, pkgVars>>
  \/ /\ MigInit /\ BkInit /\ GateInit /\ PkgInit
     /\ (\A s \in Seqs : arrived[s] < 3) /\ WalNext
     /\ UNCHANGED <<migVars, bkVars, gateVars, pkgVars>>
  \/ /\ MigInit /\ WalInit /\ GateInit /\ PkgInit
     /\ BkNext
     /\ UNCHANGED <<migVars, walVars, gateVars, pkgVars>>
  \/ /\ MigInit /\ WalInit /\ BkInit /\ PkgInit
     /\ (IndexInit /\ GateNext) \/ (GateAtRest /\ IndexNext)
     /\ UNCHANGED <<migVars, walVars, bkVars, pkgVars>>
  \/ /\ MigInit /\ WalInit /\ BkInit /\ GateInit
     /\ ~overtaken /\ ~mixed /\ PkgNext /\ Focus'
     /\ UNCHANGED <<migVars, walVars, bkVars, gateVars>>

MCSpec == MCInit /\ [][MCNext]_<<migVars, walVars, bkVars, gateVars, pkgVars>>
=============================================================================
