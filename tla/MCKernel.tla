------------------------------ MODULE MCKernel ------------------------------
(***************************************************************************)
(* KernelStore and KernelReplay for TLC.                                   *)
(***************************************************************************)
EXTENDS KernelReplay, TLC

CONSTANTS c1, c2, c3, u1, u2, x1, s1, FewCalls

Symmetry == Permutations({c1, c2, c3})

(* Bound: two tenants with a source in common ingest, reaffirm and record  *)
(* hooks, in a few calls; or clients of one user, on sources of its own,   *)
(* ingest and change claims that are also reviewed; or they ingest, change *)
(* and backfill, and die.                                                  *)
Doing(ops) == \A c \in Clients : pc[c] \in {"idle", "down"} \/ job[c].op \in ops
Down == {c \in Clients : pc[c] = "down"}
Born(states) ==
  /\ \A e \in events : e.type = "created" /\ e.actor = "system" => e.to \in states
  /\ \A c \in Clients : job[c].op = "ingest" => job[c].state \in states

OneUser ==
  /\ \A s \in SourceIds : sources[s] # NoUser => s = Direct(u1)
  /\ \A e \in events : e.type \in {"created", "state_changed"}
Tenants ==
  /\ started <= FewCalls /\ Born({"auto", "rejected", "active"})
  /\ Down = {} /\ Doing({"ingest"}) /\ \E c \in Clients : pc[c] = "idle"
  /\ \A e \in events : e.type # "state_changed"
Reviewing ==
  /\ OneUser /\ Born({"auto", "pending", "active"})
  /\ Down = {} /\ Doing({"ingest", "change"})
Dying ==
  /\ OneUser /\ Born({"auto", "active"})
  /\ \A c \in Clients : pc[c] # "review"
Focus == Tenants \/ Reviewing \/ Dying

MCSpec == Init /\ [][Next /\ Focus']_vars
=============================================================================
