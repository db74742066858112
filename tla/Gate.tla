-------------------------------- MODULE Gate --------------------------------
(***************************************************************************)
(* One sqlite3 connection shared by threads: the gates that serialise its  *)
(* users (router/sqlite_gate.py), the crosswalk backfill that refuses a    *)
(* gated connection (router/crosswalk_backfill.py), and the index rebuild  *)
(* (index.py), which reads the newest version and then writes the next.    *)
(***************************************************************************)
EXTENDS Naturals, FiniteSets

CONSTANTS Gates,         \* gates that may be put on the connection, each once
          Threads,       \* threads that run statements through a gate
          Builders,      \* calls of rebuild_index, each on its own connection
          BatchLimit,    \* rows a backfill examines at most
          MaxRows        \* bound: rows of the user's corpus

ASSUME GateAssumption == BatchLimit \in Nat /\ MaxRows \in Nat

VARIABLES made,      \* gates constructed so far
          live,      \* gates that some object still holds
          registry,  \* {} or {the gate is_connection_gated looks at}
          thr,       \* thr[t]: [pc, gate]
          bf,        \* the backfill: [pc, todo, seen, snap, start, ok]
          corpus,    \* the user's rows, <<kind, created_at, arrival>>
          mapped,    \* committed rows of the crosswalk
          fresh,     \* rows the backfill has inserted and not committed
          versions,  \* index_state: version -> the builder that wrote the row
          bld,       \* bld[b]: [pc, version, met]; met: who was building meanwhile
          strange    \* history: what no lock or check orders

gateVars == <<made, live, registry, thr, bf, corpus, mapped, fresh, versions, bld, strange>>
useVars == <<made, live, registry, thr>>
bfVars == <<bf, corpus, mapped, fresh>>
idxVars == <<versions, bld>>

Kinds == {"memory", "claim"}
Rows == Kinds \X (1..MaxRows) \X (1..MaxRows)
OfKind(S, kind) == {r \in S : r[1] = kind}

Holder(g) == {t \in Threads : thr[t].pc = "inside" /\ thr[t].gate = g}

Scanning == bf.pc \in {"memory", "claim"}

(* Who is inside the sqlite library with this connection. *)
UsersOfConn == {t \in Threads : thr[t].pc = "inside"}
                 \union (IF Scanning THEN {"backfill"} ELSE {})

GateTypeOK ==
  /\ registry \subseteq live /\ live \subseteq made /\ made \subseteq Gates /\ Cardinality(registry) <= 1
  /\ \A t \in Threads : thr[t].pc \in {"idle", "wait", "inside"}
  /\ bf.pc \in {"idle", "checked", "done"} \union Kinds
  /\ mapped \subseteq corpus /\ fresh \subseteq corpus \ mapped
  /\ corpus \subseteq Rows

IdleBackfill ==
  [pc |-> "idle", todo |-> {}, seen |-> 0, snap |-> {}, start |-> {}, ok |-> FALSE]

UseInit ==
  /\ made = {} /\ live = {} /\ registry = {}
  /\ thr = [t \in Threads |-> [pc |-> "idle", gate |-> "none"]]
  /\ bf = IdleBackfill
  /\ corpus = {} /\ mapped = {} /\ fresh = {}
  /\ strange = {}

IndexInit ==
  /\ versions = [v \in {} |-> 0]
  /\ bld = [b \in Builders |-> [pc |-> "idle", version |-> 0, met |-> {}]]

GateInit == UseInit /\ IndexInit

(* SQLiteGate(conn): the newest gate takes the registry entry, also of a   *)
(* gate that is alive.                                                     *)
MakeGate(g) ==
  /\ g \notin made
  /\ made' = made \union {g}
  /\ live' = live \union {g}
  /\ registry' = {g}
  /\ strange' = strange
       \union (IF live # {} THEN {"two gates"} ELSE {})
       \union (IF bf.pc = "checked" \/ Scanning THEN {"gated late"} ELSE {})
  /\ UNCHANGED <<thr, bfVars, idxVars>>

(* The weak reference dies with the gate; nothing brings an older one back.*)
CollectGate(g) ==
  /\ g \in live /\ \A t \in Threads : thr[t].gate # g
  /\ live' = live \ {g}
  /\ registry' = registry \ {g}
  /\ UNCHANGED <<made, thr, bfVars, idxVars, strange>>

(* _execute_op, _db_file and the checkpoint thread: a statement waits for  *)
(* the gate's lock and runs, fetches and closes its cursor inside it.      *)
Ask(t, g) ==
  /\ thr[t].pc = "idle" /\ g \in live
  /\ thr' = [thr EXCEPT ![t] = [pc |-> "wait", gate |-> g]]
  /\ UNCHANGED <<made, live, registry, bfVars, idxVars, strange>>

Enter(t) ==
  /\ thr[t].pc = "wait" /\ Holder(thr[t].gate) = {}
  /\ thr' = [thr EXCEPT ![t].pc = "inside"]
  /\ UNCHANGED <<made, live, registry, bfVars, idxVars, strange>>

Leave(t) ==
  /\ thr[t].pc = "inside"
  /\ thr' = [thr EXCEPT ![t] = [pc |-> "idle", gate |-> "none"]]
  /\ UNCHANGED <<made, live, registry, bfVars, idxVars, strange>>

(* --------------------------- crosswalk backfill ------------------------ *)

is_connection_gated == registry # {}

\* Mutant: the backfill does not ask whether the connection has a gate.
CheckGateNot ==
  /\ bf.pc = "idle"
  /\ bf' = [IdleBackfill EXCEPT !.pc = "checked"]
  /\ UNCHANGED <<useVars, corpus, mapped, fresh, idxVars, strange>>

CheckGate ==
  /\ bf.pc = "idle" /\ ~is_connection_gated
  /\ bf' = [IdleBackfill EXCEPT !.pc = "checked"]
  /\ UNCHANGED <<useVars, corpus, mapped, fresh, idxVars, strange>>

(* One SELECT reads the memories and, when they are all done, a second one *)
(* the claims: two statements, two snapshots.                              *)
ReadRows(kind) ==
  bf' = [bf EXCEPT !.pc = kind, !.todo = OfKind(corpus, kind), !.snap = corpus,
                   !.start = IF kind = "memory" THEN corpus ELSE @]

StartScan ==
  /\ \/ bf.pc = "checked" /\ ReadRows("memory")
     \/ bf.pc = "memory" /\ bf.todo = {} /\ ReadRows("claim")
  /\ UNCHANGED <<useVars, corpus, mapped, fresh, idxVars, strange>>

(* ORDER BY created_at, which is not the order of the commits. *)
Oldest == CHOOSE r \in bf.todo : \A s \in bf.todo : r[2] <= s[2]

(* Every row counts against the limit, the ones already mapped too.  The   *)
(* first INSERT takes the write lock while the SELECT is open, and fails   *)
(* when somebody has committed since that SELECT's snapshot.               *)
ScanRow ==
  /\ Scanning /\ bf.todo # {} /\ bf.seen < BatchLimit
  /\ bf.seen = 0 => corpus = bf.snap
  /\ bf' = [bf EXCEPT !.todo = @ \ {Oldest}, !.seen = @ + 1]
  /\ fresh' = fresh \union ({Oldest} \ mapped)
  /\ UNCHANGED <<useVars, corpus, mapped, idxVars, strange>>

EndScan ==
  /\ \/ bf.pc = "claim" /\ bf.todo = {}
     \/ Scanning /\ bf.todo # {} /\ bf.seen >= BatchLimit
  /\ bf' = [bf EXCEPT !.pc = "done", !.ok = bf.todo = {}]
  /\ UNCHANGED <<useVars, corpus, mapped, fresh, idxVars, strange>>

(* The caller commits, or the backfill fails or dies before that and its   *)
(* transaction is rolled back.                                             *)
CommitScan ==
  /\ bf.pc = "done"
  /\ mapped' = mapped \union fresh /\ fresh' = {}
  /\ bf' = [IdleBackfill EXCEPT !.ok = bf.ok, !.start = bf.start]
  /\ UNCHANGED <<useVars, corpus, idxVars, strange>>

LoseScan ==
  /\ bf.pc # "idle"
  /\ fresh' = {} /\ bf' = IdleBackfill
  /\ UNCHANGED <<useVars, corpus, mapped, idxVars, strange>>

(* An ingest on another connection, whose created_at was read before it    *)
(* waited for the write lock.  From its first INSERT to the commit the     *)
(* backfill holds that lock.                                               *)
AddRow ==
  /\ bf.seen = 0 /\ Cardinality(corpus) < MaxRows
  /\ \E kind \in Kinds, stamp \in 1..MaxRows :
       /\ \A s \in corpus : s[2] # stamp
       /\ corpus' = corpus \union {<<kind, stamp, Cardinality(corpus) + 1>>}
  /\ UNCHANGED <<useVars, bf, mapped, fresh, idxVars, strange>>

(* ------------------------------ index state ---------------------------- *)

Newest == CHOOSE v \in {0} \union DOMAIN versions : \A w \in DOMAIN versions : w <= v

Building(b) == bld[b].pc = "build"

(* The version is chosen before the transaction, so builders can meet. *)
StartBuild(b, version) ==
  bld' = [c \in Builders |->
            IF c = b THEN [pc |-> "build", version |-> version, met |-> {d \in Builders : Building(d)}]
            ELSE IF Building(c) THEN [bld[c] EXCEPT !.met = @ \union {b}] ELSE bld[c]]

\* Mutant: the newest version is written again.
ReadNewestReused(b) ==
  /\ bld[b].pc = "idle" /\ StartBuild(b, Newest)
  /\ UNCHANGED <<useVars, bfVars, versions, strange>>

ReadNewest(b) ==
  /\ bld[b].pc = "idle" /\ StartBuild(b, Newest + 1)
  /\ UNCHANGED <<useVars, bfVars, versions, strange>>

(* INSERT OR REPLACE of (index_name, version), committed. *)
WriteVersion(b) ==
  /\ Building(b)
  /\ versions' = [v \in DOMAIN versions \union {bld[b].version} |->
                    IF v = bld[b].version THEN b ELSE versions[v]]
  /\ bld' = [bld EXCEPT ![b].pc = "built"]
  /\ UNCHANGED <<useVars, bfVars, strange>>

GateNext ==
  \/ \E g \in Gates : MakeGate(g) \/ CollectGate(g)
  \/ \E t \in Threads : Enter(t) \/ Leave(t) \/ \E g \in Gates : Ask(t, g)
  \/ CheckGate \/ StartScan \/ ScanRow \/ EndScan \/ CommitScan \/ LoseScan \/ AddRow

IndexNext == \E b \in Builders : ReadNewest(b) \/ WriteVersion(b)

GateSpec == GateInit /\ [][GateNext \/ IndexNext]_gateVars

(* ------------------------------ properties ----------------------------- *)

(* The connection is never used by two threads, which can crash the C      *)
(* library, unless a second gate (with a lock of its own) was put on it or *)
(* a gate was made after the backfill had looked for one.                  *)
ConnectionUsedAlone ==
  Cardinality(UsersOfConn) > 1 => {"two gates", "gated late"} \intersect strange # {}

(* A backfill that reports the limit was not reached, and was committed,   *)
(* has mapped every row that was there when it began, whatever arrives     *)
(* between its two SELECTs; a crashed one has left nothing behind.         *)
CompleteBackfillMapsAll ==
  bf.pc = "idle" => fresh = {} /\ (bf.ok => bf.start \subseteq mapped)

(* Every row counts against the limit, so the rows beyond it are reached   *)
(* by no number of runs: a row that arrived after BatchLimit older rows of *)
(* its kind is never mapped.                                               *)
BackfillStopsAtLimit ==
  \A r \in mapped :
    Cardinality({s \in OfKind(corpus, r[1]) : s[2] < r[2] /\ s[3] < r[3]}) < BatchLimit

(* A version that rebuild_index returned stays in the table: as its builder*)
(* wrote it, or as written by a builder that met that very one, each having*)
(* read the newest version before the other's row was there.               *)
RebuildsAreKept ==
  \A b \in Builders : bld[b].pc = "built" =>
    bld[b].version \in DOMAIN versions /\ versions[bld[b].version] \in {b} \union bld[b].met

(* index.py:15-16: "each call appends a new index_state row at version =   *)
(* MAX(version) + 1": as many rows as calls that returned.                 *)
EachRebuildAppends ==
  Cardinality(DOMAIN versions) = Cardinality({b \in Builders : bld[b].pc = "built"})

(* What the crosswalk backfill and the index builder promise.              *)
BuilderSafety ==
  GateTypeOK /\ CompleteBackfillMapsAll /\ BackfillStopsAtLimit /\ RebuildsAreKept
=============================================================================
