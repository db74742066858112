----------------------------- MODULE KernelReplay -----------------------------
(***************************************************************************)
(* parallax.replay over the tables of KernelStore: replay_events rebuilds  *)
(* memories and claims from the events table into another database.  The   *)
(* rebuild is a function of the event log, so that its promises are state  *)
(* predicates of KernelStore: they say, at every moment of every           *)
(* interleaving of API calls, what a rebuild started now would return.     *)
(***************************************************************************)
EXTENDS KernelStore

\* ORDER BY created_at ASC, event_id ASC.
Before(e, f) == e.at < f.at \/ (e.at = f.at /\ e.minted < f.minted)

\* Mutant: INSERT OR REPLACE instead of INSERT OR IGNORE.
InsertRowOfReplacing(db, e) ==
    [i \in DOMAIN db \cup {e.target} |->
        IF i = e.target THEN [state |-> e.to, updatedAt |-> e.updatedAt] ELSE db[i]]

\* insert_memory / insert_claim of a created event's payload: the columns that
\* never change are those of the live row, the first insert of an id wins.
InsertRowOf(db, e) ==
    [i \in DOMAIN db \cup {e.target} |->
        IF i \in DOMAIN db THEN db[i] ELSE [state |-> e.to, updatedAt |-> e.updatedAt]]

\* UPDATE claims SET state, updated_at WHERE claim_id: nothing for a missing row.
UpdateRowOf(db, e) ==
    [i \in DOMAIN db |->
        IF i = e.target THEN [state |-> e.to, updatedAt |-> e.updatedAt] ELSE db[i]]

\* One event applied to the target database, whose sources table is a copy of
\* this one's.  A row whose source is missing breaks the foreign key: the
\* exception ends the replay, and what was committed so far remains.
Apply(t, e) ==
    IF t.raised THEN t
    ELSE CASE e.type = "created" /\ sources[rows[e.target].source] # NoUser ->
                [t EXCEPT !.db = InsertRowOf(t.db, e)]
           [] e.type = "created" /\ sources[rows[e.target].source] = NoUser ->
                [t EXCEPT !.raised = TRUE]
           [] e.type = "state_changed" -> [t EXCEPT !.db = UpdateRowOf(t.db, e)]
           [] OTHER -> t

\* The event of L that the cursor returns last.
Latest(L) == CHOOSE e \in L : \A f \in L \ {e} : Before(f, e)

\* The target database after replay_events has streamed the events L into empty
\* memories and claims, and whether an exception ended it.
Replayed[L \in SUBSET events] ==
    IF L = {} THEN [db |-> [i \in {} |-> NoJob], raised |-> FALSE]
    ELSE Apply(Replayed[L \ {Latest(L)}], Latest(L))

Rebuilt == Replayed[events].db

Live == [i \in Ids |-> [state |-> rows[i].state, updatedAt |-> rows[i].updatedAt]]

Quiescent == \A c \in Clients : pc[c] = "idle"

\* Every created event of the claim sorts after its last state change: another
\* call changed the claim between the ingest's second and third transaction.
Overtaken(i) ==
    /\ Changes(i) # {}
    /\ \A e \in events : e.type = "created" /\ e.target = i =>
           \A f \in Changes(i) : Before(f, e)

------------------------------------------------------------------------------
\* The rebuild of a row whose created event was written, and not overtaken, is
\* the row, updated_at included (replay_events), whatever duplicate created
\* events backfills left in the log.
ReplayFaithful ==
    \A i \in Ids : HasCreated(i) /\ ~Overtaken(i) => i \in DOMAIN Rebuilt /\ Rebuilt[i] = Live[i]

\* A row repaired by backfill_creation_events is rebuilt as it is now, even
\* when its state changed before, while or after the backfill ran, because the
\* synthesized event carries the row's created_at.
BackfillRepairsReplay ==
    \A e \in events : e.actor = "backfill" =>
        e.target \in DOMAIN Rebuilt /\ Rebuilt[e.target] = Live[e.target]

\* What is missing from a rebuild is what crashed or running ingests did not
\* log; a rebuild never contains a row that the store does not have.
RebuildLosesOnlyUnlogged ==
    /\ DOMAIN Rebuilt \subseteq Ids
    /\ \A i \in Ids \ DOMAIN Rebuilt :
           \E c \in Clients : /\ pc[c] \in {"select", "created", "down"}
                              /\ job[c].op = "ingest" /\ job[c].id = i

\* What a rebuild evaluated at any moment can be relied on for.
RebuildIsFaithful == ReplayFaithful /\ BackfillRepairsReplay /\ RebuildLosesOnlyUnlogged

\* replay.py promises that the log is sufficient to rebuild claims and
\* memories bit for bit, here whenever no call is running.
LogIsSufficient == Quiescent => Rebuilt = Live
=============================================================================
