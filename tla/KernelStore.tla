----------------------------- MODULE KernelStore -----------------------------
(***************************************************************************)
(* The canonical store of Parallax: the tables sources, memories, claims   *)
(* and events, and the API calls that write them.  Every call runs on a    *)
(* SQLite connection of its own, and every "with conn:" block of           *)
(* sqlite_store.py commits by itself, so that an API call is a series of   *)
(* transactions.  One action below is one transaction, or one autocommit   *)
(* read whose result is used by a later transaction of the same call.      *)
(*                                                                         *)
(* Time is a logical clock: every call of now_iso() takes a fresh tick.    *)
(* The ULID of a row and the row's created_at are minted in the same step, *)
(* so that the tick is the row's id.  The ULID of an event is the tick     *)
(* "minted"; "at" is the event's created_at column.                        *)
(***************************************************************************)
EXTENDS Naturals, FiniteSets

CONSTANTS
    Clients,          \* connections that call the API
    Users,            \* user_id values
    Contents,         \* the hashed payload of a row (title, summary, ...)
    ExternalSources,  \* source_id values that callers supply
    NoUser,           \* "no owner yet"
    Calls,            \* the API calls that the clients of this instance make
    IngestStates,     \* states, valid or not, that callers of ingest_claim pass
    MayCrash,         \* whether a client may die between two transactions
    MaxCalls          \* bound: API calls started in a behaviour

CallNames == {"ingest", "transition", "review", "reaffirm", "hook", "backfill"}

ClaimStates == {"auto", "pending", "confirmed", "rejected"}

\* The synthetic source of a user's direct ingests.
Direct(u) == <<"direct", u>>

\* Sources that callers name are outside the reserved namespace "direct:".
ASSUME StoreAssumption ==
    /\ NoUser \notin Users
    /\ \A u \in Users : Direct(u) \notin ExternalSources
    /\ Calls \subseteq CallNames
    /\ MayCrash \in BOOLEAN
    /\ MaxCalls \in Nat

Kinds == {"memory", "claim"}
SourceIds == ExternalSources \cup {Direct(u) : u \in Users}

\* Mutant: a rejected claim can be confirmed again.
ClaimTransitionsReopened ==
    [auto |-> ClaimStates, pending |-> ClaimStates \ {"auto"},
     confirmed |-> {"confirmed", "rejected"}, rejected |-> {"confirmed"}]

\* The state matrix of claims.
ClaimTransitions ==
    [auto      |-> ClaimStates,
     pending   |-> {"pending", "confirmed", "rejected"},
     confirmed |-> {"confirmed", "rejected"},
     rejected  |-> {}]

RowStates == ClaimStates \cup {"active"}
NoState == "none"
NoTarget == 0

\* A row of memories or claims, without the columns that no statement updates
\* after the insert and no property reads.
Row == [kind : Kinds, user : Users, source : SourceIds, content : Contents,
        state : RowStates, updatedAt : Nat]

\* "from", "to" and "updatedAt" are the payload of a state_changed event.  A
\* created event carries the whole row: its "to" and "updatedAt" are the
\* row's state and updated_at, the only columns that ever change.
Event == [type : {"created", "state_changed", "reaffirmed", "hook"},
          actor : {"system", "backfill"}, user : Users, target : Nat,
          from : RowStates \cup {NoState}, to : RowStates \cup {NoState},
          updatedAt : Nat, at : Nat, minted : Nat]

VARIABLES
    sources,  \* registrant of a source row, NoUser while there is no row
    rows,     \* id -> row: the tables memories and claims
    events,   \* the append-only table events
    clock,    \* the next tick of now_iso()
    pc,       \* where each client stands inside its call
    job,      \* the local variables of that call
    started   \* number of calls started (bound)

vars == <<sources, rows, events, clock, pc, job, started>>

Ids == DOMAIN rows
NoJob == [op |-> "none"]

Init ==
    /\ sources = [s \in SourceIds |-> NoUser]
    /\ rows = [i \in {} |-> NoJob]
    /\ events = {}
    /\ clock = 1
    /\ pc = [c \in Clients |-> "idle"]
    /\ job = [c \in Clients |-> NoJob]
    /\ started = 0

------------------------------------------------------------------------------
(* Calls, and the events they append.                                      *)

\* An idle client starts an API call.
Start(c, call) ==
    /\ pc[c] = "idle"
    /\ call \in Calls
    /\ started < MaxCalls
    /\ started' = started + 1

\* The call goes on at step s with local variables j.
Continue(c, s, j) ==
    /\ pc' = [pc EXCEPT ![c] = s]
    /\ job' = [job EXCEPT ![c] = j]

\* The call returns or raises.
Return(c) == Continue(c, "idle", NoJob)

\* An event of user u about row i, minted and stamped at tick t.
EventAt(t, type, u, i, from, to, upd) ==
    [type |-> type, actor |-> "system", user |-> u, target |-> i, from |-> from,
     to |-> to, updatedAt |-> upd, at |-> t, minted |-> t]

\* Mutant: the owner of the target row is not compared.
TargetRefExistsForAnyUser(u, i) == i \in Ids

\* Orphan rejection: the target exists and belongs to the event's user.
TargetRefExists(u, i) == i \in Ids /\ rows[i].user = u

\* record_event for an event that changes no row.
RecordAudit(type, u, i) ==
    /\ TargetRefExists(u, i)
    /\ events' = events \cup {EventAt(clock, type, u, i, NoState, NoState, 0)}
    /\ clock' = clock + 1

------------------------------------------------------------------------------
(* ingest_memory_with_status and ingest_claim_with_status.                 *)

IngestJob == [op : {"ingest"}, user : Users, kind : Kinds, source : SourceIds,
              content : Contents, state : RowStates, id : Nat, at : Nat]

\* "direct:<user>" sources are reserved for their user.
SourceAllowed(u, s) == s \in ExternalSources \/ s = Direct(u)

\* Memories start active; ingest_claim rejects an unregistered state.
StateAllowed(k, st) == IF k = "memory" THEN st = "active" ELSE st \in ClaimStates

\* First transaction: INSERT OR IGNORE of the source the foreign key needs.
EnsureSource(c, u, k, s, x, st) ==
    /\ Start(c, "ingest")
    /\ SourceAllowed(u, s)
    /\ StateAllowed(k, st)
    /\ sources' = IF sources[s] = NoUser THEN [sources EXCEPT ![s] = u] ELSE sources
    /\ Continue(c, "insert", [op |-> "ingest", user |-> u, kind |-> k, source |-> s,
                              content |-> x, state |-> st, id |-> 0, at |-> 0])
    /\ UNCHANGED <<rows, events, clock>>

\* Mutant: the source is a column of the unique index of memories, too.
SameKeyPerSource(r, s) ==
    /\ r.kind = s.kind
    /\ r.user = s.user
    /\ r.content = s.content
    /\ r.source = s.source

\* UNIQUE(content_hash, user_id) on memories, and
\* UNIQUE(content_hash, source_id, user_id) on claims.
SameKey(r, s) ==
    /\ r.kind = s.kind
    /\ r.user = s.user
    /\ r.content = s.content
    /\ r.kind = "claim" => r.source = s.source

\* The persisted row with the key of r, if there is one.
Persisted(r) == {i \in Ids : SameKey(rows[i], r)}

RowOf(j, t) == [kind |-> j.kind, user |-> j.user, source |-> j.source,
                content |-> j.content, state |-> j.state, updatedAt |-> t]

\* Second transaction: INSERT OR IGNORE of the candidate row.  The local id
\* stays 0 when the candidate's ULID is dropped.
InsertRow(c) ==
    LET j == job[c] IN
    /\ pc[c] = "insert"
    /\ IF Persisted(j) = {}
       THEN /\ rows' = [i \in Ids \cup {clock} |-> IF i = clock THEN RowOf(j, clock) ELSE rows[i]]
            /\ Continue(c, "select", [j EXCEPT !.id = clock])
       ELSE /\ rows' = rows
            /\ Continue(c, "select", j)
    /\ clock' = clock + 1
    /\ UNCHANGED <<sources, events, started>>

\* Mutant: a call is taken for a duplicate when its content was there when it
\* looked, whoever inserted it.
DedupedByPresence(c) == pc[c] = "select" /\ Persisted(job[c]) # {}

\* The re-select finds a row that another call inserted.
Deduped(c) == pc[c] = "select" /\ job[c].id = 0

\* A deduplicated memory: record_memory_reaffirmed, then return.
ReaffirmMemory(c) ==
    /\ Deduped(c)
    /\ job[c].kind = "memory"
    /\ \E i \in Persisted(job[c]) : RecordAudit("reaffirmed", job[c].user, i)
    /\ Return(c)
    /\ UNCHANGED <<sources, rows, started>>

\* A deduplicated claim: return without an event.
ReturnDedupedClaim(c) ==
    /\ Deduped(c)
    /\ job[c].kind = "claim"
    /\ Return(c)
    /\ UNCHANGED <<sources, rows, events, clock, started>>

\* First write: record_event checks the target and stamps the created event.
StampCreated(c) ==
    LET j == job[c] IN
    /\ pc[c] = "select"
    /\ ~Deduped(c)
    /\ TargetRefExists(j.user, j.id)
    /\ Continue(c, "created", [j EXCEPT !.at = clock])
    /\ clock' = clock + 1
    /\ UNCHANGED <<sources, rows, events, started>>

\* Third transaction: the created event, with the candidate as its payload.
AppendCreated(c) ==
    LET j == job[c] IN
    /\ pc[c] = "created"
    /\ events' = events \cup {EventAt(j.at, "created", j.user, j.id, NoState, j.state, j.id)}
    /\ Return(c)
    /\ UNCHANGED <<sources, rows, clock, started>>

------------------------------------------------------------------------------
(* State changes of claims: transition_claim_state, review.approve and     *)
(* review.reject.                                                          *)

ChangeJob == [op : {"change"}, id : Nat, from : ClaimStates, to : ClaimStates, at : Nat]

IsClaim(i) == i \in Ids /\ rows[i].kind = "claim"

\* transition_claim_state: the autocommit SELECT and the checks on its result.
ReadClaim(c, i, to, expected) ==
    /\ Start(c, "transition")
    /\ IsClaim(i)
    /\ expected \in {NoUser, rows[i].user}
    /\ to \in ClaimTransitions[rows[i].state]
    /\ Continue(c, "update", [op |-> "change", id |-> i, from |-> rows[i].state, to |-> to, at |-> 0])
    /\ UNCHANGED <<sources, rows, events, clock>>

\* review._transition: updated_at is computed before the transaction.
StampReview(c, i, to) ==
    /\ Start(c, "review")
    /\ IsClaim(i)
    /\ Continue(c, "review", [op |-> "change", id |-> i, from |-> "pending", to |-> to, at |-> clock])
    /\ clock' = clock + 1
    /\ UNCHANGED <<sources, rows, events>>

\* Mutant: the UPDATE does not compare the state.
UpdateMatchesAnyState(j) == TRUE

\* "WHERE claim_id = ? AND state = ?" finds the row.
UpdateMatches(j) == rows[j.id].state = j.from

\* Mutant: the event carries updated_at, computed before the write lock was
\* taken, as its created_at.
ChangeStateStampedEarly(j, upd, t) ==
    /\ rows' = [rows EXCEPT ![j.id].state = j.to, ![j.id].updatedAt = upd]
    /\ events' = events \cup {EventAt(upd, "state_changed", rows[j.id].user, j.id, j.from, j.to, upd)}

\* The write transaction of a state change: the row, updated at tick upd, and
\* its state_changed event, stamped at tick t.
ChangeState(j, upd, t) ==
    /\ rows' = [rows EXCEPT ![j.id].state = j.to, ![j.id].updatedAt = upd]
    /\ events' = events \cup {EventAt(t, "state_changed", rows[j.id].user, j.id, j.from, j.to, upd)}

\* transition_claim_state: it raises when a concurrent writer changed the state.
UpdateClaim(c) ==
    LET j == job[c] IN
    /\ pc[c] = "update"
    /\ IF UpdateMatches(j)
       THEN ChangeState(j, clock, clock + 1) /\ clock' = clock + 2
       ELSE UNCHANGED <<rows, events, clock>>
    /\ Return(c)
    /\ UNCHANGED <<sources, started>>

\* approve and reject: they raise when the claim is past pending.
CommitReview(c) ==
    LET j == job[c] IN
    /\ pc[c] = "review"
    /\ IF UpdateMatches(j)
       THEN ChangeState(j, j.at, clock) /\ clock' = clock + 1
       ELSE UNCHANGED <<rows, events, clock>>
    /\ Return(c)
    /\ UNCHANGED <<sources, started>>

------------------------------------------------------------------------------
(* Audit-only calls: sqlite_store.reaffirm and hooks.ingest_hook.          *)

Reaffirm(c, u, i) ==
    /\ Start(c, "reaffirm")
    /\ RecordAudit("reaffirmed", u, i)
    /\ UNCHANGED <<sources, rows, pc, job>>

\* A file edit is linked to a memory of the same user when the path is known;
\* every other hook event has no target.
IngestHook(c, u) ==
    /\ Start(c, "hook")
    /\ \/ \E i \in Ids : rows[i].kind = "memory" /\ RecordAudit("hook", u, i)
       \/ /\ events' = events \cup {EventAt(clock, "hook", u, NoTarget, NoState, NoState, 0)}
          /\ clock' = clock + 1
    /\ UNCHANGED <<sources, rows, pc, job>>

------------------------------------------------------------------------------
(* replay.backfill_creation_events.                                        *)

HasCreated(i) == \E e \in events : e.type = "created" /\ e.target = i

MissingCreated(k) == {i \in Ids : rows[i].kind = k /\ ~HasCreated(i)}

Snapshot(S) == [i \in S |-> rows[i]]

\* One created event per row read, with the row's current columns as its
\* payload and the row's created_at as its own.
Synthesized(snap) ==
    {[type |-> "created", actor |-> "backfill", user |-> snap[i].user, target |-> i,
      from |-> NoState, to |-> snap[i].state, updatedAt |-> snap[i].updatedAt,
      at |-> i, minted |-> clock] : i \in DOMAIN snap}

BackfillJob(snap, since) == [op |-> "backfill", snap |-> snap, since |-> since]

\* The SELECT of memories runs before the first INSERT opens the transaction.
\* "since" records when it ran and is read by properties only.
BackfillSelectMemories(c) ==
    LET M == MissingCreated("memory") IN
    /\ Start(c, "backfill")
    /\ Continue(c, IF M = {} THEN "selectClaims" ELSE "writeAll",
                BackfillJob(Snapshot(M), clock))
    /\ UNCHANGED <<sources, rows, events, clock>>

\* Mutant: only the first of the two loops runs.
ClaimsWithMemoriesNone == {}

\* The claims that the second loop finds inside the transaction.
ClaimsWithMemories == MissingCreated("claim")

\* With memories to write, both loops are one transaction.
BackfillWriteAll(c) ==
    /\ pc[c] = "writeAll"
    /\ events' = events \cup Synthesized(job[c].snap) \cup Synthesized(Snapshot(ClaimsWithMemories))
    /\ clock' = clock + 1
    /\ Return(c)
    /\ UNCHANGED <<sources, rows, started>>

\* Without memories to write, the SELECT of claims is an autocommit read.
BackfillSelectClaims(c) ==
    /\ pc[c] = "selectClaims"
    /\ Continue(c, "writeClaims", BackfillJob(Snapshot(MissingCreated("claim")), job[c].since))
    /\ UNCHANGED <<sources, rows, events, clock, started>>

BackfillWriteClaims(c) ==
    /\ pc[c] = "writeClaims"
    /\ events' = events \cup Synthesized(job[c].snap)
    /\ clock' = clock + 1
    /\ Return(c)
    /\ UNCHANGED <<sources, rows, started>>

------------------------------------------------------------------------------
\* The process dies between two transactions; nothing committed is undone and
\* no other process finishes its call.
Crash(c) ==
    /\ MayCrash
    /\ pc[c] \notin {"idle", "down"}
    /\ pc' = [pc EXCEPT ![c] = "down"]
    /\ UNCHANGED <<sources, rows, events, clock, job, started>>

Ingest(c) ==
    \/ \E u \in Users, k \in Kinds, s \in SourceIds, x \in Contents,
          st \in IngestStates \cup {"active"} : EnsureSource(c, u, k, s, x, st)
    \/ InsertRow(c)
    \/ ReaffirmMemory(c)
    \/ ReturnDedupedClaim(c)
    \/ StampCreated(c)
    \/ AppendCreated(c)

Change(c) ==
    \/ \E i \in Ids, to \in ClaimStates, expected \in Users \cup {NoUser} : ReadClaim(c, i, to, expected)
    \/ UpdateClaim(c)
    \/ \E i \in Ids, to \in {"confirmed", "rejected"} : StampReview(c, i, to)
    \/ CommitReview(c)

AuditOnly(c) ==
    \/ \E u \in Users, i \in Ids : Reaffirm(c, u, i)
    \/ \E u \in Users : IngestHook(c, u)

Backfill(c) ==
    \/ BackfillSelectMemories(c)
    \/ BackfillWriteAll(c)
    \/ BackfillSelectClaims(c)
    \/ BackfillWriteClaims(c)

Next == \E c \in Clients : Ingest(c) \/ Change(c) \/ AuditOnly(c) \/ Backfill(c) \/ Crash(c)

Spec == Init /\ [][Next]_vars

------------------------------------------------------------------------------
(* Properties.                                                             *)

Steps == {"idle", "insert", "select", "created", "update", "review",
          "writeAll", "selectClaims", "writeClaims", "down"}

\* The tables and the locals of every call hold values of their types; in
\* particular a claim never carries a state that is not registered.
TypeOK ==
    /\ sources \in [SourceIds -> Users \cup {NoUser}]
    /\ clock \in Nat /\ started \in Nat
    /\ Ids \subseteq 1 .. clock - 1
    /\ \A i \in Ids : rows[i] \in Row /\ (rows[i].state = "active" <=> rows[i].kind = "memory")
    /\ events \subseteq Event
    /\ pc \in [Clients -> Steps]
    /\ DOMAIN job = Clients
    /\ \A c \in Clients :
        /\ pc[c] \in {"insert", "select", "created"} => job[c] \in IngestJob
        /\ pc[c] \in {"update", "review"} => job[c] \in ChangeJob

\* Concurrent ingests of one content leave one row: per user for memories,
\* per user and source for claims (INSERT OR IGNORE on the unique indexes).
ContentIsUnique ==
    \A i, j \in Ids :
        /\ rows[i].kind = rows[j].kind
        /\ rows[i].user = rows[j].user
        /\ rows[i].content = rows[j].content
        /\ rows[i].kind = "claim" => rows[i].source = rows[j].source
        => i = j

\* An event never refers to a missing row or to a row of another user
\* (record_event's orphan rejection, whoever records the event and when).
NoOrphanEvents ==
    \A e \in events : e.target # NoTarget => e.target \in Ids /\ rows[e.target].user = e.user

\* The synthetic source of a user is never registered by somebody else, and a
\* row's foreign key always finds its source (_ensure_external_source).
SourcesReserved ==
    /\ \A u \in Users : sources[Direct(u)] \in {NoUser, u}
    /\ \A i \in Ids : sources[rows[i].source] # NoUser

\* What holds of the tables of sources, memories and claims at all times.
StoreSafety == TypeOK /\ ContentIsUnique /\ SourcesReserved

Changes(i) == {e \in events : e.type = "state_changed" /\ e.target = i}

IsLast(e, S) == e \in S /\ \A f \in S : f.at <= e.at

Follows(e, f, S) == e.at < f.at /\ ~\E g \in S : e.at < g.at /\ g.at < f.at

\* The row and the event log never disagree: the state_changed event that
\* sorts last by created_at names the state and updated_at the row has
\* (transition_claim_state's promise), whichever calls interleave.
LogAgreesWithRow ==
    \A i \in Ids : \A e \in Changes(i) :
        IsLast(e, Changes(i)) => rows[i].state = e.to /\ rows[i].updatedAt = e.updatedAt

\* The state_changed events of a claim form a chain: each starts in the state
\* in which the one before it ended, so that no writer overwrote a change it
\* had not seen.
ChangesFormAChain ==
    \A i \in Ids : \A e, f \in Changes(i) : Follows(e, f, Changes(i)) => f.from = e.to

\* The audit trail of a claim is a chain that ends in what the row says.
LogTellsChanges == LogAgreesWithRow /\ ChangesFormAChain

\* The first state_changed event starts in the state that the claim was
\* created in, as the ingesting call logged it.
ChainStartsAtBirth ==
    \A b \in events : b.type = "created" /\ b.actor = "system" =>
        /\ \A e \in Changes(b.target) : (\A f \in Changes(b.target) : e.at <= f.at) => e.from = b.to
        /\ Changes(b.target) = {} => rows[b.target].state = b.to

\* A row without a created event is one whose ingest call is still running or
\* died: no interleaving of completed calls loses the event.
OnlyCrashLosesCreated ==
    \A i \in Ids : HasCreated(i) \/
        \E c \in Clients : /\ pc[c] \in {"select", "created", "down"}
                           /\ job[c].op = "ingest"
                           /\ job[c].id = i

\* A rejected claim stays rejected, although transition_claim_state checks the
\* matrix on a state it read before its transaction.
RejectedIsFinal ==
    [][\A i \in Ids : rows[i].state = "rejected" => rows'[i].state = "rejected"]_vars

\* A backfill that returns leaves no row without a created event among those
\* that were there when it started.
BackfillIsComplete ==
    [][\A c \in Clients :
        pc[c] \in {"writeAll", "writeClaims"} /\ pc'[c] = "idle" =>
            \A i \in Ids : i < job[c].since => HasCreated(i)']_vars

=============================================================================
