-------------------------- MODULE KernelStore_proofs --------------------------
(***************************************************************************)
(* Theorems about KernelStore and KernelReplay, for any number of clients, *)
(* users, contents, sources and calls.                                     *)
(***************************************************************************)
EXTENDS KernelReplay, FiniteSetTheorems, WellFoundedInduction, TLAPS

\* What the rows and snapshots a call holds locally say about the tables when
\* the call goes on: the row it inserted or chose is still there and has the
\* same owner, a planned state change is in the matrix, a stamp lies in the
\* past.
SnapshotOK(snap) ==
    /\ DOMAIN snap \subseteq Ids
    /\ \A i \in DOMAIN snap : snap[i] \in Row /\ snap[i].user = rows[i].user

\* The locals of client c agree with the tables.
JobMatches(c) ==
    /\ pc[c] \in {"select", "created"} /\ job[c].id # 0 =>
           job[c].id \in Ids /\ rows[job[c].id].user = job[c].user
    /\ pc[c] = "insert" => job[c].id = 0
    /\ pc[c] = "created" => job[c].id # 0 /\ job[c].at < clock
    /\ pc[c] \in {"insert", "select", "created"} =>
           StateAllowed(job[c].kind, job[c].state)
    /\ pc[c] \in {"update", "review"} =>
           /\ job[c].id \in Ids
           /\ rows[job[c].id].kind = "claim"
           /\ job[c].to \in ClaimTransitions[job[c].from]
    /\ pc[c] \in {"writeAll", "selectClaims", "writeClaims"} => SnapshotOK(job[c].snap)

\* The locals of every client do.
JobsMatchTables == \A c \in Clients : JobMatches(c)

\* The clock has passed every stamp in the event log.
StampsArePast == clock > 0 /\ \A e \in events : e.at < clock

\* The inductive strengthening of TypeOK.
TypeInv == TypeOK /\ JobsMatchTables /\ StampsArePast

\* The locals of a client that does not move stay true of the tables as long as
\* rows are only added and keep their owner and kind.
LEMMA JobKept ==
  ASSUME TypeInv, NEW d \in Clients, pc'[d] = pc[d], job'[d] = job[d],
         clock' \in Nat, clock <= clock', Ids \subseteq Ids',
         \A i \in Ids : rows'[i].user = rows[i].user /\ rows'[i].kind = rows[i].kind
  PROVE  JobMatches(d)'
<1>1. JobMatches(d) /\ TypeOK
  BY DEF TypeInv, JobsMatchTables
<1>2. pc[d] \in {"insert", "select", "created"} => job[d].at \in Nat
  BY <1>1 DEF TypeOK, IngestJob
<1>3. pc[d] \in {"writeAll", "selectClaims", "writeClaims"} => SnapshotOK(job[d].snap)'
  BY <1>1 DEF SnapshotOK, JobMatches
<1>4. clock \in Nat
  BY <1>1 DEF TypeOK
<1> QED BY <1>1, <1>2, <1>3, <1>4 DEF JobMatches, StateAllowed

\* The empty database satisfies the type invariant.
LEMMA TypeInit == Init => TypeInv
<1> SUFFICES ASSUME Init PROVE TypeInv
  OBVIOUS
<1>1. TypeOK
  BY DEF Init, TypeOK, Ids, Steps
<1>2. JobsMatchTables
  BY DEF Init, JobMatches, JobsMatchTables
<1>3. StampsArePast
  BY DEF Init, StampsArePast
<1> QED
  BY <1>1, <1>2, <1>3 DEF TypeInv

\* Every transaction of every call keeps the types, the agreement between the
\* locals and the tables, and the stamps in the past.
LEMMA TypeStep == TypeInv /\ [Next]_vars => TypeInv'
<1> SUFFICES ASSUME TypeInv, [Next]_vars PROVE TypeInv'
  OBVIOUS
<1> USE DEF TypeInv
<1>1. ASSUME NEW c \in Clients, NEW u \in Users, NEW k \in Kinds, NEW s \in SourceIds,
             NEW x \in Contents, NEW st \in IngestStates \cup {"active"},
             EnsureSource(c, u, k, s, x, st)
      PROVE  TypeInv'
  <2> USE <1>1 DEF EnsureSource, Start, Continue
  <2>1. TypeOK'
    BY DEF TypeOK, Ids, Steps, IngestJob, ChangeJob, StateAllowed, RowStates, Kinds
  <2>2. JobsMatchTables'
    BY DEF JobMatches, JobsMatchTables, SnapshotOK, Ids, TypeOK
  <2>3. StampsArePast'
    BY DEF StampsArePast
  <2> QED BY <2>1, <2>2, <2>3
<1>2. ASSUME NEW c \in Clients, InsertRow(c) PROVE TypeInv'
  <2> USE <1>2 DEF Continue
  <2> DEFINE j == job[c]
  <2>0. /\ pc[c] = "insert"
        /\ j \in IngestJob
        /\ StateAllowed(j.kind, j.state)
        /\ clock' = clock + 1
        /\ UNCHANGED <<sources, events, started>>
    BY DEF TypeOK, InsertRow, JobMatches, JobsMatchTables
  <2>1. CASE Persisted(j) = {}
    <3>1. /\ rows' = [i \in Ids \cup {clock} |-> IF i = clock THEN RowOf(j, clock) ELSE rows[i]]
          /\ pc' = [pc EXCEPT ![c] = "select"]
          /\ job' = [job EXCEPT ![c] = [j EXCEPT !.id = clock]]
      BY <2>1 DEF InsertRow
    <3>2. /\ Ids' = Ids \cup {clock}
          /\ \A i \in Ids : i # clock /\ rows'[i] = rows[i]
          /\ rows'[clock] = RowOf(j, clock)
      BY <3>1 DEF Ids, TypeOK
    <3>3. /\ RowOf(j, clock) \in Row
          /\ RowOf(j, clock).user = j.user
          /\ RowOf(j, clock).state = "active" <=> RowOf(j, clock).kind = "memory"
      BY <2>0 DEF TypeOK, IngestJob, Row, RowOf, StateAllowed, ClaimStates, Kinds
    <3>4. /\ [j EXCEPT !.id = clock] \in IngestJob
          /\ [j EXCEPT !.id = clock].user = j.user
          /\ [j EXCEPT !.id = clock].id = clock
          /\ [j EXCEPT !.id = clock].kind = j.kind
          /\ [j EXCEPT !.id = clock].state = j.state
      BY <2>0 DEF TypeOK, IngestJob
    <3> HIDE DEF j
    <3>5. TypeOK'
      BY <2>0, <3>1, <3>2, <3>3, <3>4 DEF TypeOK, Steps, StampsArePast
    <3>6. JobsMatchTables'
      BY <2>0, <3>1, <3>2, <3>3, <3>4 DEF TypeOK, JobMatches, JobsMatchTables, SnapshotOK, IngestJob
    <3>7. StampsArePast'
      BY <2>0 DEF StampsArePast, TypeOK, Event
    <3> QED BY <3>5, <3>6, <3>7
  <2>2. CASE Persisted(j) # {}
    <3>1. rows' = rows /\ pc' = [pc EXCEPT ![c] = "select"] /\ job' = [job EXCEPT ![c] = j]
      BY <2>2 DEF InsertRow
    <3>2. /\ \A d \in Clients : job'[d] = job[d] /\ (d # c => pc'[d] = pc[d])
          /\ pc'[c] = "select"
      BY <3>1 DEF TypeOK
    <3> HIDE DEF j
    <3>5. TypeOK'
      BY <2>0, <3>1, <3>2 DEF TypeOK, Steps, Ids
    <3>6. JobsMatchTables'
      <4> SUFFICES ASSUME NEW d \in Clients PROVE JobMatches(d)'
        BY DEF JobsMatchTables
      <4>1. CASE d # c
        BY <2>0, <3>1, <3>2, <4>1 DEF TypeOK, JobMatches, JobsMatchTables, SnapshotOK, IngestJob, Ids
      <4>2. CASE d = c
        BY <2>0, <3>1, <3>2, <4>2 DEF TypeOK, JobMatches, JobsMatchTables, IngestJob, Ids, j
      <4> QED BY <4>1, <4>2
    <3>7. StampsArePast'
      BY <2>0 DEF StampsArePast, TypeOK, Event
    <3> QED BY <3>5, <3>6, <3>7
  <2> QED BY <2>1, <2>2
<1>3. ASSUME NEW c \in Clients, ReaffirmMemory(c) PROVE TypeInv'
  <2> USE <1>3 DEF ReaffirmMemory, RecordAudit, EventAt, Return, Continue, Deduped
  <2>1. TypeOK'
    BY DEF TypeOK, Ids, Steps, IngestJob, ChangeJob, Event, TargetRefExists, NoState, Persisted
  <2>2. JobsMatchTables'
    BY DEF JobMatches, JobsMatchTables, SnapshotOK, Ids, TypeOK, IngestJob
  <2>3. StampsArePast'
    BY DEF StampsArePast, TypeOK, Event
  <2> QED BY <2>1, <2>2, <2>3
<1>4. ASSUME NEW c \in Clients, ReturnDedupedClaim(c) PROVE TypeInv'
  <2> USE <1>4 DEF ReturnDedupedClaim, Return, Continue
  <2>1. TypeOK'
    BY DEF TypeOK, Ids, Steps
  <2>2. JobsMatchTables'
    BY DEF JobMatches, JobsMatchTables, SnapshotOK, Ids, TypeOK
  <2>3. StampsArePast'
    BY DEF StampsArePast
  <2> QED BY <2>1, <2>2, <2>3
<1>5. ASSUME NEW c \in Clients, StampCreated(c) PROVE TypeInv'
  <2> USE <1>5 DEF StampCreated, Continue
  <2>1. TypeOK'
    BY DEF TypeOK, Ids, Steps, IngestJob, ChangeJob
  <2>2. JobsMatchTables'
    BY DEF JobMatches, JobsMatchTables, SnapshotOK, Ids, TypeOK, Deduped, TargetRefExists, IngestJob
  <2>3. StampsArePast'
    BY DEF StampsArePast, TypeOK, Event
  <2> QED BY <2>1, <2>2, <2>3
<1>6. ASSUME NEW c \in Clients, AppendCreated(c) PROVE TypeInv'
  <2> USE <1>6 DEF AppendCreated, Return, Continue, EventAt
  <2>1. TypeOK'
    BY DEF TypeOK, Ids, Steps, IngestJob, ChangeJob, Event, NoState
  <2>2. JobsMatchTables'
    BY DEF JobMatches, JobsMatchTables, SnapshotOK, Ids, TypeOK
  <2>3. StampsArePast'
    BY DEF StampsArePast, TypeOK, Event, JobMatches, JobsMatchTables, IngestJob
  <2> QED BY <2>1, <2>2, <2>3
<1>7. ASSUME NEW c \in Clients, NEW i \in Ids, NEW to \in ClaimStates,
             NEW expected \in Users \cup {NoUser}, ReadClaim(c, i, to, expected)
      PROVE  TypeInv'
  <2> USE <1>7 DEF ReadClaim, Start, Continue, IsClaim
  <2>0. rows[i].state \in ClaimStates
    BY DEF TypeOK, Row, RowStates
  <2>1. TypeOK'
    BY <2>0 DEF TypeOK, Ids, Steps, IngestJob, ChangeJob
  <2>2. JobsMatchTables'
    BY <2>0 DEF JobMatches, JobsMatchTables, SnapshotOK, Ids, TypeOK
  <2>3. StampsArePast'
    BY DEF StampsArePast
  <2> QED BY <2>1, <2>2, <2>3
<1>8. ASSUME NEW c \in Clients, NEW i \in Ids, NEW to \in {"confirmed", "rejected"},
             StampReview(c, i, to)
      PROVE  TypeInv'
  <2> USE <1>8 DEF StampReview, Start, Continue, IsClaim
  <2>1. TypeOK'
    BY DEF TypeOK, Ids, Steps, IngestJob, ChangeJob, ClaimStates
  <2>2. JobsMatchTables'
    <3>1. to \in ClaimTransitions["pending"]
      BY DEF ClaimTransitions
    <3> QED BY <3>1 DEF JobMatches, JobsMatchTables, SnapshotOK, Ids, TypeOK, IngestJob
  <2>3. StampsArePast'
    BY DEF StampsArePast, TypeOK, Event
  <2> QED BY <2>1, <2>2, <2>3
<1>9. ASSUME NEW c \in Clients, NEW upd \in Nat, NEW t \in Nat,
             pc[c] \in {"update", "review"},
             t < clock', clock' \in Nat, clock <= clock',
             ChangeState(job[c], upd, t), Return(c), UNCHANGED <<sources, started>>
      PROVE  TypeInv'
  <2> USE <1>9 DEF Return, Continue
  <2> DEFINE j == job[c]
  <2>1. /\ j \in ChangeJob
        /\ j.id \in Ids
        /\ rows[j.id].kind = "claim"
    BY DEF TypeOK, JobMatches, JobsMatchTables
  <2>2. /\ rows' = [rows EXCEPT ![j.id].state = j.to, ![j.id].updatedAt = upd]
        /\ Ids' = Ids
        /\ \A i \in Ids : i # j.id => rows'[i] = rows[i]
    BY <2>1 DEF ChangeState, Ids
  <2>3. /\ rows'[j.id] \in Row
        /\ rows'[j.id].user = rows[j.id].user
        /\ rows'[j.id].kind = rows[j.id].kind
        /\ rows'[j.id].state = j.to
    BY <2>1, <2>2 DEF TypeOK, Row, ChangeJob, RowStates, Ids
  <2>4. /\ \A e \in events' : e \in Event /\ e.at < clock'
    BY <2>1 DEF ChangeState, EventAt, Event, ChangeJob, RowStates, Row, TypeOK, StampsArePast
  <2> HIDE DEF j
  <2>5. TypeOK'
    <3>1. \A i \in Ids' : rows'[i] \in Row /\ (rows'[i].state = "active" <=> rows'[i].kind = "memory")
      <4>1. j.to # "active"
        BY <2>1 DEF ChangeJob, ClaimStates
      <4> QED BY <2>1, <2>2, <2>3, <4>1, ZenonT(30) DEF TypeOK
    <3>2. Ids' \subseteq 1 .. clock' - 1
      BY <2>2 DEF TypeOK
    <3>3. /\ pc' \in [Clients -> Steps]
          /\ DOMAIN job' = Clients
          /\ \A d \in Clients : d # c => pc'[d] = pc[d] /\ job'[d] = job[d]
          /\ pc'[c] = "idle"
      BY DEF TypeOK, Steps
    <3> QED BY <2>4, <3>1, <3>2, <3>3 DEF TypeOK
  <2>6. JobsMatchTables'
    <3> SUFFICES ASSUME NEW d \in Clients PROVE JobMatches(d)'
      BY DEF JobsMatchTables
    <3>1. pc'[c] = "idle" /\ (d # c => pc'[d] = pc[d] /\ job'[d] = job[d])
      BY DEF TypeOK
    <3>2. \A i \in Ids : rows'[i].user = rows[i].user /\ rows'[i].kind = rows[i].kind
      BY <2>2, <2>3
    <3>6. CASE d # c
      BY <2>2, <3>1, <3>2, <3>6, JobKept
    <3>7. CASE d = c
      BY <3>1, <3>7 DEF JobMatches
    <3> QED BY <3>6, <3>7
  <2>7. StampsArePast'
    BY <2>4 DEF StampsArePast, TypeOK
  <2> QED BY <2>5, <2>6, <2>7
<1>10. ASSUME NEW c \in Clients, UpdateClaim(c) \/ CommitReview(c) PROVE TypeInv'
  <2>1. CASE UNCHANGED <<rows, events, clock>>
    <3> USE <1>10, <2>1 DEF UpdateClaim, CommitReview, Return, Continue
    <3>1. TypeOK'
      BY DEF TypeOK, Ids, Steps
    <3>2. JobsMatchTables'
      BY DEF JobMatches, JobsMatchTables, SnapshotOK, Ids, TypeOK
    <3>3. StampsArePast'
      BY DEF StampsArePast
    <3> QED BY <3>1, <3>2, <3>3
  <2>2. CASE ~UNCHANGED <<rows, events, clock>>
    <3>1. \/ ChangeState(job[c], clock, clock + 1) /\ clock' = clock + 2
          \/ ChangeState(job[c], job[c].at, clock) /\ clock' = clock + 1
      BY <1>10, <2>2 DEF UpdateClaim, CommitReview
    <3>2. /\ pc[c] \in {"update", "review"}
          /\ Return(c)
          /\ UNCHANGED <<sources, started>>
          /\ clock \in Nat
          /\ job[c] \in ChangeJob
      BY <1>10 DEF UpdateClaim, CommitReview, TypeOK
    <3>3. job[c].at \in Nat
      BY <3>2 DEF ChangeJob
    <3> QED BY <1>9, <3>1, <3>2, <3>3
  <2> QED BY <2>1, <2>2
<1>11. ASSUME NEW c \in Clients, NEW u \in Users, NEW i \in Ids,
              Reaffirm(c, u, i)
       PROVE  TypeInv'
  <2> USE <1>11 DEF Reaffirm, Start, RecordAudit, EventAt
  <2>1. TypeOK'
    BY DEF TypeOK, Ids, Event, NoState
  <2>2. JobsMatchTables'
    BY DEF JobMatches, JobsMatchTables, SnapshotOK, Ids, TypeOK, IngestJob
  <2>3. StampsArePast'
    BY DEF StampsArePast, TypeOK, Event
  <2> QED BY <2>1, <2>2, <2>3
<1>12. ASSUME NEW c \in Clients, NEW u \in Users, IngestHook(c, u) PROVE TypeInv'
  <2> USE <1>12 DEF IngestHook, Start, RecordAudit, EventAt
  <2>1. TypeOK'
    BY DEF TypeOK, Ids, Event, NoState, NoTarget
  <2>2. JobsMatchTables'
    BY DEF JobMatches, JobsMatchTables, SnapshotOK, Ids, TypeOK, IngestJob
  <2>3. StampsArePast'
    BY DEF StampsArePast, TypeOK, Event
  <2> QED BY <2>1, <2>2, <2>3
<1>13. \A k : SnapshotOK(Snapshot(MissingCreated(k)))
  BY DEF SnapshotOK, Snapshot, MissingCreated, TypeOK
<1>14. ASSUME NEW c \in Clients, BackfillSelectMemories(c) \/ BackfillSelectClaims(c)
       PROVE  TypeInv'
  <2> USE <1>14 DEF BackfillSelectMemories, BackfillSelectClaims, Start, Continue, BackfillJob
  <2>1. TypeOK'
    BY DEF TypeOK, Ids, Steps
  <2>2. JobsMatchTables'
    BY <1>13 DEF JobMatches, JobsMatchTables, SnapshotOK, Ids, TypeOK
  <2>3. StampsArePast'
    BY DEF StampsArePast
  <2> QED BY <2>1, <2>2, <2>3
<1>15. ASSUME NEW snap, SnapshotOK(snap)
       PROVE  \A e \in Synthesized(snap) : e \in Event /\ e.at < clock
  <2> SUFFICES ASSUME NEW i \in DOMAIN snap
               PROVE  LET e == [type |-> "created", actor |-> "backfill", user |-> snap[i].user,
                                target |-> i, from |-> NoState, to |-> snap[i].state,
                                updatedAt |-> snap[i].updatedAt, at |-> i, minted |-> clock]
                      IN  e \in Event /\ e.at < clock
    BY DEF Synthesized
  <2>1. snap[i] \in Row /\ i \in 1 .. clock - 1 /\ clock \in Nat
    BY <1>15 DEF SnapshotOK, TypeOK
  <2> QED BY <2>1 DEF Event, Row, NoState
<1>16. ASSUME NEW c \in Clients, BackfillWriteAll(c) \/ BackfillWriteClaims(c) PROVE TypeInv'
  <2>1. /\ SnapshotOK(job[c].snap)
        /\ clock' = clock + 1
        /\ Return(c)
        /\ UNCHANGED <<sources, rows, started>>
    BY <1>16 DEF BackfillWriteAll, BackfillWriteClaims, JobMatches, JobsMatchTables
  <2>2. \A e \in events' : e \in Event /\ e.at < clock
    BY <1>13, <1>15, <1>16, <2>1
       DEF BackfillWriteAll, BackfillWriteClaims, ClaimsWithMemories, TypeOK, StampsArePast
  <2> USE <2>1, <2>2 DEF Return, Continue
  <2>3. TypeOK'
    BY DEF TypeOK, Ids, Steps
  <2>4. JobsMatchTables'
    BY DEF JobMatches, JobsMatchTables, SnapshotOK, Ids, TypeOK, IngestJob
  <2>5. StampsArePast'
    BY DEF StampsArePast, TypeOK, Event
  <2> QED BY <2>3, <2>4, <2>5
<1>17. ASSUME NEW c \in Clients, Crash(c) PROVE TypeInv'
  <2> USE <1>17 DEF Crash
  <2>1. TypeOK'
    BY DEF TypeOK, Ids, Steps
  <2>2. JobsMatchTables'
    BY DEF JobMatches, JobsMatchTables, SnapshotOK, Ids, TypeOK
  <2>3. StampsArePast'
    BY DEF StampsArePast
  <2> QED BY <2>1, <2>2, <2>3
<1>18. CASE UNCHANGED vars
  BY <1>18 DEF vars, TypeOK, JobMatches, JobsMatchTables, StampsArePast, SnapshotOK, Ids
<1> QED
  BY <1>1, <1>2, <1>3, <1>4, <1>5, <1>6, <1>7, <1>8, <1>10, <1>11, <1>12, <1>14, <1>16,
     <1>17, <1>18
  DEF Next, Ingest, Change, AuditOnly, Backfill

\* Every behaviour keeps the strengthened invariant.
LEMMA TypeInvariant == Spec => []TypeInv
<1> QED BY TypeInit, TypeStep, PTL DEF Spec

\* Every behaviour keeps the tables and the locals of the calls well typed; a
\* claim never carries a state that is not registered.
THEOREM TypeCorrect == Spec => []TypeOK
<1>1. TypeInv => TypeOK
  BY DEF TypeInv
<1> QED BY TypeInvariant, <1>1, PTL

------------------------------------------------------------------------------
(* Every step is of one of three shapes, as far as rows and events go.      *)

\* Events are appended that change no row; their targets exist and belong to
\* the event's user.
Audits ==
    /\ rows' = rows
    /\ events \subseteq events'
    /\ \A e \in events' \ events :
           /\ e.type # "state_changed"
           /\ e.target # NoTarget => e.target \in Ids /\ rows[e.target].user = e.user

\* A row with a fresh key is inserted.
Inserts ==
    /\ events' = events
    /\ clock \notin Ids
    /\ Ids' = Ids \cup {clock}
    /\ \A i \in Ids : rows'[i] = rows[i]
    /\ rows'[clock].updatedAt = clock
    /\ \A i \in Ids : ~SameKey(rows[i], rows'[clock])

\* A claim makes a move of the matrix, logged with a stamp no event has yet.
Moves ==
    \E j \in ChangeJob, upd \in Nat, t \in Nat :
        /\ clock <= t
        /\ j.id \in Ids
        /\ rows[j.id].kind = "claim"
        /\ rows[j.id].state = j.from
        /\ j.to \in ClaimTransitions[j.from]
        /\ ChangeState(j, upd, t)

\* Every action of every client is one of the three, or changes no table.
LEMMA StepShape == TypeInv /\ [Next]_vars => Audits \/ Inserts \/ Moves
<1> SUFFICES ASSUME TypeInv, [Next]_vars PROVE Audits \/ Inserts \/ Moves
  OBVIOUS
<1>0. TypeOK /\ JobsMatchTables /\ StampsArePast
  BY DEF TypeInv
<1>1. ASSUME rows' = rows, events' = events PROVE Audits
  BY <1>1 DEF Audits
<1>2. ASSUME NEW c \in Clients, InsertRow(c) PROVE Audits \/ Inserts
  <2> DEFINE j == job[c]
  <2>1. CASE Persisted(j) = {}
    <3>1. /\ events' = events
          /\ rows' = [i \in Ids \cup {clock} |-> IF i = clock THEN RowOf(j, clock) ELSE rows[i]]
      BY <1>2, <2>1 DEF InsertRow
    <3>2. clock \notin Ids
      BY <1>0 DEF TypeOK
    <3>3. \A i \in Ids : ~SameKey(rows[i], j)
      BY <2>1 DEF Persisted
    <3>4. /\ Ids' = Ids \cup {clock}
          /\ \A i \in Ids : rows'[i] = rows[i]
          /\ rows'[clock] = RowOf(j, clock)
      BY <3>1, <3>2 DEF Ids
    <3>5. rows'[clock].updatedAt = clock /\ \A i \in Ids : ~SameKey(rows[i], rows'[clock])
      BY <3>3, <3>4 DEF SameKey, RowOf
    <3> QED BY <3>1, <3>2, <3>4, <3>5 DEF Inserts
  <2>2. CASE Persisted(j) # {}
    BY <1>1, <1>2, <2>2 DEF InsertRow
  <2> QED BY <2>1, <2>2
<1>3. ASSUME NEW type \in {"reaffirmed", "hook"}, NEW u, NEW i, RecordAudit(type, u, i), rows' = rows
      PROVE  Audits
  BY <1>3 DEF Audits, RecordAudit, TargetRefExists, EventAt
<1>4. ASSUME NEW c \in Clients, AppendCreated(c) PROVE Audits
  <2>1. job[c].id \in Ids /\ rows[job[c].id].user = job[c].user
    BY <1>0, <1>4 DEF AppendCreated, JobsMatchTables, JobMatches
  <2> QED BY <1>4, <2>1 DEF AppendCreated, Audits, EventAt
<1>5. ASSUME NEW c \in Clients, UpdateClaim(c) \/ CommitReview(c) PROVE Audits \/ Moves
  <2>1. CASE UNCHANGED <<rows, events>>
    BY <1>1, <2>1
  <2>2. CASE ~UNCHANGED <<rows, events>>
    <3>1. /\ UpdateMatches(job[c])
          /\ \/ ChangeState(job[c], clock, clock + 1)
             \/ ChangeState(job[c], job[c].at, clock)
      BY <1>5, <2>2 DEF UpdateClaim, CommitReview
    <3>2. /\ job[c] \in ChangeJob
          /\ clock \in Nat
          /\ JobMatches(c)
          /\ pc[c] \in {"update", "review"}
      BY <1>0, <1>5 DEF TypeOK, JobsMatchTables, UpdateClaim, CommitReview
    <3>3. job[c].at \in Nat
      BY <3>2 DEF ChangeJob
    <3>4. /\ job[c].id \in Ids
          /\ rows[job[c].id].kind = "claim"
          /\ job[c].to \in ClaimTransitions[job[c].from]
      BY <3>2 DEF JobMatches
    <3> QED BY <3>1, <3>2, <3>3, <3>4 DEF Moves, UpdateMatches
  <2> QED BY <2>1, <2>2
<1>6. ASSUME NEW c \in Clients, NEW u \in Users, IngestHook(c, u) PROVE Audits
  <2>1. CASE \E i \in Ids : RecordAudit("hook", u, i)
    BY <1>3, <1>6, <2>1 DEF IngestHook
  <2>2. CASE events' = events \cup {EventAt(clock, "hook", u, NoTarget, NoState, NoState, 0)}
    BY <1>6, <2>2 DEF IngestHook, Audits, EventAt
  <2> QED BY <1>6, <2>1, <2>2 DEF IngestHook
<1>7. ASSUME NEW snap, SnapshotOK(snap), NEW e \in Synthesized(snap)
      PROVE  e.type # "state_changed" /\ e.target \in Ids /\ rows[e.target].user = e.user
  BY <1>7 DEF SnapshotOK, Synthesized
<1>8. ASSUME NEW c \in Clients, BackfillWriteAll(c) \/ BackfillWriteClaims(c) PROVE Audits
  <2>1. SnapshotOK(job[c].snap)
    BY <1>0, <1>8 DEF BackfillWriteAll, BackfillWriteClaims, JobsMatchTables, JobMatches
  <2>2. SnapshotOK(Snapshot(ClaimsWithMemories))
    BY <1>0 DEF SnapshotOK, Snapshot, ClaimsWithMemories, MissingCreated, TypeOK
  <2> QED BY <1>7, <1>8, <2>1, <2>2 DEF BackfillWriteAll, BackfillWriteClaims, Audits
<1>9. ASSUME NEW c \in Clients, Ingest(c) PROVE Audits \/ Inserts
  <2>1. CASE ReaffirmMemory(c)
    BY <1>3, <2>1 DEF ReaffirmMemory
  <2>2. CASE ~ReaffirmMemory(c)
    BY <1>1, <1>2, <1>4, <1>9, <2>2
       DEF Ingest, EnsureSource, ReturnDedupedClaim, StampCreated
  <2> QED BY <2>1, <2>2
<1>10. ASSUME NEW c \in Clients, Change(c) PROVE Audits \/ Moves
  BY <1>1, <1>5, <1>10 DEF Change, ReadClaim, StampReview
<1>11. ASSUME NEW c \in Clients, AuditOnly(c) PROVE Audits
  BY <1>3, <1>6, <1>11 DEF AuditOnly, Reaffirm
<1>12. ASSUME NEW c \in Clients, Backfill(c) PROVE Audits
  BY <1>1, <1>8, <1>12 DEF Backfill, BackfillSelectMemories, BackfillSelectClaims
<1>13. ASSUME NEW c \in Clients, Crash(c) PROVE Audits
  BY <1>1, <1>13 DEF Crash
<1>14. CASE UNCHANGED vars
  BY <1>1, <1>14 DEF vars
<1> QED BY <1>9, <1>10, <1>11, <1>12, <1>13, <1>14 DEF Next

------------------------------------------------------------------------------
\* No event ever refers to a missing row or another user's row, whoever wrote
\* it: orphan rejection holds although the check and the insert of
\* record_event are separate transactions.
THEOREM OrphansRejected == Spec => []NoOrphanEvents
<1>1. Init => NoOrphanEvents
  BY DEF Init, NoOrphanEvents
<1>2. TypeInv /\ NoOrphanEvents /\ [Next]_vars => NoOrphanEvents'
  <2> SUFFICES ASSUME TypeInv, NoOrphanEvents, [Next]_vars PROVE NoOrphanEvents'
    OBVIOUS
  <2>1. CASE Audits
    BY <2>1 DEF Audits, NoOrphanEvents, Ids
  <2>2. CASE Inserts
    BY <2>2 DEF Inserts, NoOrphanEvents
  <2>3. CASE Moves
    <3> PICK j \in ChangeJob, upd \in Nat, t \in Nat : j.id \in Ids /\ ChangeState(j, upd, t)
      BY <2>3 DEF Moves
    <3>1. /\ Ids' = Ids
          /\ \A i \in Ids : rows'[i].user = rows[i].user
      BY DEF ChangeState, Ids, TypeInv, TypeOK, Row
    <3>2. \A e \in events' : e \in events \/ (e.target = j.id /\ e.user = rows[j.id].user)
      BY DEF ChangeState, EventAt
    <3> QED BY <3>1, <3>2 DEF NoOrphanEvents
  <2> QED BY <2>1, <2>2, <2>3, StepShape
<1> QED BY <1>1, <1>2, TypeInvariant, PTL DEF Spec

\* Deduplication: no interleaving of ingests stores one content twice.
THEOREM ContentStaysUnique == Spec => []ContentIsUnique
<1>1. Init => ContentIsUnique
  BY DEF Init, ContentIsUnique, Ids
<1>2. TypeInv /\ ContentIsUnique /\ [Next]_vars => ContentIsUnique'
  <2> SUFFICES ASSUME TypeInv, ContentIsUnique, [Next]_vars PROVE ContentIsUnique'
    OBVIOUS
  <2>1. CASE Audits
    BY <2>1 DEF Audits, ContentIsUnique, Ids
  <2>2. CASE Inserts
    BY <2>2 DEF Inserts, ContentIsUnique, SameKey
  <2>3. CASE Moves
    <3> PICK j \in ChangeJob, upd \in Nat, t \in Nat : j.id \in Ids /\ ChangeState(j, upd, t)
      BY <2>3 DEF Moves
    <3>1. /\ Ids' = Ids
          /\ \A i \in Ids : /\ rows'[i].user = rows[i].user
                            /\ rows'[i].kind = rows[i].kind
                            /\ rows'[i].content = rows[i].content
                            /\ rows'[i].source = rows[i].source
      BY DEF ChangeState, Ids, TypeInv, TypeOK, Row
    <3> QED BY <3>1 DEF ContentIsUnique
  <2> QED BY <2>1, <2>2, <2>3, StepShape
<1> QED BY <1>1, <1>2, TypeInvariant, PTL DEF Spec

\* What keeps the foreign key: an ingest past its first transaction has seen to
\* the source of the row it will insert.
SourceInv ==
    /\ SourcesReserved
    /\ \A c \in Clients : pc[c] = "insert" => sources[job[c].source] # NoUser

\* A registered source keeps its registrant, and only its user registers a
\* reserved one.
LEMMA SourceStep == TypeInv /\ SourceInv /\ [Next]_vars => SourceInv'
<1> SUFFICES ASSUME TypeInv, SourceInv, [Next]_vars PROVE SourceInv'
  OBVIOUS
<1>0. TypeInv /\ TypeOK /\ SourcesReserved /\ clock \notin Ids
  BY DEF TypeInv, TypeOK, SourceInv
<1>1. ASSUME NEW c \in Clients, NEW u \in Users, NEW k \in Kinds, NEW s \in SourceIds,
             NEW x \in Contents, NEW st \in IngestStates \cup {"active"},
             EnsureSource(c, u, k, s, x, st)
      PROVE  SourceInv'
  <2>1. /\ sources' = IF sources[s] = NoUser THEN [sources EXCEPT ![s] = u] ELSE sources
        /\ s \in ExternalSources \/ s = Direct(u)
        /\ rows' = rows
        /\ pc' = [pc EXCEPT ![c] = "insert"]
        /\ \A d \in Clients : d # c => job'[d] = job[d]
        /\ job'[c].source = s
    BY <1>0, <1>1 DEF EnsureSource, Continue, SourceAllowed, TypeOK
  <2>2. /\ DOMAIN sources = SourceIds
        /\ DOMAIN pc = Clients
        /\ u # NoUser
    BY <1>0, StoreAssumption DEF TypeOK
  <2>3. /\ sources'[s] # NoUser
        /\ \A r \in SourceIds : sources[r] # NoUser => sources'[r] = sources[r]
        /\ \A r \in SourceIds : r # s => sources'[r] = sources[r]
        /\ sources[s] = NoUser => sources'[s] = u
    BY <2>1, <2>2
  <2>4. ASSUME NEW v \in Users PROVE sources'[Direct(v)] \in {NoUser, v}
    <3>1. Direct(v) \in SourceIds /\ Direct(v) \notin ExternalSources
      BY StoreAssumption DEF SourceIds
    <3>2. sources[Direct(v)] \in {NoUser, v}
      BY <1>0 DEF SourcesReserved
    <3>3. CASE s = Direct(v)
      <4>1. u = v
        BY <2>1, <3>1, <3>3 DEF Direct
      <4> QED BY <2>3, <3>2, <3>3, <4>1
    <3>4. CASE s # Direct(v)
      BY <2>3, <3>1, <3>2, <3>4
    <3> QED BY <3>3, <3>4
  <2>5. \A i \in Ids : rows[i].source \in SourceIds /\ sources[rows[i].source] # NoUser
    BY <1>0 DEF TypeOK, Row, SourcesReserved
  <2>6. ASSUME NEW d \in Clients, pc'[d] = "insert" PROVE sources'[job'[d].source] # NoUser
    <3>1. CASE d = c
      BY <2>1, <2>3, <3>1
    <3>2. CASE d # c
      <4>1. pc[d] = "insert" /\ job'[d] = job[d]
        BY <2>1, <2>2, <2>6, <3>2
      <4>2. job[d].source \in SourceIds /\ sources[job[d].source] # NoUser
        BY <1>0, <4>1 DEF TypeOK, IngestJob, SourceInv
      <4> QED BY <2>3, <4>1, <4>2
    <3> QED BY <3>1, <3>2
  <2> QED BY <2>1, <2>3, <2>4, <2>5, <2>6 DEF SourceInv, SourcesReserved, Ids
<1>2. ASSUME NEW c \in Clients, InsertRow(c) PROVE SourceInv'
  <2>1. /\ pc[c] = "insert"
        /\ UNCHANGED sources
        /\ \A d \in Clients : pc'[d] = "insert" => pc[d] = "insert" /\ job'[d] = job[d]
    BY <1>0, <1>2 DEF InsertRow, Continue, TypeOK
  <2>2. \A i \in Ids' : \/ i \in Ids /\ rows'[i] = rows[i]
                        \/ rows'[i].source = job[c].source
    BY <1>0, <1>2 DEF InsertRow, Ids, RowOf
  <2> QED BY <2>1, <2>2 DEF SourceInv, SourcesReserved
<1>3. ASSUME UNCHANGED sources,
             \A i \in Ids' : i \in Ids /\ rows'[i].source = rows[i].source,
             \A d \in Clients : pc'[d] = "insert" => pc[d] = "insert" /\ job'[d] = job[d]
      PROVE  SourceInv'
  BY <1>3 DEF SourceInv, SourcesReserved
<1>4. ASSUME NEW c \in Clients, ReaffirmMemory(c) \/ ReturnDedupedClaim(c) \/ StampCreated(c) \/ AppendCreated(c)
      PROVE  SourceInv'
  BY <1>0, <1>3, <1>4 DEF ReaffirmMemory, ReturnDedupedClaim, StampCreated, AppendCreated,
                          Return, Continue, TypeOK, Ids
<1>5. ASSUME NEW c \in Clients, Change(c) PROVE SourceInv'
  <2>1. CASE rows' = rows
    BY <1>0, <1>3, <1>5, <2>1
       DEF Change, ReadClaim, UpdateClaim, StampReview, CommitReview, Return, Continue, TypeOK, Ids
  <2>2. CASE rows' # rows
    <3>1. \E upd : rows' = [rows EXCEPT ![job[c].id].state = job[c].to, ![job[c].id].updatedAt = upd]
      BY <1>5, <2>2 DEF Change, ReadClaim, UpdateClaim, StampReview, CommitReview, ChangeState
    <3>2. \A i \in Ids' : i \in Ids /\ rows'[i].source = rows[i].source
      BY <1>0, <3>1 DEF Ids, TypeOK, Row
    <3> QED BY <1>0, <1>3, <1>5, <2>2, <3>2
            DEF Change, ReadClaim, UpdateClaim, StampReview, CommitReview, Return, Continue, TypeOK
  <2> QED BY <2>1, <2>2
<1>6. ASSUME NEW c \in Clients, AuditOnly(c) \/ Backfill(c) \/ Crash(c) PROVE SourceInv'
  BY <1>0, <1>3, <1>6 DEF AuditOnly, Reaffirm, IngestHook, Backfill, BackfillSelectMemories,
       BackfillWriteAll, BackfillSelectClaims, BackfillWriteClaims, Crash, Return, Continue, TypeOK, Ids
<1>7. CASE UNCHANGED vars
  BY <1>3, <1>7 DEF vars, Ids
<1> QED BY <1>1, <1>2, <1>4, <1>5, <1>6, <1>7 DEF Next, Ingest

\* The tables are sound together: typed, one row per content, and every row's
\* source registered, a reserved one only by its own user.
THEOREM StoreIsSound == Spec => []StoreSafety
<1>1. Init => SourceInv
  BY DEF Init, SourceInv, SourcesReserved, SourceIds, Ids
<1>2. Spec => []SourceInv
  BY <1>1, SourceStep, TypeInvariant, PTL DEF Spec
<1>3. SourceInv => SourcesReserved
  BY DEF SourceInv
<1> QED BY <1>2, <1>3, TypeCorrect, ContentStaysUnique, PTL DEF StoreSafety

\* A rejected claim stays rejected: the compare-and-set of the UPDATE makes the
\* check of the matrix, done outside the transaction, good enough.
THEOREM RejectedStaysRejected == Spec => RejectedIsFinal
<1>1. TypeInv /\ [Next]_vars =>
        [\A i \in Ids : rows[i].state = "rejected" => rows'[i].state = "rejected"]_vars
  <2> SUFFICES ASSUME TypeInv, [Next]_vars, NEW i \in Ids, rows[i].state = "rejected"
               PROVE  rows'[i].state = "rejected"
    OBVIOUS
  <2>1. CASE Audits \/ Inserts
    BY <2>1 DEF Audits, Inserts
  <2>2. CASE Moves
    <3> PICK j \in ChangeJob, upd \in Nat, t \in Nat :
              /\ j.id \in Ids
              /\ rows[j.id].state = j.from
              /\ j.to \in ClaimTransitions[j.from]
              /\ ChangeState(j, upd, t)
      BY <2>2 DEF Moves
    <3>1. ClaimTransitions["rejected"] = {}
      BY DEF ClaimTransitions
    <3>2. j.id # i
      BY <3>1
    <3> QED BY <3>2 DEF ChangeState, Ids
  <2> QED BY <2>1, <2>2, StepShape
<1> QED BY <1>1, TypeInvariant, PTL DEF Spec, RejectedIsFinal

------------------------------------------------------------------------------
(* The event log and the rows.                                             *)

\* The inductive invariant of the log: what a move relies on.
LogInv == TypeInv /\ NoOrphanEvents /\ LogAgreesWithRow /\ ChangesFormAChain

\* The state_changed event that a move appends sorts after all others, and
\* the other events and rows stay what they were.
LEMMA LogStep == LogInv /\ [Next]_vars => LogAgreesWithRow' /\ ChangesFormAChain'
<1> SUFFICES ASSUME LogInv, [Next]_vars PROVE LogAgreesWithRow' /\ ChangesFormAChain'
  OBVIOUS
<1>0. TypeInv /\ NoOrphanEvents /\ LogAgreesWithRow /\ ChangesFormAChain
  BY DEF LogInv
<1>1. \A i \in Ids : \A e \in Changes(i) : e.at \in Nat /\ e.at < clock
  BY <1>0 DEF TypeInv, TypeOK, StampsArePast, Changes, Event
<1>2. CASE Audits
  <2>1. \A i : Changes(i)' = Changes(i)
    BY <1>2 DEF Audits, Changes
  <2> QED BY <1>0, <1>2, <2>1 DEF Audits, LogAgreesWithRow, ChangesFormAChain, Ids
<1>3. CASE Inserts
  <2>1. \A i : Changes(i)' = Changes(i)
    BY <1>3 DEF Inserts, Changes
  <2>2. Changes(clock) = {}
    BY <1>0, <1>3 DEF Inserts, Changes, NoOrphanEvents, TypeInv, StampsArePast, NoTarget
  <2> QED BY <1>0, <1>3, <2>1, <2>2 DEF Inserts, LogAgreesWithRow, ChangesFormAChain
<1>4. CASE Moves
  <2> PICK j \in ChangeJob, upd \in Nat, t \in Nat :
            /\ clock <= t
            /\ j.id \in Ids
            /\ rows[j.id].state = j.from
            /\ ChangeState(j, upd, t)
    BY <1>4 DEF Moves
  <2> DEFINE new == EventAt(t, "state_changed", rows[j.id].user, j.id, j.from, j.to, upd)
  <2>1. /\ \A i : i # j.id => Changes(i)' = Changes(i)
        /\ Changes(j.id)' = Changes(j.id) \cup {new}
    BY DEF ChangeState, Changes, EventAt
  <2>2. /\ new.at = t
        /\ new.from = j.from
        /\ new.to = j.to
        /\ new.updatedAt = upd
    BY DEF EventAt
  <2>3. /\ Ids' = Ids
        /\ \A i \in Ids : i # j.id => rows'[i] = rows[i]
        /\ rows'[j.id].state = j.to
        /\ rows'[j.id].updatedAt = upd
    BY <1>0 DEF ChangeState, Ids, TypeInv, TypeOK, Row
  <2>4. clock \in Nat
    BY <1>0 DEF TypeInv, TypeOK
  <2> HIDE DEF new
  <2>5. \A e \in Changes(j.id) : e.at \in Nat /\ e.at < t
    BY <1>1, <2>4
  <2>6. LogAgreesWithRow'
    <3> SUFFICES ASSUME NEW i \in Ids, NEW e \in Changes(i)', IsLast(e, Changes(i)')
                 PROVE  rows'[i].state = e.to /\ rows'[i].updatedAt = e.updatedAt
      BY <2>3 DEF LogAgreesWithRow, IsLast
    <3>1. CASE i # j.id
      BY <1>0, <2>1, <2>3, <3>1 DEF LogAgreesWithRow, IsLast
    <3>2. CASE i = j.id
      <4>1. e = new
        BY <2>1, <2>2, <2>5, <3>2 DEF IsLast
      <4> QED BY <2>2, <2>3, <3>2, <4>1
    <3> QED BY <3>1, <3>2
  <2>7. ChangesFormAChain'
    <3> SUFFICES ASSUME NEW i \in Ids, NEW e \in Changes(i)', NEW f \in Changes(i)',
                        Follows(e, f, Changes(i)')
                 PROVE  f.from = e.to
      BY <2>3 DEF ChangesFormAChain, Follows
    <3>1. CASE i # j.id
      BY <1>0, <2>1, <3>1 DEF ChangesFormAChain, Follows
    <3>2. CASE i = j.id /\ f # new
      <4>1. e # new
        BY <2>1, <2>2, <2>5, <3>2 DEF Follows
      <4> QED BY <1>0, <2>1, <3>2, <4>1 DEF ChangesFormAChain, Follows
    <3>3. CASE i = j.id /\ f = new
      <4>1. e \in Changes(j.id)
        BY <2>1, <2>2, <3>3 DEF Follows
      <4>2. \A g \in Changes(j.id) : g.at <= e.at
        BY <2>1, <2>2, <2>5, <3>3, <4>1 DEF Follows
      <4>3. rows[j.id].state = e.to
        BY <1>0, <4>1, <4>2 DEF LogAgreesWithRow, IsLast
      <4> QED BY <2>2, <3>3, <4>3
    <3> QED BY <3>1, <3>2, <3>3
  <2> QED BY <2>6, <2>7
<1> QED BY <1>0, <1>2, <1>3, <1>4, StepShape

\* The event log and the rows never disagree, and no writer overwrites a change
\* it had not seen: the audit trail of every claim is a chain that ends in the
\* state the row has.
THEOREM LogMatchesRows == Spec => []LogTellsChanges
<1>1. Init => LogAgreesWithRow /\ ChangesFormAChain
  BY DEF Init, LogAgreesWithRow, ChangesFormAChain, Ids, Changes
<1> QED BY <1>1, LogStep, TypeInvariant, OrphansRejected, PTL DEF Spec, LogInv, LogTellsChanges

------------------------------------------------------------------------------
(* Created events.                                                         *)

\* Client c runs, or died in, the ingest that inserted row i and has not logged
\* its creation.
Owes(c, i) ==
    /\ pc[c] \in {"select", "created", "down"}
    /\ job[c].op = "ingest"
    /\ job[c].id = i

\* A step that keeps the rows and the events, and every call that owes the
\* created event of a row, keeps OnlyCrashLosesCreated.
LEMMA CreatedKept ==
  ASSUME OnlyCrashLosesCreated, Ids' = Ids, events \subseteq events',
         \A d \in Clients, i \in Ids : Owes(d, i) => Owes(d, i)' \/ HasCreated(i)'
  PROVE  OnlyCrashLosesCreated'
BY DEF OnlyCrashLosesCreated, HasCreated, Owes

\* A call hands over what it owes only by logging it.
LEMMA CreatedStep == TypeInv /\ OnlyCrashLosesCreated /\ [Next]_vars => OnlyCrashLosesCreated'
<1> SUFFICES ASSUME TypeInv, OnlyCrashLosesCreated, [Next]_vars PROVE OnlyCrashLosesCreated'
  OBVIOUS
<1>0. TypeOK /\ JobsMatchTables /\ 0 \notin Ids /\ clock \notin Ids
  BY DEF TypeInv, TypeOK
<1>1. ASSUME NEW c \in Clients, NEW s, NEW j, Continue(c, s, j), Ids' = Ids, events \subseteq events',
             \A i \in Ids : ~Owes(c, i)
      PROVE  OnlyCrashLosesCreated'
  BY <1>0, <1>1, CreatedKept DEF Continue, Owes, TypeOK
<1>2. ASSUME NEW c \in Clients, pc[c] \notin {"select", "created", "down"}
      PROVE  \A i \in Ids : ~Owes(c, i)
  BY <1>2 DEF Owes
<1>3. ASSUME NEW c \in Clients, NEW call, Start(c, call) PROVE pc[c] = "idle"
  BY <1>3 DEF Start
<1>4. ASSUME NEW c \in Clients, InsertRow(c) PROVE OnlyCrashLosesCreated'
  <2> DEFINE j == job[c]
  <2>0. pc[c] = "insert" /\ j \in IngestJob
    BY <1>0, <1>4 DEF InsertRow, TypeOK
  <2>1. CASE Persisted(j) = {}
    <3>1. /\ Ids' = Ids \cup {clock}
          /\ events' = events
          /\ pc' = [pc EXCEPT ![c] = "select"]
          /\ job' = [job EXCEPT ![c] = [j EXCEPT !.id = clock]]
      BY <1>4, <2>1 DEF InsertRow, Continue, Ids
    <3>2. ASSUME NEW i, i = clock PROVE Owes(c, i)'
      <4>1. job'[c].op = "ingest" /\ job'[c].id = i /\ pc'[c] = "select"
        BY <1>0, <2>0, <3>1, <3>2 DEF TypeOK, IngestJob
      <4> QED BY <4>1 DEF Owes
    <3>3. ASSUME NEW d \in Clients, NEW i \in Ids, Owes(d, i) PROVE Owes(d, i)'
      BY <1>0, <2>0, <3>1, <3>3 DEF Owes, TypeOK
    <3> SUFFICES ASSUME NEW i \in Ids' PROVE HasCreated(i)' \/ \E d \in Clients : Owes(d, i)'
      BY DEF OnlyCrashLosesCreated, Owes
    <3>4. CASE i = clock
      BY <3>2, <3>4
    <3>5. CASE i \in Ids
      <4>1. HasCreated(i) => HasCreated(i)'
        BY <3>1 DEF HasCreated
      <4>2. HasCreated(i) \/ \E d \in Clients : Owes(d, i)
        BY <3>5 DEF OnlyCrashLosesCreated, Owes
      <4> QED BY <3>3, <3>5, <4>1, <4>2
    <3> QED BY <3>1, <3>4, <3>5
  <2>2. CASE Persisted(j) # {}
    <3>1. Continue(c, "select", j) /\ Ids' = Ids /\ events' = events
      BY <1>4, <2>2 DEF InsertRow, Ids
    <3> QED BY <1>1, <1>2, <2>0, <3>1
  <2> QED BY <2>1, <2>2
<1>5. ASSUME NEW c \in Clients, ReaffirmMemory(c) \/ ReturnDedupedClaim(c) PROVE OnlyCrashLosesCreated'
  <2>1. job[c].id = 0
    BY <1>5 DEF ReaffirmMemory, ReturnDedupedClaim, Deduped
  <2>2. \A i \in Ids : ~Owes(c, i)
    BY <1>0, <2>1 DEF Owes
  <2>3. Return(c) /\ Ids' = Ids /\ events \subseteq events'
    BY <1>5 DEF ReaffirmMemory, ReturnDedupedClaim, RecordAudit, Ids
  <2> QED BY <1>1, <2>2, <2>3 DEF Return
<1>6. ASSUME NEW c \in Clients, StampCreated(c) PROVE OnlyCrashLosesCreated'
  <2>1. job[c] \in IngestJob
    BY <1>0, <1>6 DEF StampCreated, TypeOK
  <2>2. \A d \in Clients, i \in Ids : Owes(d, i) => Owes(d, i)'
    BY <1>0, <1>6, <2>1 DEF StampCreated, Continue, Owes, TypeOK, IngestJob
  <2> QED BY <1>6, <2>2, CreatedKept DEF StampCreated, Ids
<1>7. ASSUME NEW c \in Clients, AppendCreated(c) PROVE OnlyCrashLosesCreated'
  <2>1. ASSUME NEW i, i = job[c].id PROVE HasCreated(i)'
    <3> DEFINE new == EventAt(job[c].at, "created", job[c].user, i, NoState, job[c].state, i)
    <3>1. new \in events' /\ new.type = "created" /\ new.target = i
      BY <1>7, <2>1 DEF AppendCreated, EventAt
    <3> QED BY <3>1 DEF HasCreated
  <2>2. \A d \in Clients, i \in Ids : Owes(d, i) => Owes(d, i)' \/ HasCreated(i)'
    <3> SUFFICES ASSUME NEW d \in Clients, NEW i \in Ids, Owes(d, i)
                 PROVE  Owes(d, i)' \/ HasCreated(i)'
      OBVIOUS
    <3>1. CASE d = c
      BY <2>1, <3>1 DEF Owes
    <3>2. CASE d # c
      BY <1>0, <1>7, <3>2 DEF AppendCreated, Return, Continue, Owes, TypeOK
    <3> QED BY <3>1, <3>2
  <2> QED BY <1>7, <2>2, CreatedKept DEF AppendCreated, Ids
<1>8. ASSUME NEW c \in Clients, Change(c) PROVE OnlyCrashLosesCreated'
  <2>1. /\ pc[c] \in {"idle", "update", "review"}
        /\ \E s, j : Continue(c, s, j)
        /\ events \subseteq events'
    BY <1>8 DEF Change, ReadClaim, UpdateClaim, StampReview, CommitReview, ChangeState, Start, Return
  <2>2. Ids' = Ids
    BY <1>8 DEF Change, ReadClaim, UpdateClaim, StampReview, CommitReview, ChangeState, Ids
  <2> QED BY <1>1, <1>2, <2>1, <2>2
<1>9. ASSUME NEW c \in Clients, Backfill(c) PROVE OnlyCrashLosesCreated'
  <2>1. /\ pc[c] \in {"idle", "writeAll", "selectClaims", "writeClaims"}
        /\ \E s, j : Continue(c, s, j)
        /\ events \subseteq events' /\ rows' = rows
    BY <1>9 DEF Backfill, BackfillSelectMemories, BackfillWriteAll, BackfillSelectClaims,
                BackfillWriteClaims, Start, Return
  <2> QED BY <1>1, <1>2, <2>1 DEF Ids
<1>10. ASSUME NEW c \in Clients, AuditOnly(c) PROVE OnlyCrashLosesCreated'
  <2>1. UNCHANGED <<rows, pc, job>> /\ events \subseteq events'
    BY <1>10 DEF AuditOnly, Reaffirm, IngestHook, RecordAudit
  <2> QED BY <2>1, CreatedKept DEF Owes, Ids
<1>11. ASSUME NEW c \in Clients, Crash(c) PROVE OnlyCrashLosesCreated'
  <2>1. \A d \in Clients, i \in Ids : Owes(d, i) => Owes(d, i)'
    BY <1>0, <1>11 DEF Crash, Owes, TypeOK
  <2> QED BY <1>11, <2>1, CreatedKept DEF Crash, Ids
<1>12. ASSUME NEW c \in Clients, NEW u \in Users, NEW k \in Kinds, NEW s \in SourceIds,
              NEW x \in Contents, NEW st \in IngestStates \cup {"active"},
              EnsureSource(c, u, k, s, x, st)
       PROVE  OnlyCrashLosesCreated'
  BY <1>1, <1>2, <1>3, <1>12 DEF EnsureSource, Ids
<1>13. CASE UNCHANGED vars
  BY <1>13 DEF vars, OnlyCrashLosesCreated, HasCreated, Ids
<1> QED BY <1>4, <1>5, <1>6, <1>7, <1>8, <1>9, <1>10, <1>11, <1>12, <1>13 DEF Next, Ingest

\* A row without a created event is one whose ingest still runs or has died: no
\* interleaving of completed calls loses the event.
THEOREM CreatedIsLostByCrashOnly == Spec => []OnlyCrashLosesCreated
<1>1. Init => OnlyCrashLosesCreated
  BY DEF Init, OnlyCrashLosesCreated, Ids
<1> QED BY <1>1, CreatedStep, TypeInvariant, PTL DEF Spec

\* A claim's changes start in state st, or it has none and is in st.
Birth(i, st) ==
    /\ \A e \in Changes(i) : (\A f \in Changes(i) : e.at <= f.at) => e.from = st
    /\ Changes(i) = {} => rows[i].state = st

\* Moves append behind the first change, or are it and start where the row is.
LEMMA BirthKept ==
  ASSUME TypeInv, NoOrphanEvents, [Next]_vars, NEW i \in Ids, NEW st, Birth(i, st)
  PROVE  Birth(i, st)'
<1>0. /\ clock \in Nat
      /\ \A e \in Changes(i) : e.at \in Nat /\ e.at < clock
  BY DEF TypeInv, TypeOK, StampsArePast, Changes, Event
<1>1. CASE Audits
  <2>1. Changes(i)' = Changes(i)
    BY <1>1 DEF Audits, Changes
  <2> QED BY <1>1, <2>1 DEF Audits, Birth
<1>2. CASE Inserts
  <2>1. Changes(i)' = Changes(i) /\ rows'[i] = rows[i]
    BY <1>2 DEF Inserts, Changes
  <2> QED BY <2>1 DEF Birth
<1>3. CASE Moves
  <2> PICK j \in ChangeJob, upd \in Nat, t \in Nat :
            /\ clock <= t
            /\ j.id \in Ids
            /\ rows[j.id].state = j.from
            /\ ChangeState(j, upd, t)
    BY <1>3 DEF Moves
  <2> DEFINE new == EventAt(t, "state_changed", rows[j.id].user, j.id, j.from, j.to, upd)
  <2>1. CASE j.id # i
    <3>1. Changes(i)' = Changes(i) /\ rows'[i] = rows[i]
      BY <2>1 DEF ChangeState, Changes, EventAt, Ids
    <3> QED BY <3>1 DEF Birth
  <2>2. CASE j.id = i
    <3>1. Changes(i)' = Changes(i) \cup {new} /\ new.at = t /\ new.from = rows[i].state
      BY <2>2 DEF ChangeState, Changes, EventAt
    <3> HIDE DEF new
    <3>2. ASSUME NEW e \in Changes(i)', \A f \in Changes(i)' : e.at <= f.at
          PROVE  e.from = st
      <4>1. CASE Changes(i) = {}
        BY <3>1, <3>2, <4>1 DEF Birth
      <4>2. CASE Changes(i) # {}
        <5>1. e \in Changes(i) /\ \A f \in Changes(i) : e.at <= f.at
          BY <1>0, <3>1, <3>2, <4>2
        <5> QED BY <5>1 DEF Birth
      <4> QED BY <4>1, <4>2
    <3> QED BY <3>1, <3>2 DEF Birth
  <2> QED BY <2>1, <2>2
<1> QED BY <1>1, <1>2, <1>3, StepShape

\* Client c runs the ingest that inserted row i in state st.
Bears(c, i, st) ==
    /\ pc[c] \in {"select", "created"}
    /\ job[c].id = i /\ i # 0
    /\ job[c].state = st

\* What an ingest is about to log, or has logged, is how the row's changes
\* begin, whatever moved the row in between.
BirthInv ==
    /\ \A b \in events : b.type = "created" /\ b.actor = "system" =>
           b.target \in Ids /\ Birth(b.target, b.to)
    /\ \A c \in Clients, i \in Ids : \A st : Bears(c, i, st) => Birth(i, st)

\* The ingests that bear a row after a step did so before it, or inserted it.
LEMMA BearsStep ==
  ASSUME TypeInv, [Next]_vars, NEW c \in Clients, NEW i, NEW st, Bears(c, i, st)'
  PROVE  Bears(c, i, st) \/ (i = clock /\ Inserts /\ rows'[i].state = st)
<1>0. TypeInv /\ TypeOK /\ JobsMatchTables /\ clock \notin Ids
  BY DEF TypeInv, TypeOK
<1>a. pc'[c] \in {"select", "created"} /\ job'[c].id = i /\ i # 0 /\ job'[c].state = st
  BY DEF Bears
<1>1. CASE pc'[c] = pc[c] /\ job'[c] = job[c]
  BY <1>1, <1>a DEF Bears
<1>2. CASE InsertRow(c)
  <2> DEFINE j == job[c]
  <2>0. j.id = 0 /\ j \in IngestJob /\ DOMAIN job = Clients
    BY <1>0, <1>2 DEF InsertRow, JobsMatchTables, JobMatches, TypeOK
  <2>1. CASE Persisted(j) = {}
    <3>1. /\ events' = events
          /\ rows' = [k \in Ids \cup {clock} |-> IF k = clock THEN RowOf(j, clock) ELSE rows[k]]
          /\ job'[c] = [j EXCEPT !.id = clock]
      BY <1>2, <2>0, <2>1 DEF InsertRow, Continue
    <3>2. i = clock /\ rows'[i].state = st
      BY <1>a, <2>0, <3>1 DEF RowOf, IngestJob
    <3>3. /\ Ids' = Ids \cup {clock}
          /\ \A k \in Ids : rows'[k] = rows[k]
          /\ rows'[clock] = RowOf(j, clock)
      BY <1>0, <3>1 DEF Ids
    <3>4. rows'[clock].updatedAt = clock /\ \A k \in Ids : ~SameKey(rows[k], rows'[clock])
      BY <2>1, <3>3 DEF Persisted, SameKey, RowOf
    <3> QED BY <1>0, <3>1, <3>2, <3>3, <3>4 DEF Inserts
  <2>2. CASE Persisted(j) # {}
    <3>1. job'[c].id = 0
      BY <1>2, <2>0, <2>2 DEF InsertRow, Continue
    <3> QED BY <1>a, <3>1
  <2> QED BY <2>1, <2>2
<1>3. CASE StampCreated(c)
  <2>1. pc[c] = "select" /\ job[c] \in IngestJob /\ job'[c] = [job[c] EXCEPT !.at = clock]
    BY <1>0, <1>3 DEF StampCreated, Continue, TypeOK
  <2>2. job'[c].id = job[c].id /\ job'[c].state = job[c].state
    BY <2>1 DEF IngestJob
  <2> QED BY <1>a, <2>1, <2>2 DEF Bears
<1>4. CASE ~InsertRow(c) /\ ~StampCreated(c) /\ ~(pc'[c] = pc[c] /\ job'[c] = job[c])
  <2>1. ASSUME NEW d \in Clients, NEW s, NEW j, Continue(d, s, j), s \notin {"select", "created"}
        PROVE  FALSE
    BY <1>0, <1>4, <1>a, <2>1 DEF Continue, TypeOK
  <2>2. ASSUME NEW d \in Clients, Ingest(d) PROVE FALSE
    <3>1. CASE d = c
      <4>1. \E s \in {"insert", "idle"} : \E j : Continue(d, s, j)
        BY <1>4, <2>2, <3>1
           DEF Ingest, EnsureSource, ReaffirmMemory, ReturnDedupedClaim, AppendCreated, Return
      <4> QED BY <2>1, <4>1
    <3>2. CASE d # c
      BY <1>0, <1>4, <2>2, <3>2 DEF Ingest, EnsureSource, InsertRow, ReaffirmMemory, ReturnDedupedClaim,
           StampCreated, AppendCreated, Return, Continue, TypeOK
    <3> QED BY <3>1, <3>2
  <2>3. ASSUME NEW d \in Clients, Change(d) PROVE FALSE
    <3>1. \E s \in {"update", "review", "idle"} : \E j : Continue(d, s, j)
      BY <2>3 DEF Change, ReadClaim, UpdateClaim, StampReview, CommitReview, Return
    <3> QED BY <2>1, <3>1
  <2>4. ASSUME NEW d \in Clients, Backfill(d) PROVE FALSE
    BY <2>1, <2>4 DEF Backfill, BackfillSelectMemories, BackfillWriteAll, BackfillSelectClaims,
         BackfillWriteClaims, Return
  <2>5. ASSUME NEW d \in Clients, AuditOnly(d) PROVE FALSE
    BY <1>4, <2>5 DEF AuditOnly, Reaffirm, IngestHook
  <2>6. ASSUME NEW d \in Clients, Crash(d) PROVE FALSE
    <3>1. CASE d = c
      BY <1>0, <1>a, <2>6, <3>1 DEF Crash, TypeOK
    <3>2. CASE d # c
      BY <1>0, <1>4, <2>6, <3>2 DEF Crash, TypeOK
    <3> QED BY <3>1, <3>2
  <2> QED BY <1>4, <2>2, <2>3, <2>4, <2>5, <2>6 DEF Next, vars
<1> QED BY <1>1, <1>2, <1>3, <1>4

\* The system logs a creation only for the row its ingest bears.
LEMMA CreatedIsBorn ==
  ASSUME TypeInv, [Next]_vars, NEW b \in events' \ events,
         b.type = "created", b.actor = "system"
  PROVE  \E c \in Clients : Bears(c, b.target, b.to) /\ b.target \in Ids
<1>0. TypeOK /\ JobsMatchTables
  BY DEF TypeInv
<1>1. ASSUME NEW c \in Clients, AppendCreated(c) PROVE Bears(c, b.target, b.to) /\ b.target \in Ids
  <2>1. b.target = job[c].id /\ b.to = job[c].state /\ pc[c] = "created"
    BY <1>1 DEF AppendCreated, EventAt
  <2> QED BY <1>0, <2>1 DEF Bears, JobsMatchTables, JobMatches
<1>2. ASSUME NEW c \in Clients, Backfill(c) PROVE FALSE
  BY <1>2 DEF Backfill, BackfillSelectMemories, BackfillWriteAll, BackfillSelectClaims,
              BackfillWriteClaims, Synthesized
<1>a. ASSUME NEW e, events' = events \cup {e}, e.type # "created" PROVE FALSE
  BY <1>a
<1>3. ASSUME NEW c \in Clients, Change(c) PROVE FALSE
  <2>1. \E j, upd, t : ChangeState(j, upd, t)
    BY <1>3 DEF Change, ReadClaim, UpdateClaim, StampReview, CommitReview
  <2> QED BY <1>a, <2>1 DEF ChangeState, EventAt
<1>5. ASSUME NEW c \in Clients, AuditOnly(c) PROVE FALSE
  <2>1. \E type \in {"reaffirmed", "hook"} : \E u, i :
          events' = events \cup {EventAt(clock, type, u, i, NoState, NoState, 0)}
    BY <1>5 DEF AuditOnly, Reaffirm, IngestHook, RecordAudit
  <2> QED BY <1>a, <2>1 DEF EventAt
<1>6. ASSUME NEW c \in Clients, Crash(c) PROVE FALSE
  BY <1>6 DEF Crash
<1>4. ASSUME NEW c \in Clients, Ingest(c), ~AppendCreated(c) PROVE FALSE
  <2>1. ReaffirmMemory(c)
    BY <1>4 DEF Ingest, EnsureSource, InsertRow, ReturnDedupedClaim, StampCreated
  <2>2. \E u, i : events' = events \cup {EventAt(clock, "reaffirmed", u, i, NoState, NoState, 0)}
    BY <2>1 DEF ReaffirmMemory, RecordAudit
  <2> QED BY <1>a, <2>2 DEF EventAt
<1> QED BY <1>1, <1>2, <1>3, <1>4, <1>5, <1>6 DEF Next, vars

\* The inductive step of BirthInv.
LEMMA BirthStep == TypeInv /\ NoOrphanEvents /\ BirthInv /\ [Next]_vars => BirthInv'
<1> SUFFICES ASSUME TypeInv, NoOrphanEvents, BirthInv, [Next]_vars PROVE BirthInv'
  OBVIOUS
<1>0. Ids \subseteq Ids'
  <2>1. Moves => Ids' = Ids
    BY DEF Moves, ChangeState, Ids
  <2> QED BY <2>1, StepShape DEF Audits, Inserts, Ids
<1>1. ASSUME NEW b \in events', b.type = "created", b.actor = "system"
      PROVE  b.target \in Ids' /\ Birth(b.target, b.to)'
  <2>1. b.target \in Ids /\ Birth(b.target, b.to)
    <3>1. CASE b \in events
      BY <1>1, <3>1 DEF BirthInv
    <3>2. CASE b \notin events
      BY <1>1, <3>2, CreatedIsBorn DEF BirthInv
    <3> QED BY <3>1, <3>2
  <2> QED BY <1>0, <2>1, BirthKept
<1>2. ASSUME NEW c \in Clients, NEW i \in Ids', NEW st, Bears(c, i, st)'
      PROVE  Birth(i, st)'
  <2>1. CASE i \in Ids
    <3>1. Bears(c, i, st)
      BY <1>2, <2>1, BearsStep DEF TypeInv, TypeOK
    <3> QED BY <2>1, <3>1, BirthKept DEF BirthInv
  <2>2. CASE i \notin Ids
    <3>1. ~Bears(c, i, st)
      BY <2>2 DEF Bears, TypeInv, JobsMatchTables, JobMatches
    <3>2. i = clock /\ Inserts /\ rows'[i].state = st
      BY <1>2, <3>1, BearsStep
    <3>3. Changes(i)' = {}
      BY <2>2, <3>2 DEF Inserts, Changes, NoOrphanEvents, TypeInv, StampsArePast, NoTarget
    <3> QED BY <3>2, <3>3 DEF Birth
  <2> QED BY <2>1, <2>2
<1> QED BY <1>1, <1>2 DEF BirthInv

\* The chain of a claim's changes starts in the state that its ingest logged,
\* also when a transition ran between the row and its created event.
THEOREM ChainsStartAtBirth == Spec => []ChainStartsAtBirth
<1>1. Init => BirthInv
  BY DEF Init, BirthInv, Ids
<1>2. BirthInv => ChainStartsAtBirth
  BY DEF BirthInv, Birth, ChainStartsAtBirth
<1> QED BY <1>1, <1>2, BirthStep, TypeInvariant, OrphansRejected, PTL DEF Spec

------------------------------------------------------------------------------
(* The backfill.                                                           *)

\* What the backfill of client c has not read is not missing: the rows that
\* were there when it started either have their created event or are in its
\* snapshot, the memories first, then all of them.
BackfillCovers(c) ==
    /\ pc[c] \in {"writeAll", "selectClaims", "writeClaims"} =>
           job[c].since \in Nat /\ job[c].since <= clock
    /\ pc[c] = "writeAll" =>
           \A i \in Ids : i < job[c].since /\ rows[i].kind = "memory"
                            => HasCreated(i) \/ i \in DOMAIN job[c].snap
    /\ pc[c] = "selectClaims" =>
           \A i \in Ids : i < job[c].since /\ rows[i].kind = "memory" => HasCreated(i)
    /\ pc[c] = "writeClaims" =>
           \A i \in Ids : i < job[c].since => HasCreated(i) \/ i \in DOMAIN job[c].snap

BackfillInv == \A c \in Clients : BackfillCovers(c)

\* No step changes the kind of a row, takes an event back or makes a row with
\* an id in the past.
LEMMA TablesGrow ==
  ASSUME TypeInv, [Next]_vars
  PROVE  /\ events \subseteq events'
         /\ \A i \in Ids' : (i \in Ids /\ rows'[i].kind = rows[i].kind) \/ i = clock
         /\ clock \in Nat /\ clock' \in Nat /\ clock <= clock'
<1>0. TypeOK /\ TypeOK'
  BY TypeStep DEF TypeInv
<1>1. events \subseteq events' /\ \A i \in Ids' : (i \in Ids /\ rows'[i].kind = rows[i].kind) \/ i = clock
  <2>1. Moves => /\ events \subseteq events'
                 /\ \A i \in Ids' : i \in Ids /\ rows'[i].kind = rows[i].kind
    BY <1>0 DEF Moves, ChangeState, Ids, TypeOK, Row
  <2> QED BY <2>1, StepShape DEF Audits, Inserts, Ids
<1>2. clock' \in {clock, clock + 1, clock + 2}
  <2>1. ASSUME NEW c \in Clients, Ingest(c) PROVE clock' \in {clock, clock + 1, clock + 2}
    BY <2>1 DEF Ingest, EnsureSource, InsertRow, ReaffirmMemory, RecordAudit, ReturnDedupedClaim,
                StampCreated, AppendCreated
  <2>2. ASSUME NEW c \in Clients, Change(c) PROVE clock' \in {clock, clock + 1, clock + 2}
    BY <2>2 DEF Change, ReadClaim, UpdateClaim, StampReview, CommitReview
  <2>3. ASSUME NEW c \in Clients, AuditOnly(c) \/ Backfill(c) \/ Crash(c)
        PROVE  clock' \in {clock, clock + 1, clock + 2}
    BY <2>3 DEF AuditOnly, Reaffirm, IngestHook, RecordAudit, Backfill, BackfillSelectMemories,
                BackfillWriteAll, BackfillSelectClaims, BackfillWriteClaims, Crash
  <2> QED BY <2>1, <2>2, <2>3 DEF Next, vars
<1> QED BY <1>0, <1>1, <1>2 DEF TypeOK

\* The coverage of a backfill that does not move outlives the others' steps.
LEMMA CoversKept ==
  ASSUME TypeInv, [Next]_vars, NEW c \in Clients, BackfillCovers(c),
         pc'[c] = pc[c], job'[c] = job[c]
  PROVE  BackfillCovers(c)'
<1>1. \A i : HasCreated(i) => HasCreated(i)'
  BY TablesGrow DEF HasCreated
<1>2. ASSUME pc[c] \in {"writeAll", "selectClaims", "writeClaims"}
      PROVE  /\ job[c].since \in Nat /\ job[c].since <= clock'
             /\ \A i \in Ids' : i < job[c].since => i \in Ids /\ rows'[i].kind = rows[i].kind
  BY <1>2, TablesGrow DEF BackfillCovers
<1> QED BY <1>1, <1>2 DEF BackfillCovers

\* Only the backfill's own steps change where it stands and what it has read.
LEMMA OthersDoNotBackfill ==
  ASSUME TypeInv, [Next]_vars, NEW c \in Clients, ~Backfill(c),
         pc'[c] \in {"writeAll", "selectClaims", "writeClaims"}
  PROVE  pc'[c] = pc[c] /\ job'[c] = job[c]
<1>0. TypeOK
  BY DEF TypeInv
<1>1. ASSUME NEW d \in Clients, NEW s, NEW j, Continue(d, s, j),
             d # c \/ s \notin {"writeAll", "selectClaims", "writeClaims"}
      PROVE  pc'[c] = pc[c] /\ job'[c] = job[c]
  BY <1>0, <1>1 DEF Continue, TypeOK
<1>2. ASSUME NEW d \in Clients, Ingest(d) PROVE pc'[c] = pc[c] /\ job'[c] = job[c]
  <2>1. \E s \in {"insert", "select", "created", "idle"} : \E j : Continue(d, s, j)
    BY <1>2 DEF Ingest, EnsureSource, InsertRow, ReaffirmMemory, ReturnDedupedClaim, StampCreated,
                AppendCreated, Return
  <2> QED BY <1>1, <2>1
<1>3. ASSUME NEW d \in Clients, Change(d) PROVE pc'[c] = pc[c] /\ job'[c] = job[c]
  <2>1. \E s \in {"update", "review", "idle"} : \E j : Continue(d, s, j)
    BY <1>3 DEF Change, ReadClaim, UpdateClaim, StampReview, CommitReview, Return
  <2> QED BY <1>1, <2>1
<1>4. ASSUME NEW d \in Clients, d # c, Backfill(d) PROVE pc'[c] = pc[c] /\ job'[c] = job[c]
  <2>1. \E s, j : Continue(d, s, j)
    BY <1>4 DEF Backfill, BackfillSelectMemories, BackfillWriteAll, BackfillSelectClaims,
                BackfillWriteClaims, Return
  <2> QED BY <1>1, <1>4, <2>1
<1>5. ASSUME NEW d \in Clients, AuditOnly(d) \/ Crash(d) PROVE pc'[c] = pc[c] /\ job'[c] = job[c]
  BY <1>0, <1>5 DEF AuditOnly, Reaffirm, IngestHook, Crash, TypeOK
<1> QED BY <1>2, <1>3, <1>4, <1>5 DEF Next, vars

\* A backfill that writes leaves every row that was there when it started with
\* a created event.
LEMMA BackfillWrites ==
  ASSUME TypeInv, BackfillInv, [Next]_vars, NEW c \in Clients,
         BackfillWriteAll(c) \/ BackfillWriteClaims(c)
  PROVE  \A i \in Ids : i < job[c].since => HasCreated(i)'
<1>0. BackfillCovers(c) /\ TypeOK
  BY DEF BackfillInv, TypeInv
<1>1. ASSUME NEW snap, NEW i \in DOMAIN snap, Synthesized(snap) \subseteq events' PROVE HasCreated(i)'
  <2> DEFINE e == [type |-> "created", actor |-> "backfill", user |-> snap[i].user, target |-> i,
                   from |-> NoState, to |-> snap[i].state, updatedAt |-> snap[i].updatedAt,
                   at |-> i, minted |-> clock]
  <2>1. e \in Synthesized(snap) /\ e.type = "created" /\ e.target = i
    BY DEF Synthesized
  <2> QED BY <1>1, <2>1 DEF HasCreated
<1>2. ASSUME NEW i \in Ids, i < job[c].since, ~HasCreated(i) PROVE HasCreated(i)'
  <2>1. CASE i \in DOMAIN job[c].snap
    BY <1>1, <2>1 DEF BackfillWriteAll, BackfillWriteClaims
  <2>2. CASE i \notin DOMAIN job[c].snap
    <3>1. BackfillWriteAll(c) /\ rows[i].kind # "memory"
      BY <1>0, <1>2, <2>2 DEF BackfillWriteClaims, BackfillCovers, BackfillWriteAll
    <3>2. i \in ClaimsWithMemories
      BY <1>0, <1>2, <3>1 DEF ClaimsWithMemories, MissingCreated, TypeOK, Row, Kinds
    <3>3. i \in DOMAIN Snapshot(ClaimsWithMemories)
      BY <3>2 DEF Snapshot
    <3> QED BY <1>1, <3>1, <3>3 DEF BackfillWriteAll
  <2> QED BY <2>1, <2>2
<1>3. \A i : HasCreated(i) => HasCreated(i)'
  BY TablesGrow DEF HasCreated
<1> QED BY <1>2, <1>3

\* The inductive step: each phase of a backfill hands over what it covers.
LEMMA BackfillStep == TypeInv /\ BackfillInv /\ [Next]_vars => BackfillInv'
<1> SUFFICES ASSUME TypeInv, BackfillInv, [Next]_vars, NEW c \in Clients PROVE BackfillCovers(c)'
  BY DEF BackfillInv
<1>0. BackfillCovers(c) /\ TypeOK /\ clock \in Nat /\ \A i \in Ids : rows[i].kind \in Kinds
  BY DEF BackfillInv, TypeInv, TypeOK, Row
<1>1. CASE ~Backfill(c)
  <2>1. CASE pc'[c] \in {"writeAll", "selectClaims", "writeClaims"}
    BY <1>0, <1>1, <2>1, OthersDoNotBackfill, CoversKept
  <2>2. CASE pc'[c] \notin {"writeAll", "selectClaims", "writeClaims"}
    BY <2>2 DEF BackfillCovers
  <2> QED BY <2>1, <2>2
<1>2. CASE BackfillSelectMemories(c)
  <2> DEFINE M == MissingCreated("memory")
  <2>1. /\ UNCHANGED <<rows, events, clock>>
        /\ pc'[c] = IF M = {} THEN "selectClaims" ELSE "writeAll"
        /\ job'[c].since = clock /\ DOMAIN job'[c].snap = M
    BY <1>0, <1>2 DEF BackfillSelectMemories, Continue, BackfillJob, Snapshot, TypeOK
  <2>2. \A i \in Ids : rows[i].kind = "memory" => HasCreated(i) \/ i \in M
    BY DEF MissingCreated
  <2>3. \A i : HasCreated(i) => HasCreated(i)'
    BY <2>1 DEF HasCreated
  <2> HIDE DEF M
  <2> QED BY <1>0, <2>1, <2>2, <2>3 DEF BackfillCovers, Ids
<1>3. CASE BackfillSelectClaims(c)
  <2> DEFINE M == MissingCreated("claim")
  <2>1. /\ UNCHANGED <<rows, events, clock>>
        /\ pc[c] = "selectClaims" /\ pc'[c] = "writeClaims"
        /\ job'[c].since = job[c].since /\ DOMAIN job'[c].snap = M
    BY <1>0, <1>3 DEF BackfillSelectClaims, Continue, BackfillJob, Snapshot, TypeOK
  <2>2. \A i \in Ids : rows[i].kind = "claim" => HasCreated(i) \/ i \in M
    BY DEF MissingCreated
  <2>3. \A i : HasCreated(i) => HasCreated(i)'
    BY <2>1 DEF HasCreated
  <2> HIDE DEF M
  <2> QED BY <1>0, <2>1, <2>2, <2>3 DEF BackfillCovers, Ids, Kinds
<1>4. CASE BackfillWriteAll(c) \/ BackfillWriteClaims(c)
  <2>1. pc'[c] = "idle"
    BY <1>0, <1>4 DEF BackfillWriteAll, BackfillWriteClaims, Return, Continue, TypeOK
  <2> QED BY <2>1 DEF BackfillCovers
<1> QED BY <1>1, <1>2, <1>3, <1>4 DEF Backfill

\* A backfill that returns has repaired every row that was there when it
\* started, whatever was ingested, moved or backfilled meanwhile.
THEOREM BackfillRepairs == Spec => BackfillIsComplete
<1>1. Init => BackfillInv
  BY DEF Init, BackfillInv, BackfillCovers
<1>2. TypeInv /\ BackfillInv /\ [Next]_vars =>
        [\A c \in Clients :
           pc[c] \in {"writeAll", "writeClaims"} /\ pc'[c] = "idle" =>
             \A i \in Ids : i < job[c].since => HasCreated(i)']_vars
  <2> SUFFICES ASSUME TypeInv, BackfillInv, [Next]_vars, NEW c \in Clients,
                      pc[c] \in {"writeAll", "writeClaims"}, pc'[c] = "idle"
               PROVE  \A i \in Ids : i < job[c].since => HasCreated(i)'
    OBVIOUS
  <2>0. TypeOK
    BY DEF TypeInv
  <2>1. BackfillWriteAll(c) \/ BackfillWriteClaims(c)
    <3>1. ASSUME NEW d \in Clients, d # c,
                 Ingest(d) \/ Change(d) \/ AuditOnly(d) \/ Backfill(d) \/ Crash(d)
          PROVE  pc'[c] = pc[c]
      BY <2>0, <3>1 DEF TypeOK, Ingest, EnsureSource, InsertRow, ReaffirmMemory,
         ReturnDedupedClaim, StampCreated, AppendCreated, Change, ReadClaim, UpdateClaim, StampReview,
         CommitReview, AuditOnly, Reaffirm, IngestHook, Backfill, BackfillSelectMemories,
         BackfillWriteAll, BackfillSelectClaims, BackfillWriteClaims, Crash, Return, Continue
    <3>2. ASSUME Ingest(c) \/ Change(c) \/ AuditOnly(c) PROVE FALSE
      BY <3>2 DEF Ingest, EnsureSource, InsertRow, ReaffirmMemory, Deduped, Start,
         ReturnDedupedClaim, StampCreated, AppendCreated, Change, ReadClaim, UpdateClaim, StampReview,
         CommitReview, AuditOnly, Reaffirm, IngestHook
    <3>3. ~Crash(c)
      BY <2>0 DEF Crash, TypeOK
    <3>4. ~BackfillSelectMemories(c) /\ ~BackfillSelectClaims(c)
      BY DEF BackfillSelectMemories, BackfillSelectClaims, Start
    <3> QED BY <3>1, <3>2, <3>3, <3>4 DEF Next, vars, Backfill
  <2> QED BY <2>1, BackfillWrites
<1> QED BY <1>1, <1>2, BackfillStep, TypeInvariant, PTL DEF Spec, BackfillIsComplete

------------------------------------------------------------------------------
(* The rebuild.                                                            *)

\* The order of the log: no event carries the stamps of another, also when its
\* writer stamped it in an earlier transaction; a change is stamped after its
\* row was made, a backfilled creation with the tick that made the row.
StampInv ==
    /\ \A e \in events :
          /\ e.minted < clock
          /\ e.type = "state_changed" => e.target < e.at
          /\ e.actor = "backfill" => e.type = "created" /\ e.at = e.target
    /\ \A e, f \in events : e.at = f.at /\ e.minted = f.minted => e = f
    /\ \A c \in Clients : pc[c] = "created" =>
          /\ \A e \in events : e.minted # job[c].at
          /\ \A d \in Clients : pc[d] = "created" /\ job[d].at = job[c].at => c = d

\* What the backfill of client c has read of a row is the row, until the row's
\* first change; memories and claims are not written by one snapshot.
SnapFresh(c) ==
    pc[c] \in {"writeAll", "selectClaims", "writeClaims"} =>
        \A i \in DOMAIN job[c].snap :
            /\ Changes(i) = {} => rows[i] = job[c].snap[i]
            /\ pc[c] = "writeAll" => rows[i].kind = "memory"

\* The payload of a created event is the row, until the row's first change.
PayloadInv ==
    /\ \A i \in Ids : Changes(i) = {} => rows[i].updatedAt = i
    /\ \A b \in events : b.type = "created" /\ b.actor = "system" => b.updatedAt = b.target
    /\ \A b \in events : b.actor = "backfill" =>
          /\ b.target \in Ids
          /\ Changes(b.target) = {} =>
                 rows[b.target].state = b.to /\ rows[b.target].updatedAt = b.updatedAt
    /\ \A c \in Clients : SnapFresh(c)

\* What a step may append to the log.
NewEvents ==
    \A e \in events' \ events :
        /\ e.minted < clock'
        /\ e.type = "state_changed" => e.target < e.at
        /\ e.actor = "backfill" => e.type = "created" /\ e.at = e.target
        /\ \A f \in events' : f.at = e.at /\ f.minted = e.minted => f = e
        /\ \A d \in Clients : pc'[d] = "created" => e.minted # job'[d].at

\* A client comes to hold a stamp for its created event by taking a fresh one.
LEMMA StampHolders ==
  ASSUME TypeInv, [Next]_vars, NEW d \in Clients, pc'[d] = "created"
  PROVE  \/ pc[d] = "created" /\ job'[d] = job[d]
         \/ job'[d].at = clock /\ events' = events /\ clock' = clock + 1
            /\ \A c \in Clients \ {d} : pc'[c] = pc[c] /\ job'[c] = job[c]
<1>0. TypeOK
  BY DEF TypeInv
<1> DEFINE Goal == \/ pc[d] = "created" /\ job'[d] = job[d]
                   \/ job'[d].at = clock /\ events' = events /\ clock' = clock + 1
                      /\ \A c \in Clients \ {d} : pc'[c] = pc[c] /\ job'[c] = job[c]
<1>1. ASSUME NEW c \in Clients, NEW s, NEW j, Continue(c, s, j), c # d \/ s # "created" PROVE Goal
  BY <1>0, <1>1 DEF Continue, TypeOK
<1>2. ASSUME NEW c \in Clients, Ingest(c), ~StampCreated(c) PROVE Goal
  <2>1. \E s \in {"insert", "select", "idle"} : \E j : Continue(c, s, j)
    BY <1>2 DEF Ingest, EnsureSource, InsertRow, ReaffirmMemory, ReturnDedupedClaim, AppendCreated, Return
  <2> QED BY <1>1, <2>1
<1>3. ASSUME NEW c \in Clients, StampCreated(c) PROVE Goal
  <2>1. CASE c # d
    BY <1>1, <1>3, <2>1 DEF StampCreated
  <2>2. CASE c = d
    <3>1. /\ job[d] \in IngestJob /\ job' = [job EXCEPT ![d] = [job[d] EXCEPT !.at = clock]]
          /\ pc' = [pc EXCEPT ![d] = "created"] /\ events' = events /\ clock' = clock + 1
      BY <1>0, <1>3, <2>2 DEF StampCreated, Continue, TypeOK
    <3>2. job'[d].at = clock
      BY <1>0, <3>1 DEF TypeOK, IngestJob
    <3> QED BY <1>0, <3>1, <3>2 DEF TypeOK
  <2> QED BY <2>1, <2>2
<1>4. ASSUME NEW c \in Clients, Change(c) \/ Backfill(c) PROVE Goal
  <2>1. \E s \in Steps \ {"created"} : \E j : Continue(c, s, j)
    BY <1>4 DEF Change, ReadClaim, UpdateClaim, StampReview, CommitReview, Backfill, BackfillSelectMemories,
                BackfillWriteAll, BackfillSelectClaims, BackfillWriteClaims, Return, Steps
  <2> QED BY <1>1, <2>1
<1>5. ASSUME NEW c \in Clients, AuditOnly(c) PROVE Goal
  BY <1>5 DEF AuditOnly, Reaffirm, IngestHook
<1>6. ASSUME NEW c \in Clients, Crash(c) PROVE Goal
  BY <1>0, <1>6 DEF Crash, TypeOK
<1> QED BY <1>2, <1>3, <1>4, <1>5, <1>6 DEF Next, vars

\* Whoever appends, an event's stamps are new.
LEMMA EventsAreNew ==
  ASSUME TypeInv, StampInv, PayloadInv, [Next]_vars PROVE NewEvents
<1>0. TypeOK /\ JobsMatchTables /\ StampsArePast /\ clock \in Nat
  BY DEF TypeInv, TypeOK
<1>1. CASE events' = events
  BY <1>1 DEF NewEvents
<1>2. \A f \in events : f.at < clock /\ f.minted < clock /\ f.at \in Nat /\ f.minted \in Nat
  BY <1>0 DEF StampsArePast, StampInv, TypeOK, Event
<1>3. ASSUME events' # events, NEW d \in Clients, pc'[d] = "created"
      PROVE  pc[d] = "created" /\ job'[d] = job[d] /\ job[d].at \in Nat /\ job[d].at < clock
  <2>1. pc[d] = "created" /\ job'[d] = job[d]
    BY <1>3, StampHolders
  <2> QED BY <1>0, <2>1 DEF TypeOK, IngestJob, JobsMatchTables, JobMatches
<1>4. ASSUME NEW t \in Nat, clock <= t, t < clock', NEW type, NEW u, NEW i, NEW from, NEW to, NEW upd,
             events' = events \cup {EventAt(t, type, u, i, from, to, upd)},
             type = "state_changed" => i < t
      PROVE  NewEvents
  <2> DEFINE e == EventAt(t, type, u, i, from, to, upd)
  <2>1. e.at = t /\ e.minted = t /\ e.actor = "system" /\ e.type = type /\ e.target = i
    BY DEF EventAt
  <2> HIDE DEF e
  <2>2. events' = events \cup {e}
    BY <1>4 DEF e
  <2>3. \A f \in events' : f.at = e.at /\ f.minted = e.minted => f = e
    BY <1>0, <1>2, <1>4, <2>1, <2>2
  <2>4. \A d \in Clients : pc'[d] = "created" => e.minted # job'[d].at
    <3>1. CASE events' = events
      <4>1. e \in events
        BY <2>2, <3>1
      <4> QED BY <1>0, <1>2, <1>4, <2>1, <4>1
    <3>2. CASE events' # events
      BY <1>0, <1>3, <1>4, <2>1, <3>2
    <3> QED BY <3>1, <3>2
  <2> QED BY <1>4, <2>1, <2>2, <2>3, <2>4 DEF NewEvents
<1>5. ASSUME NEW type \in {"reaffirmed", "hook"}, NEW u, NEW i, RecordAudit(type, u, i) PROVE NewEvents
  BY <1>0, <1>4, <1>5 DEF RecordAudit
<1>6. ASSUME NEW c \in Clients, AppendCreated(c) PROVE NewEvents
  <2> DEFINE j == job[c]
             e == EventAt(j.at, "created", j.user, j.id, NoState, j.state, j.id)
  <2>1. /\ pc[c] = "created" /\ j.at \in Nat /\ j.at < clock /\ clock' = clock
        /\ pc' = [pc EXCEPT ![c] = "idle"]
    BY <1>0, <1>6 DEF AppendCreated, TypeOK, IngestJob, JobsMatchTables, JobMatches, Return, Continue
  <2>2. e.at = j.at /\ e.minted = j.at /\ e.actor = "system" /\ e.type = "created" /\ events' = events \cup {e}
    BY <1>6 DEF AppendCreated, EventAt
  <2> HIDE DEF e
  <2>3. \A f \in events : f.minted # e.minted
    BY <2>1, <2>2 DEF StampInv
  <2>4. \A d \in Clients : pc'[d] = "created" => d # c /\ pc[d] = "created" /\ job'[d] = job[d]
    <3>1. e \notin events
      BY <2>3
    <3> QED BY <1>0, <1>3, <2>1, <2>2, <3>1 DEF TypeOK
  <2>5. \A d \in Clients : pc'[d] = "created" => e.minted # job'[d].at
    BY <2>1, <2>2, <2>4 DEF StampInv
  <2> QED BY <2>1, <2>2, <2>3, <2>5 DEF NewEvents
<1>7. ASSUME NEW c \in Clients, UpdateClaim(c) \/ CommitReview(c) PROVE NewEvents
  <2>1. CASE events' # events
    <3>1. /\ \/ ChangeState(job[c], clock, clock + 1) /\ clock' = clock + 2
             \/ ChangeState(job[c], job[c].at, clock) /\ clock' = clock + 1
          /\ pc[c] \in {"update", "review"}
      BY <1>7, <2>1 DEF UpdateClaim, CommitReview
    <3>2. job[c].id \in Ids
      BY <1>0, <3>1 DEF JobsMatchTables, JobMatches
    <3>3. job[c].id \in Nat /\ job[c].id < clock
      <4>1. job[c].id \in 1 .. clock - 1
        BY <1>0, <3>2 DEF TypeOK
      <4> QED BY <1>0, <4>1
    <3>4. ASSUME NEW upd, NEW t \in {clock, clock + 1}, t < clock', ChangeState(job[c], upd, t) PROVE NewEvents
      <4>1. events' = events \cup {EventAt(t, "state_changed", rows[job[c].id].user, job[c].id,
                                           job[c].from, job[c].to, upd)}
        BY <3>4 DEF ChangeState
      <4> QED BY <1>0, <1>4, <3>3, <3>4, <4>1
    <3> QED BY <1>0, <3>1, <3>4
  <2> QED BY <1>1, <2>1
<1>8. ASSUME NEW c \in Clients, NEW u \in Users, IngestHook(c, u) PROVE NewEvents
  <2>1. CASE \E i \in Ids : RecordAudit("hook", u, i)
    BY <1>5, <2>1
  <2>2. CASE /\ events' = events \cup {EventAt(clock, "hook", u, NoTarget, NoState, NoState, 0)}
             /\ clock' = clock + 1
    BY <1>0, <1>4, <2>2
  <2> QED BY <1>8, <2>1, <2>2 DEF IngestHook
<1>9. ASSUME NEW S, events' = events \cup S, clock' = clock + 1,
             \A e \in S : e.minted = clock /\ e.type = "created" /\ e.at = e.target,
             \A e, f \in S : e.target = f.target => e = f
      PROVE  NewEvents
  <2> SUFFICES ASSUME NEW e \in events' \ events
               PROVE  /\ e.minted < clock'
                      /\ e.type = "state_changed" => e.target < e.at
                      /\ e.actor = "backfill" => e.type = "created" /\ e.at = e.target
                      /\ \A f \in events' : f.at = e.at /\ f.minted = e.minted => f = e
                      /\ \A d \in Clients : pc'[d] = "created" => e.minted # job'[d].at
    BY DEF NewEvents
  <2>1. e \in S /\ e.minted = clock /\ events' # events
    BY <1>9
  <2>2. \A f \in events' : f.at = e.at /\ f.minted = e.minted => f = e
    BY <1>0, <1>2, <1>9, <2>1
  <2>3. \A d \in Clients : pc'[d] = "created" => e.minted # job'[d].at
    BY <1>0, <1>3, <2>1
  <2> QED BY <1>0, <1>9, <2>1, <2>2, <2>3
<1>10. ASSUME NEW snap, NEW e \in Synthesized(snap)
       PROVE  /\ e.minted = clock /\ e.type = "created" /\ e.at = e.target /\ e.target \in DOMAIN snap
              /\ \A f \in Synthesized(snap) : f.target = e.target => f = e
  BY <1>10 DEF Synthesized
<1>11. ASSUME NEW c \in Clients, BackfillWriteAll(c) PROVE NewEvents
  <2> DEFINE T == Snapshot(ClaimsWithMemories)
  <2>1. /\ events' = events \cup (Synthesized(job[c].snap) \cup Synthesized(T)) /\ clock' = clock + 1
        /\ pc[c] = "writeAll"
    BY <1>11 DEF BackfillWriteAll
  <2>2. \A i \in DOMAIN job[c].snap : rows[i].kind = "memory"
    BY <2>1 DEF PayloadInv, SnapFresh
  <2>3. \A i \in DOMAIN T : rows[i].kind = "claim"
    BY DEF Snapshot, ClaimsWithMemories, MissingCreated
  <2> HIDE DEF T
  <2> DEFINE S == Synthesized(job[c].snap) \cup Synthesized(T)
  <2>4. \A e \in S : e.minted = clock /\ e.type = "created" /\ e.at = e.target
    BY <1>10
  <2>5. \A e, f \in S : e.target = f.target => e = f
    BY <1>10, <2>2, <2>3
  <2> HIDE DEF S
  <2>6. events' = events \cup S
    BY <2>1 DEF S
  <2> QED BY <1>9, <2>1, <2>4, <2>5, <2>6
<1>12. ASSUME NEW c \in Clients, BackfillWriteClaims(c) PROVE NewEvents
  BY <1>9, <1>10, <1>12 DEF BackfillWriteClaims
<1>13. ASSUME NEW c \in Clients, Ingest(c), ~AppendCreated(c) PROVE NewEvents
  BY <1>1, <1>5, <1>13 DEF Ingest, EnsureSource, InsertRow, ReaffirmMemory, ReturnDedupedClaim, StampCreated
<1>14. ASSUME NEW c \in Clients, Change(c) PROVE NewEvents
  BY <1>1, <1>7, <1>14 DEF Change, ReadClaim, StampReview
<1>15. ASSUME NEW c \in Clients, AuditOnly(c) PROVE NewEvents
  BY <1>5, <1>8, <1>15 DEF AuditOnly, Reaffirm
<1>16. ASSUME NEW c \in Clients, Backfill(c) PROVE NewEvents
  BY <1>1, <1>11, <1>12, <1>16 DEF Backfill, BackfillSelectMemories, BackfillSelectClaims
<1> QED BY <1>1, <1>6, <1>13, <1>14, <1>15, <1>16 DEF Next, Crash, vars

\* The stamps stay unique.
LEMMA StampStep ==
  ASSUME TypeInv, StampInv, PayloadInv, [Next]_vars PROVE StampInv'
<1>0. NewEvents /\ clock \in Nat /\ clock' \in Nat /\ clock <= clock' /\ events \subseteq events'
  BY EventsAreNew, TablesGrow
<1>1. \A f \in events : f.minted \in Nat /\ f.minted < clock
  BY DEF StampInv, TypeInv, TypeOK, Event
<1>2. \A e \in events' :
          /\ e.minted < clock'
          /\ e.type = "state_changed" => e.target < e.at
          /\ e.actor = "backfill" => e.type = "created" /\ e.at = e.target
  BY <1>0, <1>1 DEF StampInv, NewEvents
<1>3. \A e, f \in events' : e.at = f.at /\ e.minted = f.minted => e = f
  BY <1>0 DEF StampInv, NewEvents
<1>4. ASSUME NEW c \in Clients, pc'[c] = "created", NEW e \in events' PROVE e.minted # job'[c].at
  <2>1. CASE e \notin events
    BY <1>0, <1>4, <2>1 DEF NewEvents
  <2>2. CASE e \in events
    BY <1>0, <1>1, <1>4, <2>2, StampHolders DEF StampInv
  <2> QED BY <2>1, <2>2
<1>5. ASSUME NEW c \in Clients, NEW d \in Clients, pc'[c] = "created", pc'[d] = "created",
             job'[d].at = job'[c].at
      PROVE  c = d
  <2>1. \A b \in Clients : pc[b] = "created" => job[b].at \in Nat /\ job[b].at < clock
    BY DEF TypeInv, TypeOK, IngestJob, JobsMatchTables, JobMatches
  <2> QED BY <1>0, <1>5, <2>1, StampHolders DEF StampInv
<1> QED BY <1>2, <1>3, <1>4, <1>5 DEF StampInv

\* What agrees with a row that no change has touched goes on agreeing: only a
\* change moves a row, and it leaves an event.
LEMMA UntouchedKept ==
  ASSUME TypeInv, [Next]_vars, NEW i \in Ids, Changes(i)' = {}
  PROVE  Changes(i) = {} /\ rows'[i] = rows[i]
<1>1. CASE Audits
  BY <1>1 DEF Audits, Changes
<1>2. CASE Inserts
  BY <1>2 DEF Inserts, Changes
<1>3. CASE Moves
  <2> PICK j \in ChangeJob, upd \in Nat, t \in Nat : j.id \in Ids /\ ChangeState(j, upd, t)
    BY <1>3 DEF Moves
  <2> DEFINE new == EventAt(t, "state_changed", rows[j.id].user, j.id, j.from, j.to, upd)
  <2>1. events' = events \cup {new} /\ new.type = "state_changed" /\ new.target = j.id
    BY DEF ChangeState, EventAt
  <2> HIDE DEF new
  <2>2. j.id # i
    BY <2>1 DEF Changes
  <2>3. rows'[i] = rows[i]
    BY <2>2 DEF ChangeState, Ids
  <2> QED BY <2>1, <2>3 DEF Changes
<1> QED BY <1>1, <1>2, <1>3, StepShape

\* Each client's snapshot, if it still has one, is what it read.
LEMMA SnapStep ==
  ASSUME TypeInv, PayloadInv, [Next]_vars, NEW c \in Clients PROVE SnapFresh(c)'
<1>0. TypeOK /\ JobsMatchTables /\ SnapFresh(c)
  BY DEF TypeInv, PayloadInv
<1>1. CASE pc'[c] = pc[c] /\ job'[c] = job[c]
  <2> SUFFICES ASSUME pc[c] \in {"writeAll", "selectClaims", "writeClaims"}, NEW i \in DOMAIN job[c].snap
               PROVE  /\ Changes(i)' = {} => rows'[i] = job[c].snap[i]
                      /\ pc[c] = "writeAll" => rows'[i].kind = "memory"
    BY <1>1 DEF SnapFresh
  <2>1. i \in Ids
    BY <1>0 DEF JobsMatchTables, JobMatches, SnapshotOK
  <2>2. rows'[i].kind = rows[i].kind
    <3>1. Ids \subseteq Ids'
      <4>1. Moves => Ids' = Ids
        BY DEF Moves, ChangeState, Ids
      <4> QED BY <4>1, StepShape DEF Audits, Inserts, Ids
    <3>2. i # clock
      BY <1>0, <2>1 DEF TypeOK
    <3> QED BY <2>1, <3>1, <3>2, TablesGrow
  <2> QED BY <1>0, <2>1, <2>2, UntouchedKept DEF SnapFresh
<1>2. CASE Backfill(c) /\ ~(pc'[c] = pc[c] /\ job'[c] = job[c])
  <2>1. ASSUME NEW k, NEW s, NEW since, UNCHANGED <<rows, events>>,
               Continue(c, s, BackfillJob(Snapshot(MissingCreated(k)), since)),
               s = "writeAll" => k = "memory"
        PROVE  SnapFresh(c)'
    <3>1. job'[c].snap = Snapshot(MissingCreated(k)) /\ pc'[c] = s
      BY <1>0, <2>1 DEF Continue, BackfillJob, TypeOK
    <3> QED BY <2>1, <3>1 DEF SnapFresh, Snapshot, MissingCreated, Changes
  <2>2. CASE BackfillSelectMemories(c)
    BY <2>1, <2>2 DEF BackfillSelectMemories
  <2>3. CASE BackfillSelectClaims(c)
    BY <2>1, <2>3 DEF BackfillSelectClaims
  <2>4. CASE BackfillWriteAll(c) \/ BackfillWriteClaims(c)
    <3>1. pc'[c] = "idle"
      BY <1>0, <2>4 DEF BackfillWriteAll, BackfillWriteClaims, Return, Continue, TypeOK
    <3> QED BY <3>1 DEF SnapFresh
  <2> QED BY <1>2, <2>2, <2>3, <2>4 DEF Backfill
<1>3. CASE ~Backfill(c) /\ ~(pc'[c] = pc[c] /\ job'[c] = job[c])
  BY <1>3, OthersDoNotBackfill DEF SnapFresh
<1> QED BY <1>1, <1>2, <1>3

\* What a step adds to the created events carries the row as it is.
NewPayloads ==
    \A b \in events' \ events :
       /\ b.type = "created" /\ b.actor = "system" => b.updatedAt = b.target
       /\ b.actor = "backfill" =>
             /\ b.target \in Ids
             /\ Changes(b.target) = {} =>
                    rows[b.target].state = b.to /\ rows[b.target].updatedAt = b.updatedAt

\* The ingest logs the row it inserted, the backfill what it has read.
LEMMA PayloadsAreRows == ASSUME TypeInv, PayloadInv, [Next]_vars PROVE NewPayloads
<1>0. TypeOK /\ JobsMatchTables
  BY DEF TypeInv
<1>1. CASE events' = events
  BY <1>1 DEF NewPayloads
<1>2. ASSUME NEW e, events' = events \cup {e}, e.actor = "system",
             e.type = "created" => e.updatedAt = e.target
      PROVE  NewPayloads
  BY <1>2 DEF NewPayloads
<1>3. ASSUME NEW t, NEW type, NEW u, NEW i, NEW from, NEW to, NEW upd,
             events' = events \cup {EventAt(t, type, u, i, from, to, upd)},
             type = "created" => upd = i
      PROVE  NewPayloads
  <2> DEFINE e == EventAt(t, type, u, i, from, to, upd)
  <2>1. e.actor = "system" /\ e.type = type /\ e.updatedAt = upd /\ e.target = i /\ events' = events \cup {e}
    BY <1>3 DEF EventAt
  <2> HIDE DEF e
  <2> QED BY <1>2, <1>3, <2>1
<1>4. ASSUME NEW c \in Clients, Ingest(c) PROVE NewPayloads
  <2>1. CASE ReaffirmMemory(c)
    BY <1>3, <2>1 DEF ReaffirmMemory, RecordAudit
  <2>2. CASE AppendCreated(c)
    BY <1>3, <2>2 DEF AppendCreated
  <2> QED BY <1>1, <1>4, <2>1, <2>2 DEF Ingest, EnsureSource, InsertRow, ReturnDedupedClaim, StampCreated
<1>5. ASSUME NEW c \in Clients, Change(c) PROVE NewPayloads
  <2>1. ASSUME NEW j, NEW upd, NEW t, ChangeState(j, upd, t) PROVE NewPayloads
    <3>1. events' = events \cup {EventAt(t, "state_changed", rows[j.id].user, j.id, j.from, j.to, upd)}
      BY <2>1 DEF ChangeState
    <3> QED BY <1>3, <3>1
  <2> QED BY <1>1, <1>5, <2>1 DEF Change, ReadClaim, StampReview, UpdateClaim, CommitReview
<1>6. ASSUME NEW c \in Clients, AuditOnly(c) PROVE NewPayloads
  BY <1>3, <1>6 DEF AuditOnly, Reaffirm, IngestHook, RecordAudit
<1>7. ASSUME NEW snap, NEW b \in Synthesized(snap), DOMAIN snap \subseteq Ids,
             \A i \in DOMAIN snap : Changes(i) = {} => rows[i] = snap[i]
      PROVE  /\ b.actor = "backfill" /\ b.target \in Ids
             /\ Changes(b.target) = {} =>
                    rows[b.target].state = b.to /\ rows[b.target].updatedAt = b.updatedAt
  BY <1>7 DEF Synthesized
<1>8. ASSUME NEW c \in Clients, BackfillWriteAll(c) \/ BackfillWriteClaims(c) PROVE NewPayloads
  <2> DEFINE T == Snapshot(ClaimsWithMemories)
  <2>1. DOMAIN job[c].snap \subseteq Ids /\ \A i \in DOMAIN job[c].snap : Changes(i) = {} => rows[i] = job[c].snap[i]
    BY <1>0, <1>8 DEF BackfillWriteAll, BackfillWriteClaims, PayloadInv, SnapFresh, JobsMatchTables, JobMatches,
                      SnapshotOK
  <2>2. DOMAIN T \subseteq Ids /\ \A i \in DOMAIN T : Changes(i) = {} => rows[i] = T[i]
    BY DEF Snapshot, ClaimsWithMemories, MissingCreated
  <2>3. events' \subseteq events \cup Synthesized(job[c].snap) \cup Synthesized(T)
    BY <1>8 DEF BackfillWriteAll, BackfillWriteClaims
  <2> HIDE DEF T
  <2> SUFFICES ASSUME NEW b \in events' \ events
               PROVE  /\ b.actor = "backfill" /\ b.target \in Ids
                      /\ Changes(b.target) = {} =>
                             rows[b.target].state = b.to /\ rows[b.target].updatedAt = b.updatedAt
    BY DEF NewPayloads
  <2> QED BY <1>7, <2>1, <2>2, <2>3
<1>9. ASSUME NEW c \in Clients, Backfill(c) PROVE NewPayloads
  BY <1>1, <1>8, <1>9 DEF Backfill, BackfillSelectMemories, BackfillSelectClaims
<1> QED BY <1>1, <1>4, <1>5, <1>6, <1>9 DEF Next, Crash, vars

\* The payloads stay what the rows were before their first change.
LEMMA PayloadStep ==
  ASSUME TypeInv, PayloadInv, [Next]_vars PROVE PayloadInv'
<1>0. NewPayloads /\ events \subseteq events'
  BY PayloadsAreRows, TablesGrow
<1>1. ASSUME NEW i \in Ids', Changes(i)' = {} PROVE rows'[i].updatedAt = i
  <2>1. CASE i \in Ids
    BY <1>1, <2>1, UntouchedKept DEF PayloadInv
  <2>2. CASE i \notin Ids
    <3>1. ~Moves
      BY <1>1, <2>2 DEF Moves, ChangeState, Ids
    <3> QED BY <1>1, <2>2, <3>1, StepShape DEF Audits, Inserts, Ids
  <2> QED BY <2>1, <2>2
<1>2. \A b \in events' : b.type = "created" /\ b.actor = "system" => b.updatedAt = b.target
  BY <1>0 DEF PayloadInv, NewPayloads
<1>3. ASSUME NEW b \in events', b.actor = "backfill"
      PROVE  /\ b.target \in Ids'
             /\ Changes(b.target)' = {} =>
                    rows'[b.target].state = b.to /\ rows'[b.target].updatedAt = b.updatedAt
  <2>1. /\ b.target \in Ids
        /\ Changes(b.target) = {} =>
               rows[b.target].state = b.to /\ rows[b.target].updatedAt = b.updatedAt
    BY <1>0, <1>3 DEF PayloadInv, NewPayloads
  <2>2. Ids \subseteq Ids'
    <3>1. Moves => Ids' = Ids
      BY DEF Moves, ChangeState, Ids
    <3> QED BY <3>1, StepShape DEF Audits, Inserts, Ids
  <2> QED BY <2>1, <2>2, UntouchedKept
<1> QED BY <1>1, <1>2, <1>3, SnapStep DEF PayloadInv

\* The order of the log is total on its events.
LEMMA BeforeIsTotal ==
  ASSUME TypeInv, StampInv
  PROVE  /\ \A e, f \in events : e = f \/ Before(e, f) \/ Before(f, e)
         /\ \A e, f \in events : Before(e, f) => e # f /\ ~Before(f, e)
         /\ \A e, f, g \in events : Before(e, f) /\ Before(f, g) => Before(e, g)
<1>1. \A e \in events : e.at \in Nat /\ e.minted \in Nat
  BY DEF TypeInv, TypeOK, Event
<1> QED BY <1>1 DEF Before, StampInv

\* The log is finite: its stamps lie in the past, and each belongs to one event.
LEMMA LogIsFinite == ASSUME TypeInv, StampInv PROVE IsFiniteSet(events)
<1> DEFINE Past == 0 .. clock
           stamps == [e \in events |-> <<e.at, e.minted>>]
<1>1. clock \in Nat /\ \A e \in events : e.at \in Nat /\ e.minted \in Nat /\ e.at < clock /\ e.minted < clock
  BY DEF TypeInv, TypeOK, Event, StampsArePast, StampInv
<1>2. IsFiniteSet(Past \X Past)
  <2>1. IsFiniteSet(Past)
    BY <1>1, FS_Interval
  <2> HIDE DEF Past
  <2> QED BY <2>1, FS_Product
<1>3. stamps \in [events -> Past \X Past]
  BY <1>1
<1>4. \A e, f \in events : stamps[e] = stamps[f] => e = f
  BY DEF StampInv
<1>5. stamps \in Injection(events, Past \X Past)
  BY <1>3, <1>4 DEF Injection, IsInjective
<1> QED BY <1>2, <1>5, FS_Injection

\* A claim about parts of the log that fails of some part fails of a smallest.
LEMMA SmallestPart ==
  ASSUME TypeInv, StampInv, NEW Bad \in SUBSET SUBSET events, Bad # {}
  PROVE  \E L \in Bad : \A M \in SUBSET L : M # L => M \notin Bad
<1>1. IsWellFoundedOn(StrictSubsetOrdering(events), SUBSET events)
  BY LogIsFinite, FS_FiniteSubsetsOfFinite, FS_StrictSubsetOrderingWellFounded
<1>2. PICK L \in Bad : \A M \in Bad : <<M, L>> \notin StrictSubsetOrdering(events)
  BY <1>1, WFMin
<1>3. ASSUME NEW M \in Bad, M \subseteq L, M # L PROVE FALSE
  <2>1. <<M, L>> \in (SUBSET events) \X (SUBSET events)
    OBVIOUS
  <2>2. <<M, L>> \in StrictSubsetOrdering(events)
    BY <1>3, <2>1 DEF StrictSubsetOrdering
  <2> QED BY <1>2, <2>2
<1> QED BY <1>3

\* Every part of the log has a latest event.
LEMMA LatestIsLast ==
  ASSUME TypeInv, StampInv, NEW L \in SUBSET events, L # {}
  PROVE  Latest(L) \in L /\ \A f \in L \ {Latest(L)} : Before(f, Latest(L))
<1> DEFINE Bad == {M \in SUBSET events : M # {} /\ ~\E e \in M : \A f \in M \ {e} : Before(f, e)}
<1>1. ASSUME Bad # {} PROVE FALSE
  <2>1. PICK M \in Bad : \A N \in SUBSET M : N # M => N \notin Bad
    BY <1>1, SmallestPart
  <2>2. PICK x \in M : TRUE
    OBVIOUS
  <2>3. CASE M \ {x} = {}
    BY <2>2, <2>3
  <2>4. CASE M \ {x} # {}
    <3>1. M \ {x} \notin Bad /\ M \ {x} \in SUBSET events
      BY <2>1, <2>2
    <3>2. PICK y \in M \ {x} : \A f \in (M \ {x}) \ {y} : Before(f, y)
      BY <2>4, <3>1
    <3>3. M \subseteq events
      OBVIOUS
    <3>4. CASE Before(x, y)
      <4>1. \A f \in M \ {y} : Before(f, y)
        BY <3>2, <3>4
      <4> QED BY <3>2, <4>1
    <3>5. CASE Before(y, x)
      <4>1. \A f \in M \ {x} : Before(f, x)
        BY <2>2, <3>2, <3>3, <3>5, BeforeIsTotal
      <4> QED BY <2>2, <4>1
    <3> QED BY <2>2, <3>2, <3>3, <3>4, <3>5, BeforeIsTotal
  <2> QED BY <2>3, <2>4
<1>2. \E e \in L : \A f \in L \ {e} : Before(f, e)
  BY <1>1
<1> QED BY <1>2 DEF Latest

\* Nothing else is the latest event.
LEMMA LatestIsUnique ==
  ASSUME TypeInv, StampInv, NEW L \in SUBSET events, NEW x \in L, \A f \in L \ {x} : Before(f, x)
  PROVE  Latest(L) = x
<1>1. Latest(L) \in L /\ \A f \in L \ {Latest(L)} : Before(f, Latest(L))
  BY LatestIsLast
<1> QED BY <1>1, BeforeIsTotal

\* A replay of the parts of T, each from the one without its latest event.
Empty == [db |-> [i \in {} |-> NoJob], raised |-> FALSE]

ReplayOf(r, T) ==
    [L \in SUBSET T |-> IF L = {} THEN Empty ELSE Apply(r[L \ {Latest(L)}], Latest(L))]

\* There is a replay of every part of the log, so that the recursion that
\* defines Replayed has a solution.
LEMMA ReplayExists ==
  ASSUME TypeInv, StampInv PROVE \E r : r = ReplayOf(r, events)
<1> DEFINE Bad == {T \in SUBSET events : ~\E r : r = ReplayOf(r, T)}
<1>1. ASSUME Bad # {} PROVE FALSE
  <2>1. PICK T \in Bad : \A U \in SUBSET T : U # T => U \notin Bad
    BY <1>1, SmallestPart
  <2>2. CASE T = {}
    <3> DEFINE r == [L \in SUBSET T |-> Empty]
    <3>1. \A L \in SUBSET T : L = {}
      BY <2>2
    <3>2. r = ReplayOf(r, T)
      BY <3>1 DEF ReplayOf
    <3> QED BY <3>2
  <2>3. CASE T # {}
    <3> DEFINE x == Latest(T)
               U == T \ {x}
    <3>1. T \subseteq events /\ x \in T /\ \A f \in T \ {x} : Before(f, x)
      BY <2>3, LatestIsLast
    <3> HIDE DEF x
    <3>2. U \in SUBSET events /\ U \notin Bad
      BY <2>1, <3>1
    <3>3. PICK g : g = ReplayOf(g, U)
      BY <3>2
    <3> DEFINE r == [L \in SUBSET T |-> IF x \in L THEN Apply(g[L \ {x}], x) ELSE g[L]]
    <3>4. ASSUME NEW L \in SUBSET T
          PROVE  r[L] = IF L = {} THEN Empty ELSE Apply(r[L \ {Latest(L)}], Latest(L))
      <4>1. CASE x \in L
        <5>1. Latest(L) = x
          BY <3>1, <4>1, LatestIsUnique
        <5>2. r[L] = Apply(g[L \ {x}], x) /\ r[L \ {x}] = g[L \ {x}]
          BY <4>1
        <5> QED BY <4>1, <5>1, <5>2
      <4>2. CASE x \notin L /\ L # {}
        <5>1. Latest(L) \in L
          BY <3>1, <4>2, LatestIsLast
        <5>2. L \in SUBSET U
          BY <4>2
        <5>3. g[L] = Apply(g[L \ {Latest(L)}], Latest(L))
          BY <3>3, <4>2, <5>2 DEF ReplayOf
        <5>4. r[L] = g[L] /\ r[L \ {Latest(L)}] = g[L \ {Latest(L)}]
          BY <4>2
        <5> QED BY <4>2, <5>3, <5>4
      <4>3. CASE L = {}
        <5>1. L \in SUBSET U /\ x \notin L
          BY <4>3
        <5>2. g[L] = Empty
          BY <3>3, <4>3, <5>1 DEF ReplayOf
        <5> QED BY <4>3, <5>1, <5>2
      <4> QED BY <4>1, <4>2, <4>3
    <3>5. r = [L \in SUBSET T |-> r[L]]
      OBVIOUS
    <3> HIDE DEF r
    <3>6. r = ReplayOf(r, T)
      BY <3>4, <3>5 DEF ReplayOf
    <3> QED BY <3>6
  <2> QED BY <2>2, <2>3
<1> QED BY <1>1

\* The replay of a part of the log is what its latest event makes of the rest.
LEMMA ReplayedIs ==
  ASSUME TypeInv, StampInv, NEW L \in SUBSET events
  PROVE  Replayed[L] = IF L = {} THEN Empty ELSE Apply(Replayed[L \ {Latest(L)}], Latest(L))
<1>1. Replayed = CHOOSE r : r = ReplayOf(r, events)
  BY DEF Replayed, ReplayOf, Empty
<1>2. Replayed = ReplayOf(Replayed, events)
  BY <1>1, ReplayExists
<1> QED BY <1>2, Zenon DEF ReplayOf

\* The created events of row i in the part L of the log.
Creations(L, i) == {e \in L : e.type = "created" /\ e.target = i}

\* The last change of row i in L is what its database holds.
YieldsChange(db, L, i) ==
    \E e \in L \cap Changes(i) :
       /\ db[i] = [state |-> e.to, updatedAt |-> e.updatedAt]
       /\ \A f \in L \cap Changes(i) : f = e \/ Before(f, e)

\* A creation is, as every change of the row was replayed before it was there.
YieldsCreation(db, L, i) ==
    /\ \E b \in Creations(L, i) : db[i] = [state |-> b.to, updatedAt |-> b.updatedAt]
    /\ \A b \in Creations(L, i), f \in L \cap Changes(i) : Before(f, b)

\* The database that a replay of L yields: the rows with a creation in L.
Yields(db, L) ==
    /\ \A i : i \in DOMAIN db <=> Creations(L, i) # {}
    /\ \A i \in DOMAIN db : YieldsChange(db, L, i) \/ YieldsCreation(db, L, i)

\* Every creation is of a row.
CreationsHaveRows == \A e \in events : e.type = "created" => e.target \in Ids

\* A later event is applied without an exception and keeps this.
LEMMA ApplyYields ==
  ASSUME SourcesReserved, CreationsHaveRows,
         NEW L \in SUBSET events, NEW x \in L, \A f \in L \ {x} : Before(f, x),
         NEW db, Yields(db, L \ {x})
  PROVE  \E new : Apply([db |-> db, raised |-> FALSE], x) = [db |-> new, raised |-> FALSE] /\ Yields(new, L)
<1> DEFINE M == L \ {x}
           i == x.target
           row == [state |-> x.to, updatedAt |-> x.updatedAt]
<1>0. /\ \A k : k \in DOMAIN db <=> Creations(M, k) # {}
      /\ \A k \in DOMAIN db : YieldsChange(db, M, k) \/ YieldsCreation(db, M, k)
  BY DEF Yields
<1>1. ASSUME NEW new, NEW k, new[k] = db[k], Creations(L, k) = Creations(M, k),
             L \cap Changes(k) = M \cap Changes(k), YieldsChange(db, M, k) \/ YieldsCreation(db, M, k)
      PROVE  YieldsChange(new, L, k) \/ YieldsCreation(new, L, k)
  BY <1>1 DEF YieldsChange, YieldsCreation
<1>2. ASSUME NEW k, k # i \/ x.type \notin {"created", "state_changed"}
      PROVE  Creations(L, k) = Creations(M, k) /\ L \cap Changes(k) = M \cap Changes(k)
  BY <1>2 DEF Creations, Changes
<1>3. CASE x.type = "created"
  <2> DEFINE new == InsertRowOf(db, x)
  <2>1. sources[rows[i].source] # NoUser
    BY <1>3 DEF SourcesReserved, CreationsHaveRows
  <2>2. Apply([db |-> db, raised |-> FALSE], x) = [db |-> new, raised |-> FALSE]
    BY <1>3, <2>1 DEF Apply
  <2>3. /\ DOMAIN new = DOMAIN db \cup {i}
        /\ \A k \in DOMAIN db : new[k] = db[k]
        /\ i \notin DOMAIN db => new[i] = row
    BY DEF InsertRowOf
  <2>4. Creations(L, i) = Creations(M, i) \cup {x} /\ L \cap Changes(i) = M \cap Changes(i)
    BY <1>3 DEF Creations, Changes
  <2>5. \A f \in L \cap Changes(i) : Before(f, x)
    BY <2>4
  <2> HIDE DEF i, row, new
  <2>6. \A k : k \in DOMAIN new <=> Creations(L, k) # {}
    <3> SUFFICES ASSUME NEW k PROVE k \in DOMAIN new <=> Creations(L, k) # {}
      OBVIOUS
    <3>1. CASE k = i
      BY <2>3, <2>4, <3>1
    <3>2. CASE k # i
      BY <1>0, <1>2, <2>3, <3>2
    <3> QED BY <3>1, <3>2
  <2>7. ASSUME NEW k \in DOMAIN new PROVE YieldsChange(new, L, k) \/ YieldsCreation(new, L, k)
    <3>1. CASE k # i
      BY <1>0, <1>1, <1>2, <2>3, <3>1
    <3>2. CASE k = i /\ i \in DOMAIN db
      <4>1. new[i] = db[i]
        BY <2>3, <3>2
      <4>2. CASE YieldsChange(db, M, i)
        BY <2>4, <3>2, <4>1, <4>2 DEF YieldsChange
      <4>3. CASE YieldsCreation(db, M, i)
        BY <2>4, <2>5, <3>2, <4>1, <4>3 DEF YieldsCreation
      <4> QED BY <1>0, <3>2, <4>2, <4>3
    <3>3. CASE k = i /\ i \notin DOMAIN db
      <4>1. Creations(L, i) = {x} /\ new[i] = row
        BY <1>0, <2>3, <2>4, <3>3
      <4> QED BY <2>5, <3>3, <4>1 DEF YieldsCreation, row
    <3> QED BY <2>3, <3>1, <3>2, <3>3
  <2> QED BY <2>2, <2>6, <2>7 DEF Yields
<1>4. CASE x.type = "state_changed"
  <2> DEFINE new == UpdateRowOf(db, x)
  <2>1. Apply([db |-> db, raised |-> FALSE], x) = [db |-> new, raised |-> FALSE]
    BY <1>4 DEF Apply
  <2>2. /\ DOMAIN new = DOMAIN db
        /\ \A k \in DOMAIN db : new[k] = IF k = i THEN row ELSE db[k]
    BY DEF UpdateRowOf
  <2>3. \A k : Creations(L, k) = Creations(M, k)
    BY <1>4 DEF Creations
  <2>4. x \in L \cap Changes(i) /\ \A f \in L \cap Changes(i) : f = x \/ Before(f, x)
    BY <1>4 DEF Changes
  <2> HIDE DEF i, new
  <2>5. ASSUME NEW k \in DOMAIN new PROVE YieldsChange(new, L, k) \/ YieldsCreation(new, L, k)
    <3>1. CASE k # i
      BY <1>0, <1>1, <1>2, <2>2, <3>1
    <3>2. CASE k = i
      BY <2>2, <2>4, <3>2 DEF YieldsChange
    <3> QED BY <3>1, <3>2
  <2> QED BY <1>0, <2>1, <2>2, <2>3, <2>5 DEF Yields
<1>5. CASE x.type \notin {"created", "state_changed"}
  <2>1. Apply([db |-> db, raised |-> FALSE], x) = [db |-> db, raised |-> FALSE]
    BY <1>5 DEF Apply
  <2>2. \A k : Creations(L, k) = Creations(M, k) /\ L \cap Changes(k) = M \cap Changes(k)
    BY <1>2, <1>5
  <2>3. Yields(db, L)
    BY <1>0, <1>1, <2>2 DEF Yields
  <2> QED BY <2>1, <2>3
<1> QED BY <1>3, <1>4, <1>5

\* The replay of every part of the log ends without an exception and yields the
\* last changes, or the creations, of the part.
LEMMA ReplayYields ==
  ASSUME TypeInv, StampInv, SourcesReserved, CreationsHaveRows, NEW L \in SUBSET events
  PROVE  \E db : Replayed[L] = [db |-> db, raised |-> FALSE] /\ Yields(db, L)
<1> DEFINE Good(K) == \E db : Replayed[K] = [db |-> db, raised |-> FALSE] /\ Yields(db, K)
           Bad == {K \in SUBSET events : ~Good(K)}
<1>1. ASSUME Bad # {} PROVE FALSE
  <2>1. PICK K \in Bad : \A M \in SUBSET K : M # K => M \notin Bad
    BY <1>1, SmallestPart
  <2>2. CASE K = {}
    <3> DEFINE db == [i \in {} |-> NoJob]
    <3>1. Replayed[K] = [db |-> db, raised |-> FALSE]
      BY <2>2, ReplayedIs DEF Empty
    <3>2. Creations(K, 0) = {} /\ \A i : Creations(K, i) = {}
      BY <2>2 DEF Creations
    <3>3. DOMAIN db = {}
      OBVIOUS
    <3> HIDE DEF db
    <3>4. Yields(db, K)
      BY <3>2, <3>3 DEF Yields
    <3> QED BY <3>1, <3>4
  <2>3. CASE K # {}
    <3> DEFINE x == Latest(K)
    <3>1. x \in K /\ \A f \in K \ {x} : Before(f, x)
      BY <2>3, LatestIsLast
    <3>2. Replayed[K] = Apply(Replayed[K \ {x}], x)
      BY <2>3, ReplayedIs
    <3> HIDE DEF x
    <3>3. K \ {x} \in SUBSET events /\ K \ {x} \notin Bad
      BY <2>1, <3>1
    <3>4. PICK db : Replayed[K \ {x}] = [db |-> db, raised |-> FALSE] /\ Yields(db, K \ {x})
      BY <3>3
    <3>5. \E new : Apply([db |-> db, raised |-> FALSE], x) = [db |-> new, raised |-> FALSE] /\ Yields(new, K)
      BY <3>1, <3>4, ApplyYields
    <3> QED BY <3>2, <3>4, <3>5
  <2> QED BY <2>2, <2>3
<1> QED BY <1>1

\* What the rebuild's promises follow from.
ReplayInv ==
    /\ TypeInv /\ StampInv /\ PayloadInv /\ BirthInv
    /\ NoOrphanEvents /\ LogAgreesWithRow /\ SourcesReserved /\ OnlyCrashLosesCreated

\* Every behaviour keeps them.
LEMMA ReplayInvariant == Spec => []ReplayInv
<1>1. Init => StampInv
  BY DEF Init, StampInv
<1>2. Init => PayloadInv
  BY DEF Init, PayloadInv, SnapFresh, Ids
<1>3. Init => BirthInv
  BY DEF Init, BirthInv, Ids
<1>4. Spec => [](TypeInv /\ NoOrphanEvents)
  BY TypeInvariant, OrphansRejected, PTL
<1>5. Spec => []BirthInv
  BY <1>3, <1>4, BirthStep, PTL DEF Spec
<1>6. Spec => [](StampInv /\ PayloadInv)
  BY <1>1, <1>2, <1>4, StampStep, PayloadStep, PTL DEF Spec
<1>7. LogTellsChanges => LogAgreesWithRow
  BY DEF LogTellsChanges
<1>8. StoreSafety => SourcesReserved
  BY DEF StoreSafety
<1> QED BY <1>4, <1>5, <1>6, <1>7, <1>8, LogMatchesRows, StoreIsSound, CreatedIsLostByCrashOnly, PTL
        DEF ReplayInv

\* At every moment of every interleaving, a rebuild started then returns the
\* rows as they are: those whose creation was logged and not overtaken, and all
\* those a backfill repaired; it lacks no row but those of crashed and running
\* ingests, and has no row that the store does not have.
THEOREM RebuildsAreFaithful == Spec => []RebuildIsFaithful
<1>1. ReplayInv => RebuildIsFaithful
  <2> SUFFICES ASSUME ReplayInv PROVE RebuildIsFaithful
    OBVIOUS
  <2>0. TypeInv /\ StampInv /\ PayloadInv /\ BirthInv /\ LogAgreesWithRow /\ TypeOK
    BY DEF ReplayInv, TypeInv
  <2>1. CreationsHaveRows
    <3>1. \A e \in events : e.actor \in {"system", "backfill"}
      BY <2>0 DEF TypeOK, Event
    <3> QED BY <2>0, <3>1 DEF BirthInv, PayloadInv, CreationsHaveRows
  <2>2. PICK db : Replayed[events] = [db |-> db, raised |-> FALSE] /\ Yields(db, events)
    BY <2>0, <2>1, ReplayYields DEF ReplayInv
  <2>3. Rebuilt = db
    BY <2>2 DEF Rebuilt
  <2>4. \A i : i \in DOMAIN Rebuilt <=> HasCreated(i)
    BY <2>2, <2>3 DEF Yields, Creations, HasCreated
  <2>5. ASSUME NEW i \in Ids, HasCreated(i), ~Overtaken(i)
        PROVE  i \in DOMAIN Rebuilt /\ Rebuilt[i] = Live[i]
    <3>1. i \in DOMAIN db /\ events \cap Changes(i) = Changes(i)
      BY <2>3, <2>4, <2>5 DEF Changes
    <3>2. ASSUME NEW e, db[i] = [state |-> e.to, updatedAt |-> e.updatedAt],
                 rows[i].state = e.to, rows[i].updatedAt = e.updatedAt
          PROVE  i \in DOMAIN Rebuilt /\ Rebuilt[i] = Live[i]
      BY <2>3, <3>1, <3>2 DEF Live
    <3>3. CASE YieldsChange(db, events, i)
      <4>1. PICK e \in Changes(i) : /\ db[i] = [state |-> e.to, updatedAt |-> e.updatedAt]
                                    /\ \A f \in Changes(i) : f = e \/ Before(f, e)
        BY <3>1, <3>3 DEF YieldsChange
      <4>2. \A f \in Changes(i) : f.at \in Nat
        BY <2>0 DEF Changes, TypeOK, Event
      <4>3. IsLast(e, Changes(i))
        BY <4>1, <4>2 DEF IsLast, Before
      <4> QED BY <2>0, <3>2, <4>1, <4>3 DEF LogAgreesWithRow
    <3>4. CASE YieldsCreation(db, events, i)
      <4>1. PICK b \in Creations(events, i) : db[i] = [state |-> b.to, updatedAt |-> b.updatedAt]
        BY <3>4 DEF YieldsCreation
      <4>2. Changes(i) = {}
        BY <2>5, <3>1, <3>4 DEF YieldsCreation, Overtaken, Creations
      <4>3. b \in events /\ b.type = "created" /\ b.target = i /\ b.actor \in {"system", "backfill"}
        BY <2>0 DEF Creations, TypeOK, Event
      <4>4. rows[i].state = b.to /\ rows[i].updatedAt = b.updatedAt
        <5>1. CASE b.actor = "system"
          BY <2>0, <4>2, <4>3, <5>1 DEF BirthInv, Birth, PayloadInv
        <5>2. CASE b.actor = "backfill"
          BY <2>0, <4>2, <4>3, <5>2 DEF PayloadInv
        <5> QED BY <4>3, <5>1, <5>2
      <4> QED BY <3>2, <4>1, <4>4
    <3> QED BY <2>2, <3>1, <3>3, <3>4 DEF Yields
  <2>6. ReplayFaithful
    BY <2>5 DEF ReplayFaithful
  <2>7. ASSUME NEW e \in events, e.actor = "backfill"
        PROVE  e.target \in DOMAIN Rebuilt /\ Rebuilt[e.target] = Live[e.target]
    <3>1. e.type = "created" /\ e.at = e.target /\ e.target \in Ids
      BY <2>0, <2>7 DEF StampInv, PayloadInv
    <3>2. HasCreated(e.target)
      BY <3>1 DEF HasCreated
    <3>3. ASSUME NEW f \in Changes(e.target) PROVE ~Before(f, e)
      <4>1. f \in events /\ f.type = "state_changed" /\ f.target = e.target
        BY DEF Changes
      <4>2. f.at \in Nat /\ e.at \in Nat /\ e.at < f.at
        BY <2>0, <3>1, <4>1 DEF TypeOK, Event, StampInv
      <4> QED BY <4>2 DEF Before
    <3>4. ~Overtaken(e.target)
      BY <3>1, <3>3 DEF Overtaken
    <3> QED BY <2>5, <3>1, <3>2, <3>4
  <2>8. RebuildLosesOnlyUnlogged
    <3>1. \A i : HasCreated(i) => i \in Ids
      BY <2>1 DEF HasCreated, CreationsHaveRows
    <3> QED BY <2>4, <3>1 DEF RebuildLosesOnlyUnlogged, ReplayInv, OnlyCrashLosesCreated
  <2> QED BY <2>6, <2>7, <2>8 DEF RebuildIsFaithful, BackfillRepairsReplay
<1> QED BY <1>1, ReplayInvariant, PTL
==============================================================================
