------------------------------- MODULE Server -------------------------------
(***************************************************************************)
(* The server process around both: a lifespan restores the drain counter   *)
(* and validates the audit database before it serves, requests write audit *)
(* rows on worker threads that may outlive their response, and a process   *)
(* that exits takes its threads with it (server/lifespan.py,               *)
(* server/routes/query.py, router/dual_read.py).                           *)
(***************************************************************************)
EXTENDS AuditDb, Drain

VARIABLE host     \* host[r]: the instance whose thread works for r, or "none"

vars == <<auditVars, drainVars, host>>

ASSUME WorkersAreRequests == Workers = Requests

Init ==
  /\ AuditInit
  /\ DrainInit
  /\ host = [r \in Requests |-> "none"]

(* parallax_lifespan before its yield: the counter is restored first, then *)
(* the gates run on a connection that is closed again.                     *)
Boot(i) ==
  /\ Start(i)
  /\ ApplySchema
  /\ UNCHANGED <<log, conn, staged, batch, step, status, host>>

(* A gate refuses: the process exits without serving. *)
BootRefused(i) ==
  /\ phase[i] = "down"
  /\ schema = "other"
  /\ UNCHANGED vars

(* The operator repairs what the gates complained of. *)
Repair ==
  /\ schema = "other"
  /\ schema' = "current"
  /\ UNCHANGED <<log, conn, staged, batch, step, status, drainVars, host>>

Receive(i, r) ==
  /\ host[r] = "none"
  /\ Arrive(i, r)
  /\ host' = [host EXCEPT ![r] = i]
  /\ UNCHANGED auditVars

Write(i, r, b) ==
  /\ r \in serving[i]
  /\ Ask(r, b)
  /\ UNCHANGED <<drainVars, host>>

(* The response is sent; a secondary that timed out goes on in its thread. *)
Respond(i, r) ==
  /\ Leave(i, r)
  /\ UNCHANGED <<auditVars, host>>

Work(r) == WriteStep(r) /\ UNCHANGED <<drainVars, host>>

ThreadLeaves(i, r) ==
  /\ host[r] = i
  /\ r \notin serving[i]
  /\ ThreadEnds(r)
  /\ host' = [host EXCEPT ![r] = "none"]
  /\ UNCHANGED drainVars

Lifecycle(i) ==
  /\ Shutdown(i) \/ DrainStep(i)
  /\ UNCHANGED <<auditVars, host>>

ProcessEnds(i) ==
  /\ Exit(i)
  /\ CloseThreads({r \in Requests : host[r] = i})
  /\ host' = [r \in Requests |-> IF host[r] = i THEN "none" ELSE host[r]]

Damage == DamageJournal /\ UNCHANGED <<auditVars, host>>

Next ==
  \/ \E i \in Instances :
       \/ Boot(i) \/ BootRefused(i) \/ Lifecycle(i) \/ ProcessEnds(i)
       \/ \E r \in Requests :
            \/ Receive(i, r) \/ Respond(i, r) \/ ThreadLeaves(i, r)
            \/ \E b \in Batches : Write(i, r, b)
  \/ \E r \in Requests : Work(r)
  \/ Repair
  \/ Damage

(* The drain loop polls against a monotonic deadline, and every step of the*)
(* recording returns or raises; a call to SQLite returns within its busy   *)
(* timeout.                                                                *)
Fairness ==
  /\ \A i \in Instances : WF_vars(DrainStep(i) /\ Lifecycle(i))
  /\ \A r \in Requests : WF_vars(WriteStep(r) /\ Work(r))

Spec == Init /\ [][Next]_vars /\ Fairness

(* ------------------------------ properties ----------------------------- *)

(* The journal invents nothing: what a restored counter or the file shows  *)
(* is at most the number of drain timeouts that happened, over any number  *)
(* of restarts, lifespans entered twice in a process, and damage.          *)
NoPhantomTimeouts ==
  /\ journal.total <= timeouts
  /\ \A i \in Instances : counter[i] <= timeouts

(* Timeouts reach the next process: unless a crash, an unreadable or       *)
(* unwritable file, or two instances recording at once came in between,    *)
(* the journal holds every timeout but those being recorded.               *)
OnlyFaultsLoseTimeouts ==
  ~lossy =>
    journal.total + Cardinality({i \in Instances : phase[i] \in {"timedOut", "drafted"}})
      = timeouts

(* What the journal promises the next process.                             *)
JournalSafety == DrainTypeOK /\ NoPhantomTimeouts /\ OnlyFaultsLoseTimeouts

(* Nothing hangs.  Shutdown is not held up for ever by a request that does *)
(* not end, nor the recording by a journal that cannot be written; and a   *)
(* thread's write ends, also when another thread's failed ROLLBACK holds   *)
(* the file's write lock: it fails after the busy timeout.                 *)
DrainEnds == \A i \in Instances : phase[i] = "draining" ~> phase[i] # "draining"
RecordingEnds ==
  \A i \in Instances : phase[i] \in {"timedOut", "drafted"}
                         ~> phase[i] \in {"stopped", "down"}
WriteEnds == \A r \in Requests : step[r] # "idle" ~> step[r] = "idle"
ServerSettles == DrainEnds /\ RecordingEnds /\ WriteEnds
=============================================================================
