------------------------------- MODULE Drain -------------------------------
(***************************************************************************)
(* Graceful shutdown and the drain journal (server/lifespan.py,            *)
(* server/drain_journal.py, router/inflight.py).  Instances of the server  *)
(* replace one another; each counts the requests in flight, waits for      *)
(* them when it stops, and when the wait times out adds one to a counter   *)
(* that dies with the process.  The journal file carries the total to the  *)
(* next instance, which restores it into its own counter at start.         *)
(***************************************************************************)
EXTENDS Naturals, FiniteSets

CONSTANTS Instances,     \* server processes of a deployment
          Requests,      \* requests an instance may have in flight
          MaxTimeouts    \* bound: no shutdown begins after this many timeouts

ASSUME DrainAssumption == IsFiniteSet(Instances) /\ MaxTimeouts \in Nat

VARIABLES phase,     \* phase[i]: where instance i's lifespan stands
          serving,   \* serving[i]: the requests its inflight gauge counts
          counter,   \* counter[i]: drain_timeout_total of the process
          draft,     \* draft[i]: total computed for the journal's temp file
          journal,   \* the file: [total, readable]
          timeouts,  \* history: drain timeouts that happened
          lossy      \* history: has anything gone wrong with the journal

drainVars == <<phase, serving, counter, draft, journal, timeouts, lossy>>

Phases == {"down", "up", "draining", "timedOut", "drafted", "stopped"}

DrainTypeOK ==
  /\ phase \in [Instances -> Phases]
  /\ serving \in [Instances -> SUBSET Requests]
  /\ counter \in [Instances -> Nat]
  /\ draft \in [Instances -> Nat]
  /\ journal \in [total : Nat, readable : BOOLEAN]
  /\ timeouts \in Nat
  /\ lossy \in BOOLEAN

DrainInit ==
  /\ phase = [i \in Instances |-> "down"]
  /\ serving = [i \in Instances |-> {}]
  /\ counter = [i \in Instances |-> 0]
  /\ draft = [i \in Instances |-> 0]
  /\ journal = [total |-> 0, readable |-> TRUE]
  /\ timeouts = 0
  /\ lossy = FALSE

(* A journal that is missing, corrupt or unreadable counts as zero. *)
ReadDrainJournal(j) == IF j.readable THEN j.total ELSE 0

\* Mutant: the journal's total is added to whatever the counter has.
RestoredAgain(current, total) == current + total

(* The counter is advanced by the difference, so restoring twice adds      *)
(* nothing.                                                                *)
Restored(current, total) == IF total > current THEN total ELSE current

To(i, p) == phase' = [phase EXCEPT ![i] = p]

(* A new process starts at zero; a lifespan entered again in one process   *)
(* ("stopped") still has its counter.                                      *)
Start(i) ==
  /\ phase[i] \in {"down", "stopped"}
  /\ To(i, "up")
  /\ counter' = [counter EXCEPT ![i] = Restored(@, ReadDrainJournal(journal))]
  /\ UNCHANGED <<serving, draft, journal, timeouts, lossy>>

Arrive(i, r) ==
  /\ phase[i] = "up"
  /\ \A j \in Instances : r \notin serving[j]
  /\ serving' = [serving EXCEPT ![i] = @ \union {r}]
  /\ UNCHANGED <<phase, counter, draft, journal, timeouts, lossy>>

(* The decrement of the finally clause, after the handler or its failure.  *)
Leave(i, r) ==
  /\ r \in serving[i]
  /\ serving' = [serving EXCEPT ![i] = @ \ {r}]
  /\ UNCHANGED <<phase, counter, draft, journal, timeouts, lossy>>

Shutdown(i) ==
  /\ phase[i] = "up"
  /\ timeouts < MaxTimeouts
  /\ To(i, "draining")
  /\ UNCHANGED <<serving, counter, draft, journal, timeouts, lossy>>

DrainComplete(i) ==
  /\ phase[i] = "draining"
  /\ serving[i] = {}
  /\ To(i, "stopped")
  /\ UNCHANGED <<serving, counter, draft, journal, timeouts, lossy>>

\* Mutant: the drain loop has no deadline.
DrainWaits(i) == DrainComplete(i)

DrainTimeout(i) ==
  /\ phase[i] = "draining"
  /\ serving[i] # {}
  /\ To(i, "timedOut")
  /\ counter' = [counter EXCEPT ![i] = @ + 1]
  /\ timeouts' = timeouts + 1
  /\ UNCHANGED <<serving, draft, journal, lossy>>

Recording == {i \in Instances : phase[i] = "drafted"}

(* record_drain_timeout, first half: read the total and write the temp     *)
(* file.  A read that fails (OSError) is the total zero, as a corrupt file *)
(* is.                                                                     *)
DraftRecord(i) ==
  /\ phase[i] = "timedOut"
  /\ To(i, "drafted")
  /\ \E failed \in BOOLEAN :
       /\ draft' = [draft EXCEPT
            ![i] = 1 + (IF failed THEN 0 ELSE ReadDrainJournal(journal))]
       /\ lossy' = (lossy \/ failed \/ Recording # {})
  /\ UNCHANGED <<serving, counter, journal, timeouts>>

(* Second half: os.replace. *)
ReplaceJournal(i) ==
  /\ phase[i] = "drafted"
  /\ To(i, "stopped")
  /\ journal' = [total |-> draft[i], readable |-> TRUE]
  /\ draft' = [draft EXCEPT ![i] = 0]
  /\ UNCHANGED <<serving, counter, timeouts, lossy>>

(* The temp file or the replace fails with an OSError: it is removed and   *)
(* the event survives in the log line only.                                *)
RecordFails(i) ==
  /\ phase[i] \in {"timedOut", "drafted"}
  /\ To(i, "stopped")
  /\ draft' = [draft EXCEPT ![i] = 0]
  /\ lossy' = TRUE
  /\ UNCHANGED <<serving, counter, journal, timeouts>>

(* The process ends, in order after the lifespan or by a crash anywhere.   *)
(* Its counter and the requests it still had go with it.                   *)
Exit(i) ==
  /\ phase[i] # "down"
  /\ To(i, "down")
  /\ counter' = [counter EXCEPT ![i] = 0]
  /\ serving' = [serving EXCEPT ![i] = {}]
  /\ draft' = [draft EXCEPT ![i] = 0]
  /\ lossy' = (lossy \/ phase[i] \in {"timedOut", "drafted"})
  /\ UNCHANGED <<journal, timeouts>>

(* External: the file is damaged on disk. *)
DamageJournal ==
  /\ journal.readable
  /\ journal.total > 0
  /\ journal' = [journal EXCEPT !.readable = FALSE]
  /\ lossy' = TRUE
  /\ UNCHANGED <<phase, serving, counter, draft, timeouts>>

DrainStep(i) == \/ DrainComplete(i) \/ DrainTimeout(i) \/ DraftRecord(i)
                \/ ReplaceJournal(i) \/ RecordFails(i)

=============================================================================
