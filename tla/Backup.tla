------------------------------- MODULE Backup -------------------------------
(***************************************************************************)
(* Backup and restore of the database file (backup.py, restore.py) beside  *)
(* a server that may be writing.  SQLite keeps committed pages in a        *)
(* write-ahead file next to the main file until a checkpoint moves them    *)
(* there, page by page; the commands read, copy and move the main file     *)
(* alone, and count rows through connections that see both.                *)
(***************************************************************************)
EXTENDS Naturals, FiniteSets

CONSTANTS Pages,         \* pages of the database, each with a table that is counted
          MaxTxns        \* bound: transactions committed

ASSUME BkAssumption == MaxTxns \in Nat /\ Pages # {}

VARIABLES main,      \* the main file: page -> content
          wal,       \* the pages of the -wal file: page -> newest content
          ck,        \* a checkpoint: [todo: pages to write, frames: what it writes]
          half,      \* history: the last checkpoint has written some of its pages only
          server,    \* is a server (another connection) open on the database
          txns,      \* transactions committed so far
          bk,        \* a backup: [pc, counts, digest, file, there, mid]; there, mid:
                     \* history, main and half when the digest was complete
          archive,   \* the archive: {} or {[counts, digest, file, there, mid]}
          rs,        \* a restore in progress: [pc, verify]
          aside,     \* what the restore moved aside: the .bak-<ts> file
          moments,   \* history: what the database held while it was backed up
          before     \* history: [held, wal] of the database when a restore began

bkVars == <<main, wal, ck, half, server, txns, bk, archive, rs, aside, moments, before>>
files == <<main, wal, ck, half>>
commands == <<bk, archive, rs, aside, moments, before>>

(* The transaction that wrote a page last, and the rows of its table.      *)
PageStates == [at : 0..MaxTxns, rows : 0..MaxTxns]
Images == [Pages -> PageStates]
None == [p \in {} |-> 0]        \* no pages: no -wal file, nothing read yet
Missing == None                 \* no file at all

Over(frames, image) == [p \in Pages |-> IF p \in DOMAIN frames THEN frames[p] ELSE image[p]]
With(part, p, x) == [q \in DOMAIN part \union {p} |-> IF q = p THEN x ELSE part[q]]

Held == Over(wal, main)

NoCheckpoint == [todo |-> {}, frames |-> None]
NoBackup == [pc |-> "idle", counts |-> None, digest |-> None, file |-> None,
             there |-> None, mid |-> FALSE]
NoRestore == [pc |-> "idle", verify |-> TRUE]
Nothing == [held |-> None, wal |-> None]

BkTypeOK ==
  /\ main \in Images \/ main = Missing
  /\ DOMAIN wal \subseteq Pages /\ \A p \in DOMAIN wal : wal[p] \in PageStates
  /\ ck.todo \subseteq DOMAIN wal
  /\ server \in BOOLEAN /\ txns \in 0..MaxTxns
  /\ bk.pc \in {"idle", "counting", "hashing", "packing"}
  /\ rs.pc \in {"idle", "staged", "moved", "installed", "verified", "failed"}
  /\ \A a \in archive : a.file \in Images

BkInit ==
  /\ main = [p \in Pages |-> [at |-> 0, rows |-> 0]]
  /\ wal = None /\ ck = NoCheckpoint /\ half = FALSE
  /\ server = FALSE /\ txns = 0
  /\ bk = NoBackup /\ archive = {} /\ rs = NoRestore
  /\ aside = {} /\ moments = {} /\ before = Nothing

(* --------------- external: the server and its checkpoints -------------- *)

Serve ==
  /\ ~server /\ rs.pc = "idle"
  /\ server' = TRUE
  /\ UNCHANGED <<files, txns, commands>>

(* A transaction writes some pages: it inserts rows, or it updates them (or*)
(* touches tables that nobody counts).                                     *)
Commit(touched, inserted) ==
  /\ server /\ txns < MaxTxns
  /\ txns' = txns + 1
  /\ wal' = [p \in DOMAIN wal \union touched |->
               IF p \in touched
                 THEN [at |-> txns',
                       rows |-> IF p \in inserted THEN Held[p].rows + 1 ELSE Held[p].rows]
                 ELSE wal[p]]
  /\ UNCHANGED <<main, ck, half, server, bk, archive, rs, aside, before>>
  /\ moments' = IF bk.pc = "idle" THEN moments ELSE moments \union {Held'}

StartCheckpoint ==
  /\ server /\ wal # None /\ ck.todo = {}
  /\ ck' = [todo |-> DOMAIN wal, frames |-> wal]
  /\ UNCHANGED <<main, wal, half, server, txns, commands>>

(* After the last page the -wal file starts over, unless it has grown.     *)
WritePage(p) ==
  /\ p \in ck.todo
  /\ main' = [main EXCEPT ![p] = ck.frames[p]]
  /\ half' = (ck.todo # {p})
  /\ IF ck.todo # {p}
       THEN ck' = [ck EXCEPT !.todo = @ \ {p}] /\ UNCHANGED wal
       ELSE ck' = NoCheckpoint /\ wal' = (IF wal = ck.frames THEN None ELSE wal)
  /\ UNCHANGED <<server, txns, commands>>

(* An orderly stop checkpoints first; a crash leaves what there is.        *)
ServerStops ==
  /\ server
  /\ server' = FALSE /\ ck' = NoCheckpoint
  /\ UNCHANGED <<main, wal, half, txns, commands>>

(* ------------------------------- backup -------------------------------- *)

FoldWal == main' = Held /\ wal' = None /\ half' = FALSE /\ UNCHANGED ck

\* Mutant: a checkpoint that finds the database busy goes unnoticed.
StartBackupBusy ==
  /\ bk.pc = "idle" /\ rs.pc = "idle" /\ archive = {}
  /\ (ck.todo = {} /\ FoldWal) \/ (server /\ UNCHANGED files)
  /\ bk' = [NoBackup EXCEPT !.pc = "counting"]
  /\ moments' = {Held}
  /\ UNCHANGED <<server, txns, archive, rs, aside, before>>

(* The archive must not exist, and wal_checkpoint(TRUNCATE), with the      *)
(* writers locked out, must not find the database busy.                    *)
StartBackup ==
  /\ bk.pc = "idle" /\ rs.pc = "idle" /\ archive = {}
  /\ ck.todo = {} /\ FoldWal
  /\ bk' = [NoBackup EXCEPT !.pc = "counting"]
  /\ moments' = {Held}
  /\ UNCHANGED <<server, txns, archive, rs, aside, before>>

(* compute_manifest_from_db counts through SQLite, -wal included, one      *)
(* SELECT and so one snapshot for each table.                              *)
Count(p) ==
  /\ bk.pc = "counting" /\ p \notin DOMAIN bk.counts
  /\ bk' = [bk EXCEPT !.counts = With(@, p, Held[p].rows)]
  /\ UNCHANGED <<files, server, txns, archive, rs, aside, moments, before>>

(* Its connection is the last to close if there is no server. *)
CloseCount ==
  /\ bk.pc = "counting" /\ DOMAIN bk.counts = Pages
  /\ bk' = [bk EXCEPT !.pc = "hashing"]
  /\ IF server THEN UNCHANGED files ELSE FoldWal
  /\ UNCHANGED <<server, txns, archive, rs, aside, moments, before>>

(* The main file alone is read for the digest, and then for the archive.   *)
Hash(p) ==
  /\ bk.pc = "hashing" /\ p \notin DOMAIN bk.digest
  /\ LET read == With(bk.digest, p, main[p])
     IN  bk' = IF DOMAIN read = Pages
                 THEN [bk EXCEPT !.digest = read, !.pc = "packing", !.there = main, !.mid = half]
                 ELSE [bk EXCEPT !.digest = read]
  /\ UNCHANGED <<files, server, txns, archive, rs, aside, moments, before>>

Pack(p) ==
  /\ bk.pc = "packing" /\ p \notin DOMAIN bk.file
  /\ LET read == With(bk.file, p, main[p])
     IN  IF DOMAIN read = Pages
           THEN /\ archive' = {[counts |-> bk.counts, digest |-> bk.digest, file |-> read,
                                there |-> bk.there, mid |-> bk.mid]}
                /\ bk' = NoBackup
           ELSE bk' = [bk EXCEPT !.file = read] /\ UNCHANGED archive
  /\ UNCHANGED <<files, server, txns, rs, aside, moments, before>>

(* The backup is killed; what it has of an archive is removed by hand.     *)
DropBackup ==
  /\ bk.pc # "idle" /\ bk' = NoBackup
  /\ UNCHANGED <<files, server, txns, archive, rs, aside, moments, before>>

(* ------------------------------- restore ------------------------------- *)

(* The archive is extracted beside.  The operator has stopped the server.  *)
StartRestore(verify) ==
  /\ rs.pc = "idle" /\ bk.pc = "idle" /\ ~server
  /\ archive # {}
  /\ rs' = [pc |-> "staged", verify |-> verify]
  /\ before' = [held |-> Held, wal |-> wal]
  /\ UNCHANGED <<files, server, txns, bk, archive, aside, moments>>

\* Mutant: the old file is unlinked.
MoveAsideUnlinks ==
  /\ rs.pc = "staged"
  /\ rs' = [rs EXCEPT !.pc = "moved"]
  /\ main' = Missing
  /\ UNCHANGED <<wal, ck, half, server, txns, bk, archive, aside, moments, before>>

(* _move_aside renames the main file; the -wal file is not looked at. *)
MoveAside ==
  /\ rs.pc = "staged"
  /\ rs' = [rs EXCEPT !.pc = "moved"]
  /\ aside' = aside \union {main}
  /\ main' = Missing
  /\ UNCHANGED <<wal, ck, half, server, txns, bk, archive, moments, before>>

Install ==
  /\ rs.pc = "moved"
  /\ rs' = [rs EXCEPT !.pc = "installed"]
  /\ \E a \in archive : main' = a.file
  /\ UNCHANGED <<wal, ck, half, server, txns, bk, archive, aside, moments, before>>

Matches(a, image) == image = a.digest /\ [p \in Pages |-> image[p].rows] = a.counts

(* The file is opened, counted, closed and hashed: SQLite applies a -wal   *)
(* file it finds to whatever main file it finds, and on close folds it in. *)
(* The pages of a file that was copied in mid-checkpoint may not even make *)
(* a database.                                                             *)
Verify ==
  /\ rs.pc = "installed" /\ rs.verify
  /\ FoldWal
  /\ \E a \in archive :
       \/ Matches(a, main') /\ rs' = [rs EXCEPT !.pc = "verified"]
       \/ (~Matches(a, main') \/ a.mid) /\ rs' = [rs EXCEPT !.pc = "failed"]
  /\ UNCHANGED <<server, txns, bk, archive, aside, moments, before>>

(* The command is over, in order, with an error, or killed anywhere; the   *)
(* operator may put the copy aside back, and must where there is no file.  *)
EndRestore ==
  /\ rs.pc # "idle"
  /\ rs' = NoRestore
  /\ main' \in aside \union {main} /\ main' # Missing
  /\ before' = Nothing
  /\ aside' = {}
  /\ UNCHANGED <<wal, ck, half, server, txns, bk, archive, moments>>

BkNext ==
  \/ Serve \/ StartCheckpoint \/ (\E p \in Pages : WritePage(p)) \/ ServerStops
  \/ \E touched \in (SUBSET Pages) \ {{}} :
       \E inserted \in SUBSET touched : Commit(touched, inserted)
  \/ StartBackup \/ CloseCount \/ DropBackup \/ \E p \in Pages : Count(p) \/ Hash(p) \/ Pack(p)
  \/ (\E v \in BOOLEAN : StartRestore(v)) \/ MoveAside \/ Install \/ Verify \/ EndRestore

BkSpec == BkInit /\ [][BkNext]_bkVars

(* ------------------------------ properties ----------------------------- *)

(* A restore that was verified has brought back a state the database had   *)
(* while it was backed up, whatever was written or checkpointed between    *)
(* the counts, the digest and the copy: what changed the file between the  *)
(* digest and the copy shows in the digest.  The exception is a checkpoint *)
(* that had written some of its pages, and no more until the copy.         *)
VerifiedIsAMoment ==
  rs.pc = "verified" => main \in moments \/ \E a \in archive : a.mid

(* The converse: the verification fails only if a transaction committed    *)
(* while the backup ran (its counts are of several moments, or the file    *)
(* changed), or if a -wal file lay beside the file that was moved aside.   *)
FailureHasACause ==
  rs.pc = "failed" => before.wal # None \/ \E m, n \in moments : m # n

(* Nobody's state is destroyed: at every step of a restore, wherever it is *)
(* killed or fails, what the database held is in the file or aside, unless *)
(* a server that crashed had left a part of it in its -wal file.           *)
OperatorStateIsKept ==
  rs.pc # "idle" /\ before.wal = None => before.held \in aside \union {main}

(* What a restore promises the operator.                                   *)
BackupSafety == BkTypeOK /\ VerifiedIsAMoment /\ FailureHasACause /\ OperatorStateIsKept
=============================================================================
