------------------------------ MODULE Packages ------------------------------
(***************************************************************************)
(* The Aphelion package corpus (apex/subject_index.py, apex/router.py,     *)
(* apex/aphelion_ingest.py).  Operators put, swap and remove packages in a *)
(* directory at any time.  Readers answer from the packages through a      *)
(* subject index, a cache file in the same directory that says which       *)
(* package identities it was built from; ingests verify a package, commit  *)
(* its audit rows and update the index.  A package is read several times   *)
(* on the way, and nothing locks the directory.                            *)
(***************************************************************************)
EXTENDS Naturals, FiniteSets

CONSTANTS Files,         \* names of packages
          Contents,      \* what a package file may hold
          Subjects,
          ClaimSubjects, \* ClaimSubjects[c]: the subjects of c's claims
          Verified,      \* contents that verify: sound archive, signatures
          Trusted,       \* contents whose signer is in the trust store
          Readers,
          MaxChanges     \* bound: changes of the directory

ASSUME ContentsAssumption ==
  /\ ClaimSubjects \in [Contents -> SUBSET Subjects]
  /\ Trusted \subseteq Verified /\ Verified \subseteq Contents
  /\ "gone" \notin Contents
  /\ MaxChanges \in Nat

VARIABLES disk,      \* disk[f]: [ver, holds]; ver is the stat identity
          index,     \* what load_index returns: {} of an absent or corrupt file
          rd,        \* rd[r]: a read in progress
          ing,       \* the ingest in progress
          audited,   \* contents whose audit rows were committed
          changes,   \* changes of the directory so far
          overtaken, \* history: swapped between an ingest's unpack and stat
          mixed,     \* history: swapped between an ingest's verify and unpack
          stable     \* history: stable[r]: files unchanged since r's read began

pkgVars == <<disk, index, rd, ing, audited, changes, overtaken, mixed, stable>>

Gone == "gone"
OnDisk == {f \in Files : disk[f].holds # Gone}

(* current_packages: name and identity (size, mtime) of every package.  A  *)
(* changed file never has an earlier identity again.                       *)
CurrentPackages == {<<f, disk[f].ver>> : f \in OnDisk}

(* The index entries of a package: its file and the subjects of its claims.*)
EntriesOf(f, c) == {f} \X ClaimSubjects[c]

NoRead == [pc |-> "idle", asks |-> {}, stat |-> {}, todo |-> {}, open |-> {},
           entries |-> {}, got |-> {}]
NoIngest == [pc |-> "idle", file |-> "none", holds |-> Gone, old |-> {}, new |-> {}]

ReadPcs == {"idle", "load", "scan", "save", "resolve", "answer", "found", "error"}
IngestPcs == {"idle", "trust", "unpack", "rows", "load", "merge", "save"}

PkgTypeOK ==
  /\ disk \in [Files -> [ver : 0..MaxChanges, holds : Contents \union {Gone}]]
  /\ \A i \in index : /\ i.packages \subseteq Files \X (0..MaxChanges)
                      /\ i.entries \subseteq Files \X Subjects
  /\ \A r \in Readers : rd[r].pc \in ReadPcs /\ rd[r].todo \subseteq Files
  /\ ing.pc \in IngestPcs
  /\ audited \subseteq Contents
  /\ changes \in 0..MaxChanges
  /\ overtaken \in BOOLEAN /\ mixed \in BOOLEAN
  /\ stable \in [Readers -> SUBSET Files]

PkgInit ==
  /\ disk = [f \in Files |-> [ver |-> 0, holds |-> Gone]]
  /\ index = {}
  /\ rd = [r \in Readers |-> NoRead]
  /\ ing = NoIngest
  /\ audited = {}
  /\ changes = 0
  /\ overtaken = FALSE
  /\ mixed = FALSE
  /\ stable = [r \in Readers |-> Files]

(* External: an operator puts, replaces or removes a package. *)
ChangeFile(f, c) ==
  /\ changes < MaxChanges
  /\ disk[f].holds # c
  /\ changes' = changes + 1
  /\ disk' = [disk EXCEPT ![f] = [ver |-> changes + 1, holds |-> c]]
  /\ overtaken' = (overtaken \/ (ing.file = f /\ ing.pc \in {"rows", "load", "merge"}))
  /\ mixed' = (mixed \/ (ing.file = f /\ ing.pc \in {"trust", "unpack"}))
  /\ stable' = [r \in Readers |-> stable[r] \ {f}]
  /\ UNCHANGED <<index, rd, ing, audited>>

(* ------------------------------- reading ------------------------------- *)

(* The request asks for subjects: one that it names (exact), or those its  *)
(* prompt shares a word with, which only the index can tell (free text).   *)
(* load_or_rebuild begins with the identities on disk.                     *)
StartFreeText(r, S) ==
  /\ rd[r].pc = "idle"
  /\ rd' = [rd EXCEPT ![r] = [NoRead EXCEPT !.pc = "load", !.asks = S,
                                            !.stat = CurrentPackages]]
  /\ stable' = [stable EXCEPT ![r] = Files]
  /\ UNCHANGED <<disk, index, ing, audited, changes, overtaken, mixed>>

(* An exact read needs no index: it unpacks the whole directory. *)
StartExact(r, s) ==
  /\ rd[r].pc = "idle"
  /\ rd' = [rd EXCEPT ![r] = [NoRead EXCEPT !.pc = "answer", !.asks = {s},
                                            !.todo = OnDisk]]
  /\ stable' = [stable EXCEPT ![r] = Files]
  /\ UNCHANGED <<disk, index, ing, audited, changes, overtaken, mixed>>

ReadOnly == UNCHANGED <<disk, ing, audited, changes, overtaken, mixed, stable>>

(* The saved index serves if its identities are the ones on disk, else the *)
(* directory is scanned.                                                   *)
UseIndex(r) ==
  /\ rd[r].pc = "load"
  /\ IF \E i \in index : i.packages = rd[r].stat
       THEN rd' = [rd EXCEPT ![r].pc = "resolve",
                             ![r].entries = UNION {i.entries : i \in index}]
       ELSE rd' = [rd EXCEPT ![r].pc = "scan", ![r].todo = OnDisk]
  /\ ReadOnly /\ UNCHANGED index

(* _read_package_claims: unpack first, then verify, which opens the file   *)
(* again, then project the claims that were unpacked.                      *)
Unpack(r, f) ==
  /\ rd[r].pc \in {"scan", "answer"}
  /\ rd[r].open = {}
  /\ f \in rd[r].todo
  /\ IF f \in OnDisk THEN rd' = [rd EXCEPT ![r].open = {<<f, disk[f].holds>>}]
                     ELSE rd' = [rd EXCEPT ![r].pc = "error"]
  /\ ReadOnly /\ UNCHANGED index

(* One package that is missing or does not verify fails the whole read.    *)
Project(r) ==
  \E p \in rd[r].open :
    /\ rd[r].pc \in {"scan", "answer"}
    /\ IF disk[p[1]].holds \notin Verified
         THEN rd' = [rd EXCEPT ![r].pc = "error", ![r].open = {}]
         ELSE rd' = [rd EXCEPT ![r].open = {}, ![r].todo = @ \ {p[1]},
                ![r].entries = IF rd[r].pc = "scan" THEN @ \union EntriesOf(p[1], p[2]) ELSE @,
                ![r].got = IF rd[r].pc = "answer" THEN @ \union EntriesOf(p[1], p[2]) ELSE @]
    /\ ReadOnly /\ UNCHANGED index

Scanned(r) ==
  /\ rd[r].pc = "scan" /\ rd[r].todo = {}
  /\ rd' = [rd EXCEPT ![r].pc = "save"]
  /\ ReadOnly /\ UNCHANGED index

(* What a scan certifies: what it unpacked, under the identities from      *)
(* before.                                                                 *)
ScannedIndex(r) == [packages |-> rd[r].stat, entries |-> rd[r].entries]

(* save_index: the temp file is named after the process, so two readers of *)
(* one process write the same one and either may be the file that is moved *)
(* in, whole or in part.  A failed save is tolerated.                      *)
SaveIndex(r) ==
  /\ rd[r].pc = "save"
  /\ rd' = [rd EXCEPT ![r].pc = "resolve"]
  /\ LET others == {q \in Readers \ {r} : rd[q].pc = "save"}
     IN index' \in {{ScannedIndex(r)}, index}
          \union {{ScannedIndex(q)} : q \in others}
          \union (IF others = {} THEN {} ELSE {{}})
  /\ ReadOnly

(* resolve_subjects and packages_for_subject: the packages to open are the *)
(* indexed ones that hold an asked subject and are still listed.  No       *)
(* package: the answer is empty.                                           *)
Resolve(r) ==
  /\ rd[r].pc = "resolve"
  /\ rd' = [rd EXCEPT ![r].pc = "answer", ![r].stat = {}, ![r].entries = {},
       ![r].todo = {f \in OnDisk : \E s \in rd[r].asks : <<f, s>> \in rd[r].entries}]
  /\ ReadOnly /\ UNCHANGED index

(* R4 over the claims, the audit row of the answer, the evidence; or the   *)
(* audit row cannot be written and the read fails.                         *)
Answer(r) ==
  /\ rd[r].pc = "answer" /\ rd[r].todo = {}
  /\ \E p \in {"found", "error"} : rd' = [rd EXCEPT ![r].pc = p]
  /\ ReadOnly /\ UNCHANGED index

(* The caller takes the result. *)
Return(r) ==
  /\ rd[r].pc \in {"found", "error"}
  /\ rd' = [rd EXCEPT ![r] = NoRead]
  /\ stable' = [stable EXCEPT ![r] = Files]
  /\ UNCHANGED <<disk, index, ing, audited, changes, overtaken, mixed>>

ReadStep(r) ==
  \/ UseIndex(r) \/ (\E f \in Files : Unpack(r, f)) \/ Project(r)
  \/ Scanned(r) \/ SaveIndex(r) \/ Resolve(r) \/ Answer(r)

(* ------------------------------- ingesting ----------------------------- *)

IngestOnly == UNCHANGED <<disk, rd, changes, overtaken, mixed, stable>>

Reject == ing' = NoIngest /\ UNCHANGED <<index, audited>>

(* The gates and verify_package(require_signed). *)
VerifyFile(f) ==
  /\ ing.pc = "idle"
  /\ disk[f].holds \in Verified
  /\ ing' = [NoIngest EXCEPT !.pc = "trust", !.file = f]
  /\ IngestOnly /\ UNCHANGED <<index, audited>>

(* The signer manifests are read from the file again. *)
CheckTrust ==
  /\ ing.pc = "trust"
  /\ IF disk[ing.file].holds \in Trusted
       THEN ing' = [ing EXCEPT !.pc = "unpack"] /\ UNCHANGED <<index, audited>>
       ELSE Reject
  /\ IngestOnly

(* The second unpack; rows and subjects are built from it.                 *)
UnpackAgain ==
  /\ ing.pc = "unpack"
  /\ IF disk[ing.file].holds # Gone
       THEN ing' = [ing EXCEPT !.pc = "rows", !.holds = disk[ing.file].holds]
            /\ UNCHANGED <<index, audited>>
       ELSE Reject
  /\ IngestOnly

(* The manifest or a claim is refused (empty package, duplicate, format),  *)
(* or write_audit_rows_atomic fails: nothing was written.                  *)
RefuseRows == ing.pc = "rows" /\ Reject /\ IngestOnly

WriteBatch ==
  /\ ing.pc = "rows"
  /\ audited' = audited \union {ing.holds}
  /\ ing' = [ing EXCEPT !.pc = "load"]
  /\ IngestOnly /\ UNCHANGED index

(* update_index_for_package: the saved index, then what is on disk now.    *)
LoadExisting ==
  /\ ing.pc = "load"
  /\ ing' = [ing EXCEPT !.pc = "merge", !.old = index]
  /\ IngestOnly /\ UNCHANGED <<index, audited>>

\* Mutant: the identities of all packages are taken from the directory now,
\* the entries of the other ones are carried over.
MergedAllStamped(old) ==
  LET f == ing.file
  IN [packages |-> CurrentPackages,
      entries |-> EntriesOf(f, ing.holds)
                    \union {e \in UNION {i.entries : i \in old} : e[1] # f /\ e[1] \in OnDisk}]

(* Entries and identities of other packages are carried over while those   *)
(* are on disk; this package's are the claims read before, under the       *)
(* identity it has now.                                                    *)
Merged(old) ==
  LET f == ing.file
      kept(g) == g # f /\ g \in OnDisk
      mine == {p \in CurrentPackages : p[1] = f}
  IN [packages |-> mine \union {p \in UNION {i.packages : i \in old} : kept(p[1])},
      entries |-> EntriesOf(f, ing.holds)
                    \union {e \in UNION {i.entries : i \in old} : kept(e[1])}]

MergeIndex ==
  /\ ing.pc = "merge"
  /\ ing' = [ing EXCEPT !.pc = "save", !.new = {Merged(ing.old)}]
  /\ IngestOnly /\ UNCHANGED <<index, audited>>

(* The save fails or the file is replaced: the ingest has succeeded either *)
(* way.                                                                    *)
SaveMerged ==
  /\ ing.pc = "save"
  /\ index' \in {ing.new, index}
  /\ ing' = NoIngest
  /\ IngestOnly /\ UNCHANGED audited

IngestStep == CheckTrust \/ UnpackAgain \/ WriteBatch \/ LoadExisting
                \/ MergeIndex \/ SaveMerged

(* The command is killed, at any point.                                    *)
KillIngest == ing.pc # "idle" /\ Reject /\ IngestOnly

(* The server dies; a save may have been cut. *)
CrashReaders ==
  /\ \E r \in Readers : rd[r].pc # "idle"
  /\ rd' = [r \in Readers |-> NoRead]
  /\ stable' = [r \in Readers |-> Files]
  /\ UNCHANGED <<disk, index, ing, audited, changes, overtaken, mixed>>

PkgNext ==
  \/ \E f \in Files, c \in Contents \union {Gone} : ChangeFile(f, c)
  \/ \E r \in Readers :
       \/ \E S \in SUBSET Subjects \ {{}} : StartFreeText(r, S)
       \/ \E s \in Subjects : StartExact(r, s)
       \/ ReadStep(r) \/ Return(r)
  \/ \E f \in Files : VerifyFile(f)
  \/ IngestStep \/ RefuseRows \/ KillIngest \/ CrashReaders

PkgSpec == PkgInit /\ [][PkgNext]_pkgVars

(* ------------------------------ properties ----------------------------- *)

TrueEntries == UNION {EntriesOf(f, disk[f].holds) : f \in OnDisk}

(* load_or_rebuild's promise: an index it would serve as fresh is consistent*)
(* with the packages on disk.  (Entries of a package that came and went    *)
(* during a scan may remain; the loader opens listed files only.)          *)
FreshIndexIsTrue ==
  \A i \in index :
    i.packages = CurrentPackages => {e \in i.entries : e[1] \in OnDisk} = TrueEntries

(* It is kept through scans overtaken by swaps, two readers saving at once,*)
(* saves that fail or are cut, ingests of one package while others change, *)
(* and crashes, by everything but an ingest whose own package is swapped   *)
(* between its unpack and the stat of its index update.                    *)
ScansCertifyTruth == overtaken \/ FreshIndexIsTrue

(* A subject that is on disk all through a read is found by it: an answer  *)
(* that leaves it out is never given from a stale index.                   *)
FoundIfThere ==
  \A r \in Readers :
    rd[r].pc = "found" /\ ~overtaken =>
      \A f \in stable[r] \intersect OnDisk, s \in rd[r].asks :
        s \in ClaimSubjects[disk[f].holds] => <<f, s>> \in rd[r].got

(* No graceful degradation: with a package on disk that does not verify, no*)
(* read of the whole time succeeds, also one that opens other packages only*)
(* because a saved index told it so; unless an ingest's package was swapped*)
(* after it verified, which the index it saves then vouches for.           *)
BadPackageFailsReads ==
  \A r \in Readers :
    rd[r].pc = "found" /\ ~overtaken /\ ~mixed =>
      \A f \in stable[r] \intersect OnDisk : disk[f].holds \in Verified

(* Audit rows are of packages that verified and were signed by a trusted   *)
(* signer, unless the file was swapped between those checks and the second *)
(* unpack.                                                                 *)
AuditedWereTrusted == mixed \/ audited \subseteq Trusted

(* What the package corpus promises its readers and the audit log.         *)
PackageSafety ==
  PkgTypeOK /\ ScansCertifyTruth /\ FoundIfThere /\ BadPackageFailsReads /\ AuditedWereTrusted
=============================================================================
