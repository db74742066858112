----------------------------- MODULE Extraction -----------------------------
(***************************************************************************)
(* Two ways text becomes rows.  extract/: a provider turns a text into raw *)
(* claims and each is ingested by itself, in order (extract_and_ingest),   *)
(* shadow_write being the same with every error swallowed.  memory_md.py:  *)
(* the entries of a MEMORY.md become cards in one BEGIN IMMEDIATE.         *)
(***************************************************************************)
EXTENDS Naturals, Sequences, FiniteSets

CONSTANTS Jobs, Claims,      \* extractions at work; contents of claims
          Noise,             \* items of a provider's answer that are no claim
          Importers, Files,  \* memory imports at work; companion files
          Bodies, Unreadable,  \* what a file holds; why it is skipped
          MaxItems,          \* bound: items of an answer, entries of an index
          MaxStarts          \* bound: jobs and imports begun

VARIABLES held,      \* claims: content -> claim_id of its row
          job,       \* job[j]: [pc, plan, ids]
          told,      \* history: <<content, claim_id>> of the lists returned
          cards,     \* memory_cards, committed: filename -> body
          dir,       \* dir[f]: the companion file as it stands
          import,    \* import[i]: [pc, todo, work, new, base]
          reported,  \* history: cards_inserted of the imports that returned
          starts

extractVars == <<held, job, told>>
importVars == <<cards, dir, import, reported>>
exVars == <<held, job, told, cards, dir, import, reported, starts>>

ASSUME MissingAssumption == "missing" \in Unreadable
ASSUME ExAssumption == MaxStarts \in Nat
NoCards == [f \in {} |-> "none"]
IdleJob == [pc |-> "idle", plan |-> <<>>, ids |-> <<>>]
IdleImport == [pc |-> "idle", todo |-> <<>>, work |-> NoCards, new |-> 0, base |-> NoCards]

ExTypeOK ==
  /\ DOMAIN held \subseteq Claims /\ (\A c \in DOMAIN held : held[c] \in Nat)
  /\ \A j \in Jobs : /\ job[j].pc \in {"idle", "work"}
                     /\ Len(job[j].ids) <= Len(job[j].plan)
  /\ DOMAIN cards \subseteq Files /\ (\A f \in DOMAIN cards : cards[f] \in Bodies)
  /\ dir \in [Files -> Bodies \union Unreadable]
  /\ Cardinality({i \in Importers : import[i].pc = "open"}) <= 1
  /\ reported \in Nat /\ starts \in 0..MaxStarts

ExInit ==
  /\ held = [c \in {} |-> 0] /\ told = {}
  /\ job = [j \in Jobs |-> IdleJob]
  /\ cards = NoCards /\ reported = 0 /\ starts = 0
  /\ dir = [f \in Files |-> "missing"]
  /\ import = [i \in Importers |-> IdleImport]

(* --------------------------- extraction ------------------------------- *)

(* parse_claims_json drops an item that is no object, does not convert, or *)
(* is less than MIN_CONFIDENCE sure; an answer that is no list gives [].   *)
Parsed(answer) ==
  LET of[n \in 0..Len(answer)] ==   \* the first n items
        IF n = 0 THEN <<>>
        ELSE IF answer[n] \in Claims THEN Append(of[n - 1], answer[n])
        ELSE of[n - 1]
  IN  of[Len(answer)]

(* An empty plan returns [] and writes nothing.                            *)
StartJob(j, answer) ==
  /\ job[j].pc = "idle" /\ starts < MaxStarts
  /\ starts' = starts + 1
  /\ job' = [job EXCEPT ![j] =
       [IdleJob EXCEPT !.plan = Parsed(answer),
                       !.pc = IF Parsed(answer) = <<>> THEN "idle" ELSE "work"]]
  /\ UNCHANGED <<held, told, importVars>>

At(j) == job[j].plan[Len(job[j].ids) + 1]

(* insert_claim OR IGNOREs, the id is that of the row now there.           *)
Holding(c) == IF c \in DOMAIN held THEN held
              ELSE [d \in DOMAIN held \union {c} |->
                      IF d = c THEN Cardinality(DOMAIN held) + 1 ELSE held[d]]
IdOf(c) == Holding(c)[c]

IngestOne(j) ==
  LET ids == Append(job[j].ids, IdOf(At(j)))
      last == Len(ids) = Len(job[j].plan)
  IN
  /\ job[j].pc = "work"
  /\ held' = Holding(At(j))
  /\ job' = [job EXCEPT ![j].ids = ids, ![j].pc = IF last THEN "idle" ELSE @]
  /\ told' = IF last THEN told \union {<<job[j].plan[i], ids[i]>> : i \in 1..Len(ids)}
             ELSE told
  /\ UNCHANGED <<importVars, starts>>

(* ingest_claim raises, its row committed or not, and the ids so far are   *)
(* lost: extract_and_ingest lets the error through, shadow_write says [].  *)
IngestRaises(j, committed) ==
  /\ job[j].pc = "work"
  /\ held' = IF committed THEN Holding(At(j)) ELSE held
  /\ job' = [job EXCEPT ![j].pc = "idle"]
  /\ UNCHANGED <<told, importVars, starts>>

(* ----------------------------- imports -------------------------------- *)

Edit(f, is) ==
  /\ dir[f] # is /\ dir' = [dir EXCEPT ![f] = is]
  /\ UNCHANGED <<extractVars, cards, import, reported, starts>>

(* MEMORY.md is read and parsed before the transaction; an entry may name  *)
(* a file twice.                                                           *)
ReadIndex(i, entries) ==
  /\ import[i].pc = "idle" /\ starts < MaxStarts
  /\ starts' = starts + 1
  /\ import' = [import EXCEPT ![i] = [IdleImport EXCEPT !.pc = "read", !.todo = entries]]
  /\ UNCHANGED <<extractVars, cards, dir, reported>>

(* BEGIN IMMEDIATE: one writer; its snapshot is the committed table.       *)
BeginImport(i) ==
  /\ import[i].pc = "read" /\ \A k \in Importers : import[k].pc # "open"
  /\ import' = [import EXCEPT ![i].pc = "open", ![i].work = cards, ![i].base = cards]
  /\ UNCHANGED <<extractVars, cards, dir, reported, starts>>

\* Mutant: the pre-check reads the committed table.
IsNewOutside(i, f) == f \notin DOMAIN cards

(* The pre-check that tells an insert from an update sees the rows of the  *)
(* transaction it is in.                                                   *)
IsNew(i, f) == f \notin DOMAIN import[i].work

(* One entry: skipped for what its companion file is at this moment, or    *)
(* upserted with the body just read.                                       *)
Entry(i) ==
  LET f == Head(import[i].todo)
      w == import[i].work
  IN
  /\ import[i].pc = "open" /\ import[i].todo # <<>>
  /\ import' = [import EXCEPT
       ![i].todo = Tail(@),
       ![i].work = IF dir[f] \in Unreadable THEN w
                   ELSE [g \in DOMAIN w \union {f} |-> IF g = f THEN dir[f] ELSE w[g]],
       ![i].new = IF dir[f] \notin Unreadable /\ IsNew(i, f) THEN @ + 1 ELSE @]
  /\ UNCHANGED <<extractVars, cards, dir, reported, starts>>

CommitImport(i) ==
  /\ import[i].pc = "open" /\ import[i].todo = <<>>
  /\ cards' = import[i].work
  /\ reported' = reported + import[i].new
  /\ import' = [import EXCEPT ![i] = IdleImport]
  /\ UNCHANGED <<extractVars, dir, starts>>

(* Any error at any point: ROLLBACK and re-raise.                          *)
ImportRaises(i) ==
  /\ import[i].pc = "open"
  /\ import' = [import EXCEPT ![i] = IdleImport]
  /\ UNCHANGED <<extractVars, cards, dir, reported, starts>>

Lists(S) == UNION {[1..n -> S] : n \in 0..MaxItems}

ExtractNext ==
  \E j \in Jobs :
    \/ IngestOne(j)
    \/ \E committed \in BOOLEAN : IngestRaises(j, committed)
    \/ \E answer \in Lists(Claims \union Noise) : StartJob(j, answer)

ImportNext ==
  \/ \E f \in Files, is \in Bodies \union Unreadable : Edit(f, is)
  \/ \E i \in Importers :
       \/ BeginImport(i) \/ Entry(i) \/ CommitImport(i) \/ ImportRaises(i)
       \/ \E entries \in Lists(Files) : ReadIndex(i, entries)

ExSpec == ExInit /\ [][ExtractNext \/ ImportNext]_exVars

(* ------------------------------ properties ----------------------------- *)

(* An id that an extraction returned names the row that holds the claim:   *)
(* two extractions of one text, or a retry after a failure half-way, are   *)
(* told the same ids.                                                      *)
ToldIdsHold == \A r \in told : r[1] \in DOMAIN held /\ held[r[1]] = r[2]

(* A failure leaves the claims before it in the store, in the answer's     *)
(* order, whether the caller sees an error, or nothing (shadow_write).     *)
FailureKeepsPrefix ==
  \A j \in Jobs : \A n \in 1..Len(job[j].ids) :
    job[j].plan[n] \in DOMAIN held /\ held[job[j].plan[n]] = job[j].ids[n]

(* Nothing of an import is seen before its commit, and a failed one leaves *)
(* the table as its begin found it.                                        *)
OpenImportChangesNothing ==
  \A i \in Importers : import[i].pc = "open" => cards = import[i].base

(* The table has as many rows as the imports said they inserted, also when *)
(* an index names a file twice and when two imports cross.                 *)
TableGrowsByInserted == Cardinality(DOMAIN cards) = reported

(* What the two ways to feed the store promise their callers.              *)
ExtractionSafety ==
  ExTypeOK /\ ToldIdsHold /\ FailureKeepsPrefix /\ OpenImportChangesNothing /\ TableGrowsByInserted
=============================================================================
