----------------------------- MODULE Retrieval -----------------------------
(***************************************************************************)
(* Queries over the store (retrieve.py) and the fused ranking of           *)
(* candidates (retrieval/semantic.py).  A query over events and claims is  *)
(* two SELECTs, each with its own LIMIT, and other connections write in    *)
(* between; only rows that match the query are modelled.  For the recency  *)
(* an instant is 12 hours; Second and Day, the grains of a time bound, are *)
(* scaled down to a few instants.                                          *)
(***************************************************************************)
EXTENDS Naturals, FiniteSets, FiniteSetsExt

CONSTANTS MaxRows,   \* bound: rows
          MaxTime,   \* bound: instants
          Limit,     \* the caller's limit
          Second,    \* instants of a second: a bound may name a whole one
          Day,       \* instants of a day, a multiple of Second
          Items,     \* candidates to rank
          K          \* RRF_K_DEFAULT

VARIABLES rows,   \* events and claims that match: id -> row
          now,    \* the clock of the server and of created_at
          ask,      \* the query: [pc, form, hits, began, since, until]
          fused   \* the last ranking: [lex, dense, out]

retrVars == <<rows, now, ask, fused>>

ASSUME RetrAssumption ==
  /\ MaxRows \in Nat /\ MaxTime \in Nat /\ Limit \in Nat /\ K \in Nat
  /\ Second \in Nat \ {0} /\ Day \in Nat \ {0} /\ IsFiniteSet(Items)

NoQuery == [pc |-> "idle", form |-> "none", hits |-> {}, began |-> {}, since |-> 0,
            until |-> [at |-> 0, grain |-> 1]]
Ids == DOMAIN rows
EventRows == {i \in Ids : rows[i].kind = "event"}
ClaimRows == Ids \ EventRows

RetrTypeOK ==
  /\ Ids = 1..Cardinality(Ids) /\ Cardinality(Ids) <= MaxRows
  /\ \A i \in Ids : rows[i].kind \in {"event", "exact", "prefix"}
  /\ now \in 0..MaxTime
  /\ ask.pc \in {"idle", "second", "done"} /\ Cardinality(ask.hits) <= 2 * Limit
  /\ ask.began \subseteq Ids

RetrInit ==
  /\ rows = [i \in {} |-> 0] /\ now = 0 /\ ask = NoQuery
  /\ fused = [lex |-> <<>>, dense |-> <<>>, out |-> <<>>]

Tick == now < MaxTime /\ now' = now + 1 /\ UNCHANGED <<rows, ask, fused>>

(* External: another connection commits an event or a claim.               *)
Write(row) ==
  /\ Cardinality(Ids) < MaxRows
  /\ rows' = [i \in Ids \union {Cardinality(Ids) + 1} |->
                IF i \in Ids THEN rows[i] ELSE row]
  /\ UNCHANGED <<now, ask, fused>>

(* _recency_score in percent: a day halves it.                             *)
Recency(at) == 200 \div (2 + (now - at))

(* What a query form adds up for a row that it found.                      *)
EventScore(form, at) ==
  CASE form = "bug_fix" -> 6000 + 40 * Recency(at)
    [] form = "entity"  -> 5000 + 30 * Recency(at)
    [] OTHER            -> 100 * Recency(at)

ClaimScore(form, kind) ==
  CASE form = "bug_fix"                     -> 8000
    [] form # "bug_fix" /\ kind = "exact"   -> 11000
    [] OTHER                                -> 7000

Score(form, i) ==
  IF rows[i].kind = "event" THEN EventScore(form, rows[i].at) ELSE ClaimScore(form, rows[i].kind)

(* ORDER BY key DESC LIMIT: any choice among rows that tie.                *)
Top(S, Key(_)) ==
  {T \in kSubset(IF Cardinality(S) < Limit THEN Cardinality(S) ELSE Limit, S) :
     \A x \in T, y \in S \ T : Key(x) >= Key(y)}

NewestEvents == Top(EventRows, LAMBDA i : rows[i].at)
SurestClaims == Top(ClaimRows, LAMBDA i : rows[i].conf)
Hits(form, S) == {[id |-> i, score |-> Score(form, i)] : i \in S}

(* by_bug_fix reads the events first, by_entity the claims.                *)
FirstQuery(form) ==
  /\ ask.pc = "idle"
  /\ \E S \in IF form = "bug_fix" THEN NewestEvents ELSE SurestClaims :
       ask' = [NoQuery EXCEPT !.pc = "second", !.form = form, !.hits = Hits(form, S),
                            !.began = Ids]
  /\ UNCHANGED <<rows, now, fused>>

(* The other half, then the merge: the best `limit` of both.               *)
SecondQuery ==
  /\ ask.pc = "second"
  /\ \E S \in IF ask.form = "bug_fix" THEN SurestClaims ELSE NewestEvents :
       \E T \in Top(ask.hits \union Hits(ask.form, S), LAMBDA h : h.score) :
         ask' = [ask EXCEPT !.pc = "done", !.hits = T]
  /\ UNCHANGED <<rows, now, fused>>

\* Mutant: the bound is compared as it was given.
UntilBoundAsGiven(until) == until.at

(* _iso_normalize(kind="until"): a date covers its day, and a bound without*)
(* microseconds its second.                                                *)
UntilBound(until) ==
  CASE until.grain = Day                                    -> until.at + Day - 1
    [] until.grain # Day /\ until.at % Second = 0 -> until.at + Second - 1
    [] OTHER                                                -> until.at

(* by_timeline: the oldest rows of the window; an empty one is a ValueError.*)
Timeline(since, until) ==
  LET inWindow == {i \in EventRows : since <= rows[i].at /\ rows[i].at <= UntilBound(until)}
  IN /\ ask.pc = "idle" /\ since <= UntilBound(until)
     /\ \E S \in Top(inWindow, LAMBDA i : MaxTime - rows[i].at) :
          ask' = [pc |-> "done", form |-> "timeline", hits |-> Hits("timeline", S),
                began |-> EventRows, since |-> since, until |-> until]
     /\ UNCHANGED <<rows, now, fused>>

TakeAnswer == ask.pc = "done" /\ ask' = NoQuery /\ UNCHANGED <<rows, now, fused>>

(* ------------------------------- ranking ------------------------------- *)

ItemCount == Cardinality(Items)
Orders == {s \in [1..ItemCount -> Items] : \A i, j \in 1..ItemCount : s[i] = s[j] => i = j}
Rank(s, x) == CHOOSE i \in 1..ItemCount : s[i] = x

(* 1 / (k + a) + 1 / (k + b), the ranks a and b, as a fraction.            *)
Fused(lex, dense, x) ==
  LET a == K + Rank(lex, x)
      b == K + Rank(dense, x)
  IN [num |-> a + b, den |-> a * b]

AtLeast(f, g) == f.num * g.den >= g.num * f.den

(* rrf_merge, equal scores in any order; hybrid_rank is lexical only when  *)
(* the embedding provider fails.                                           *)
HybridRank(lex, dense, ok) ==
  /\ fused' \in {[lex |-> lex, dense |-> IF ok THEN dense ELSE <<>>, out |-> s] :
                   s \in IF ok THEN {s \in Orders : \A i, j \in 1..ItemCount : i < j =>
                                       AtLeast(Fused(lex, dense, s[i]), Fused(lex, dense, s[j]))}
                               ELSE {lex}}
  /\ UNCHANGED <<rows, now, ask>>

QueryNext ==
  \/ Tick
  \/ Write([kind |-> "event", at |-> now])
  \/ \E k \in {"exact", "prefix"}, c \in 1..2 : Write([kind |-> k, conf |-> c])
  \/ \E form \in {"bug_fix", "entity"} : FirstQuery(form)
  \/ SecondQuery
  \/ \E since \in 0..MaxTime, g \in {1, Second, Day} :
       \E at \in {t \in 0..MaxTime : t % g = 0} : Timeline(since, [at |-> at, grain |-> g])
  \/ TakeAnswer

RankNext == \E lex \in Orders, dense \in Orders, ok \in BOOLEAN : HybridRank(lex, dense, ok)

RetrSpec == RetrInit /\ [][QueryNext \/ RankNext]_retrVars

(* ------------------------------ properties ----------------------------- *)

Returned == {h.id : h \in ask.hits}

(* The LIMITs of the two halves lose nothing that the merge would have     *)
(* kept: a row that matched when the query began is left out only for      *)
(* `limit` hits that score as much, whatever was written in between.  The  *)
(* exception is by_entity's exact match, which as many surer claims, also  *)
(* prefix matches that score less, push out of the first half.             *)
BestIsNotMissed ==
  ask.pc = "done" /\ ask.form \in {"bug_fix", "entity"} =>
    \A i \in ask.began \ Returned :
      \/ Cardinality({h \in ask.hits : h.score >= Score(ask.form, i)}) = Limit
      \/ /\ ask.form = "entity" /\ rows[i].kind = "exact"
         /\ Cardinality({c \in (ask.began \intersect ClaimRows) \ {i} :
                           rows[c].conf >= rows[i].conf}) >= Limit

(* A window that ends with a day or a second holds all of it: an event is  *)
(* left out only for `limit` older ones of the window.                     *)
WindowIsWhole ==
  ask.pc = "done" /\ ask.form = "timeline" =>
    \A i \in ask.began \ Returned :
      ask.since <= rows[i].at /\ rows[i].at \div ask.until.grain <= ask.until.at \div ask.until.grain =>
        /\ Cardinality(Returned) = Limit
        /\ \A j \in Returned : rows[j].at <= rows[i].at

(* What both rankings put first, the fusion does not turn around, and a    *)
(* candidate is neither lost nor doubled, also without an embedding server.*)
FusionKeepsAgreement ==
  fused.out # <<>> =>
    /\ {fused.out[i] : i \in 1..ItemCount} = Items
    /\ \A x, y \in Items :
         /\ Rank(fused.lex, x) < Rank(fused.lex, y)
         /\ fused.dense # <<>> => Rank(fused.dense, x) < Rank(fused.dense, y)
         => Rank(fused.out, x) < Rank(fused.out, y)

(* What the answers promise.                                               *)
RetrievalSafety == RetrTypeOK /\ BestIsNotMissed /\ WindowIsWhole /\ FusionKeepsAgreement
=============================================================================
