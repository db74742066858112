------------------------------ MODULE MCClients ------------------------------
(***************************************************************************)
(* What feeds the store and who asks it: model calls, extraction and       *)
(* imports, access, and retrieval.  They share no variable, so only one of *)
(* them moves in a behaviour, and within Extraction only claims or only    *)
(* cards.                                                                  *)
(***************************************************************************)
EXTENDS LlmCall, Extraction, Access, Retrieval, TLC

CONSTANTS t1, t2, t3, p1, p2, h1, h2

(* Two callers in one process, a third in another.                         *)
MCProcessOf == t1 :> p1 @@ t2 :> p1 @@ t3 :> p2
(* The hashes share the prefix an operator would type.                     *)
MCPrefixOf == h1 :> "ab" @@ h2 :> "ab"

clientsVars == <<llmVars, exVars, accessVars, retrVars>>

CardsAtRest == cards = NoCards /\ (\A f \in Files : dir[f] = "missing")
               /\ \A i \in Importers : import[i] = IdleImport
ClaimsAtRest == held = [c \in {} |-> 0] /\ \A j \in Jobs : job[j] = IdleJob
AccessAtRest == mode = "multi" /\ DOMAIN tokens = {} /\ requests = 0

MCInit == LlmInit /\ ExInit /\ AccessInit /\ RetrInit

(* A ranking is asked of the empty store, and the clock moves with rows.   *)
RetrMoves ==
  \/ Ids = {} /\ now = 0 /\ ask.pc = "idle" /\ RankNext
  \/ fused.out = <<>> /\ QueryNext /\ (ask'.form = "timeline" => (ClaimRows = {}))

MCNext ==
  \/ /\ starts = 0 /\ CardsAtRest /\ AccessAtRest /\ RetrInit /\ LlmNext
     /\ UNCHANGED <<exVars, accessVars, retrVars>>
  \/ /\ calls = 0 /\ AccessAtRest /\ RetrInit
     /\ (CardsAtRest /\ ExtractNext) \/ (ClaimsAtRest /\ ImportNext)
     /\ UNCHANGED <<llmVars, accessVars, retrVars>>
  \/ /\ calls = 0 /\ starts = 0 /\ CardsAtRest /\ RetrInit /\ AccessNext
     /\ UNCHANGED <<llmVars, exVars, retrVars>>
  \/ /\ calls = 0 /\ starts = 0 /\ CardsAtRest /\ AccessAtRest /\ RetrMoves
     /\ UNCHANGED <<llmVars, exVars, accessVars>>

MCSpec == MCInit /\ [][MCNext]_clientsVars /\ LlmFairness
=============================================================================
