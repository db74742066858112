------------------------------- MODULE Access -------------------------------
(***************************************************************************)
(* server/auth.py and the token commands of cli.py: who a request acts as. *)
(* The auth mode and the bind address are environment variables of the     *)
(* process; in multi-user mode every request looks its token up in         *)
(* api_tokens, which other processes (parallax token ...) change.          *)
(***************************************************************************)
EXTENDS Naturals, FiniteSets

CONSTANTS Hashes, PrefixOf,   \* token hashes; the prefix an operator would type
          Users, Clients,
          Operators,          \* token commands at work
          MaxRequests         \* bound: requests in all

ASSUME AccessAssumption ==
  /\ Users \intersect {"nobody", "none", "401", "400"} = {}
  /\ MaxRequests \in Nat

VARIABLES mode,      \* "open", "single" or "multi"
          tokens,    \* api_tokens: hash -> [user, revoked]
          revoke,    \* revoke[o]: [pc, prefix, row]
          req,       \* req[c]: [pc, bearer, asked, as, dead]
          requests,
          hit        \* history: the rows that a revoke command matched alone

accessVars == <<mode, tokens, revoke, req, requests, hit>>

(* What a request can carry: a token's plaintext, the shared token of      *)
(* PARALLAX_TOKEN, something else, nothing.                                *)
Bearers == Hashes \union {"shared", "other", "none"}
Fallbacks == Users \union {"nobody"}   \* "nobody" is the empty user id, or none at all
IdleRevoke == [pc |-> "idle", prefix |-> "none", row |-> "none"]
IdleRequest == [pc |-> "idle", bearer |-> "none", asked |-> "nobody", as |-> "none", dead |-> FALSE]

AccessTypeOK ==
  /\ mode \in {"open", "single", "multi"}
  /\ DOMAIN tokens \subseteq Hashes
  /\ \A h \in DOMAIN tokens : tokens[h].user \in Fallbacks /\ tokens[h].revoked \in BOOLEAN
  /\ \A c \in Clients : /\ req[c].pc \in {"idle", "sent", "authed", "done"}
                        /\ req[c].as \in Fallbacks \union {"none", "401", "400"}
  /\ hit \subseteq DOMAIN tokens /\ requests \in 0..MaxRequests

AccessInit ==
  /\ mode \in {"open", "single", "multi"}
  /\ tokens = [h \in {} |-> [user |-> "nobody", revoked |-> FALSE]]
  /\ revoke = [o \in Operators |-> IdleRevoke]
  /\ req = [c \in Clients |-> IdleRequest]
  /\ requests = 0 /\ hit = {}

(* --------------------------- token commands ---------------------------- *)

(* parallax token create --user takes any string, the empty one too.       *)
CreateToken(h, u) ==
  /\ h \notin DOMAIN tokens
  /\ tokens' = [k \in DOMAIN tokens \union {h} |->
                  IF k = h THEN [user |-> u, revoked |-> FALSE] ELSE tokens[k]]
  /\ UNCHANGED <<mode, revoke, req, requests, hit>>

Matching(prefix) == {h \in DOMAIN tokens : PrefixOf[h] = prefix}

(* The SELECT.  No match, several matches and a match revoked before end   *)
(* the command here.                                                       *)
SelectMatch(o, prefix) ==
  /\ revoke[o].pc = "idle"
  /\ \E h \in Matching(prefix) :
       /\ Matching(prefix) = {h} /\ ~tokens[h].revoked
       /\ revoke' = [revoke EXCEPT ![o] = [pc |-> "update", prefix |-> prefix, row |-> h]]
       /\ hit' = hit \union {h}
  /\ UNCHANGED <<mode, tokens, req, requests>>

(* What the UPDATE is keyed by: the hash that was read.                    *)
Hit(o) == {revoke[o].row}

Revoke(o) ==
  /\ revoke[o].pc = "update"
  /\ tokens' = [h \in DOMAIN tokens |->
                  IF h \in Hit(o) THEN [tokens[h] EXCEPT !.revoked = TRUE] ELSE tokens[h]]
  /\ revoke' = [revoke EXCEPT ![o] = IdleRevoke]
  /\ UNCHANGED <<mode, req, requests, hit>>

(* The command is interrupted between its SELECT and its UPDATE.           *)
GiveUp(o) ==
  /\ revoke[o].pc = "update" /\ revoke' = [revoke EXCEPT ![o] = IdleRevoke]
  /\ UNCHANGED <<mode, tokens, req, requests, hit>>

(* ------------------------------ requests ------------------------------- *)

Revoked(h) == h \in DOMAIN tokens /\ tokens[h].revoked

SendRequest(c, bearer, asked) ==
  /\ req[c].pc \in {"idle", "done"} /\ requests < MaxRequests
  /\ requests' = requests + 1
  /\ req' = [req EXCEPT ![c] = [pc |-> "sent", bearer |-> bearer, asked |-> asked,
                                as |-> "none", dead |-> Revoked(bearer)]]
  /\ UNCHANGED <<mode, tokens, revoke, hit>>

\* Mutant: the lookup does not ask whether the token was revoked.
AdmittedRevoked(bearer) ==
  \/ mode = "open"
  \/ mode = "single" /\ bearer = "shared"
  \/ mode = "multi" /\ bearer \in DOMAIN tokens

(* require_auth: the tokens it lets through.                               *)
Admitted(bearer) ==
  \/ mode = "open"
  \/ mode = "single" /\ bearer = "shared"
  \/ mode = "multi" /\ bearer \in DOMAIN tokens /\ ~tokens[bearer].revoked

(* request.state.user_id: only the multi-user lookup sets it.              *)
RequireAuth(c) ==
  LET b == req[c].bearer IN
  /\ req[c].pc = "sent"
  /\ req' = [req EXCEPT
       ![c].pc = IF Admitted(b) THEN "authed" ELSE "done",
       ![c].as = IF ~Admitted(b) THEN "401" ELSE IF mode = "multi" THEN tokens[b].user ELSE @]
  /\ UNCHANGED <<mode, tokens, revoke, requests, hit>>

(* current_user_id: the authenticated user wins over the one in the query  *)
(* or body, if it is not empty.                                            *)
UserFor(c) ==
  IF req[c].as \notin {"none", "nobody"} THEN req[c].as
  ELSE IF req[c].asked # "nobody" THEN req[c].asked ELSE "400"

CurrentUser(c) ==
  /\ req[c].pc = "authed"
  /\ req' = [req EXCEPT ![c].pc = "done", ![c].as = UserFor(c)]
  /\ UNCHANGED <<mode, tokens, revoke, requests, hit>>

AccessNext ==
  \/ \E h \in Hashes, u \in Fallbacks : CreateToken(h, u)
  \/ \E o \in Operators : Revoke(o) \/ GiveUp(o) \/ \E h \in Hashes : SelectMatch(o, PrefixOf[h])
  \/ \E c \in Clients : RequireAuth(c) \/ CurrentUser(c)
                        \/ \E b \in Bearers, u \in Fallbacks : SendRequest(c, b, u)

AccessSpec == AccessInit /\ [][AccessNext]_accessVars

(* ------------------------------ properties ----------------------------- *)

Answered(c) == req[c].pc = "done" /\ req[c].as \notin {"401", "400"}

(* A request that was sent after a token's revocation committed is refused:*)
(* nothing of an earlier lookup is kept.                                   *)
RevokedIsRefused ==
  \A c \in Clients : mode = "multi" /\ req[c].dead => ~Answered(c)

(* In multi-user mode a request acts as the user its own token was made    *)
(* for, whatever user it names and whatever tokens come and go meanwhile.  *)
(* Only a token made for the empty user id leaves it to the client: its    *)
(* requests act as the user they name, and are refused if they name none.  *)
ActsAsTokenOwner ==
  \A c \in Clients : mode = "multi" /\ Answered(c) =>
    /\ req[c].bearer \in DOMAIN tokens
    /\ req[c].as = LET owner == tokens[req[c].bearer].user
                   IN  IF owner = "nobody" THEN req[c].asked ELSE owner
    /\ req[c].as # "nobody"

(* A revoke command takes exactly the row it showed as its only match,     *)
(* though another token with that prefix may be made in between.           *)
OnlyMatchedIsRevoked == \A h \in DOMAIN tokens : tokens[h].revoked => h \in hit

(* What the owner of a token may rely on.                                  *)
AccessSafety == AccessTypeOK /\ RevokedIsRefused /\ ActsAsTokenOwner /\ OnlyMatchedIsRevoked
=============================================================================
