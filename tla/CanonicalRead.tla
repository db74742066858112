---------------------------- MODULE CanonicalRead -----------------------------
(***************************************************************************)
(* What DualReadRouter.query promises its callers: the answer to a read is *)
(* what the canonical store said, its result or its error, and nothing     *)
(* else.  There is no secondary here, no timeout and no circuit breaker.   *)
(***************************************************************************)
CONSTANT Requests

VARIABLES
    primary,  \* what the canonical store said to each request
    answer    \* what its caller got

Said == {"result", "error"}

Init ==
    /\ primary = [r \in Requests |-> "none"]
    /\ answer = [r \in Requests |-> "none"]

\* The canonical query of r ends.
Say(r, s) ==
    /\ primary[r] = "none"
    /\ primary' = [primary EXCEPT ![r] = s]
    /\ UNCHANGED answer

\* The caller of r gets what the canonical store said.
Answer(r) ==
    /\ primary[r] # "none" /\ answer[r] = "none"
    /\ answer' = [answer EXCEPT ![r] = primary[r]]
    /\ UNCHANGED primary

Next == \E r \in Requests : Answer(r) \/ \E s \in Said : Say(r, s)

Spec == Init /\ [][Next]_<<primary, answer>>
=============================================================================
