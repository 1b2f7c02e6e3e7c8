------------------------------ MODULE Admission ------------------------------
(***************************************************************************)
(* What replay protection promises, whoever implements it.  A replay key   *)
(* (tenant | jti | operation | subject) belongs to the first request that  *)
(* claims it.  A request is admitted as Fresh only if it is that request,  *)
(* and as a Retry only if it carries the idempotency key of that request;  *)
(* it may always be turned away or get lost.                               *)
(***************************************************************************)
CONSTANTS Requests,  \* the requests that reach any server instance
          Keys,      \* replay keys
          Idems,     \* idempotency keys
          NoIdem,    \* the request carries no idempotency key (PUT_CHUNK)
          None       \* no owner, no verdict

VARIABLES call,      \* call[r]: the replay key and idempotency key of r
          owner,     \* owner[k]: the request that claimed k
          verdict    \* verdict[r]: the outcome of authorize for r

vars == <<call, owner, verdict>>

Init ==
  /\ call \in [Requests -> [key : Keys, idem : Idems \cup {NoIdem}]]
  /\ owner = [k \in Keys |-> None]
  /\ verdict = [r \in Requests |-> None]

MayBeFresh(r, own) == own[call[r].key] = r

MayBeRetry(r, own) ==
  /\ call[r].idem # NoIdem
  /\ own[call[r].key] # None
  /\ call[own[call[r].key]].idem = call[r].idem

(* A request claims a key nobody owns; the claim may already decide it.    *)
Claim(r) ==
  /\ owner[call[r].key] = None
  /\ verdict[r] = None
  /\ owner' = [owner EXCEPT ![call[r].key] = r]
  /\ \E v \in {None, "Fresh", "Retry"} :
       /\ v = "Retry" => MayBeRetry(r, owner')
       /\ verdict' = [verdict EXCEPT ![r] = v]
  /\ UNCHANGED call

(* A request is decided against the owner of its key.                      *)
Decide(r) ==
  /\ verdict[r] = None
  /\ \E v \in {"Fresh", "Retry", "Denied"} :
       /\ v = "Fresh" => MayBeFresh(r, owner)
       /\ v = "Retry" => MayBeRetry(r, owner)
       /\ verdict' = [verdict EXCEPT ![r] = v]
  /\ UNCHANGED <<call, owner>>

Next == \E r \in Requests : Claim(r) \/ Decide(r)

Spec == Init /\ [][Next]_vars
=============================================================================
