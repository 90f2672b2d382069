--------------------------- MODULE IdempotentCalls ---------------------------
(***************************************************************************)
(* What an idempotency key promises to the callers of an API endpoint      *)
(* (validibot/core/models.py, IdempotencyKey): while the key is open for   *)
(* one request, no other request is executed under it; a caller is         *)
(* answered once, with its own response, with the stored response of a     *)
(* request of the same body, or with a refusal.                            *)
(*                                                                         *)
(* The claim of a request ends with the 24 hours of its key, or when its   *)
(* processing fails.  A request may also be executed without a claim: the  *)
(* decorator gives up on the key when it was taken and freed in between.   *)
(***************************************************************************)
CONSTANTS
    Requests,       \* requests that carry the same key, for one endpoint
    Body            \* request_hash of each request

VARIABLES
    open,           \* requests whose claim of the key is in force
    expired,        \* requests whose claim has run out
    answer          \* how each request was answered, and with whose response

callVars == <<open, expired, answer>>

Kinds == {"none", "own", "bare", "replay", "conflict", "mismatch", "error"}
Answers == [kind : Kinds, of : Requests]
Unanswered(r) == answer[r].kind = "none"

Give(r, kind, p) ==
    answer' = [answer EXCEPT ![r] = [kind |-> kind, of |-> p]]

CallsInit ==
    /\ open = {}
    /\ expired = {}
    /\ answer = [r \in Requests |-> [kind |-> "none", of |-> r]]

Claim(r) ==
    /\ open = {} /\ r \notin expired
    /\ open' = {r}
    /\ UNCHANGED <<expired, answer>>

RunOut(r) ==
    /\ r \in open
    /\ open' = open \ {r}
    /\ expired' = expired \cup {r}
    /\ UNCHANGED answer

(* The request's own response: it was executed, with or without the key *)
Respond(r) ==
    /\ Unanswered(r)
    /\ \/ r \in open \cup expired /\ Give(r, "own", r)
       \/ Give(r, "bare", r)
    /\ UNCHANGED <<open, expired>>

(* Its processing failed: the claim is given back if that succeeds *)
Fail(r) ==
    /\ Unanswered(r)
    /\ Give(r, "error", r)
    /\ open' \in {open, open \ {r}}
    /\ UNCHANGED expired

Replay(r, p) ==
    /\ Unanswered(r)
    /\ answer[p].kind = "own" /\ Body[p] = Body[r]
    /\ Give(r, "replay", p)
    /\ UNCHANGED <<open, expired>>

(* Somebody else has, or had, the key: still in progress, or another body *)
Refuse(r) ==
    /\ Unanswered(r)
    /\ \E p \in (open \cup expired) \ {r} :
          \/ Body[p] = Body[r] /\ Give(r, "conflict", p)
          \/ Body[p] # Body[r] /\ Give(r, "mismatch", p)
    /\ UNCHANGED <<open, expired>>

CallsNext ==
    \E r \in Requests :
        \/ Claim(r)
        \/ RunOut(r)
        \/ Respond(r)
        \/ Fail(r)
        \/ Refuse(r)
        \/ \E p \in Requests : Replay(r, p)

CallsSpec == CallsInit /\ [][CallsNext]_callVars
=============================================================================
