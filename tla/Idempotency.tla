----------------------------- MODULE Idempotency -----------------------------
(***************************************************************************)
(* Requests with an Idempotency-Key header: validibot/core/idempotency.py  *)
(* (the decorator around the views that create runs) and the command that  *)
(* deletes expired keys.                                                   *)
(*                                                                         *)
(* The requests share one (org, key, endpoint), which is unique in the     *)
(* table, so the table is one row or none.  ATOMIC_REQUESTS is off: each   *)
(* action is one query of the decorator.  A row is identified by the       *)
(* request that created it.  Time: "expired" are the rows whose expires_at *)
(* has passed; a request takes its "now" once, when it starts, and judges  *)
(* every row by it afterwards (seen).                                      *)
(*                                                                         *)
(* Left out: the checks of the header's length and of the org (both bypass *)
(* the key), the serialization of the response.                            *)
(***************************************************************************)
EXTENDS Integers

CONSTANTS
    Requests,       \* requests that carry the same key, for one endpoint
    Body,           \* request_hash of each request
    NoRequest

ASSUME NoRequestAssumption == NoRequest \notin Requests

VARIABLES
    row,            \* the IdempotencyKey row; its id is NoRequest if none
    expired,        \* rows whose 24 hours are over
    pc,             \* where each request is in the decorator
    seen,           \* rows that had expired at the request's "now"
    answer,         \* how each request was answered, and with whose response
    runs            \* external: requests whose view created its run

vars == <<row, expired, pc, seen, answer, runs>>

NoRow == [id |-> NoRequest, status |-> "NONE"]
Kinds == {"none", "own", "bare", "replay", "conflict", "mismatch", "error"}
Control == {"idle", "find", "delete", "create", "refetch", "execute",
            "unprotected", "complete", "release", "done", "crashed"}

Init ==
    /\ row = NoRow
    /\ expired = {}
    /\ pc = [r \in Requests |-> "idle"]
    /\ seen = [r \in Requests |-> {}]
    /\ answer = [r \in Requests |-> [kind |-> "none", of |-> r]]
    /\ runs = {}

Goto(r, at) == pc' = [pc EXCEPT ![r] = at]

Reply(r, kind, p) ==
    /\ answer' = [answer EXCEPT ![r] = [kind |-> kind, of |-> p]]
    /\ Goto(r, "done")

-----------------------------------------------------------------------------
(* _process_idempotency_key *)

(* now = timezone.now() *)
Begin(r) ==
    /\ pc[r] = "idle"
    /\ seen' = [seen EXCEPT ![r] = expired]
    /\ Goto(r, "find")
    /\ UNCHANGED <<row, expired, answer, runs>>

(* expires_at__gt=now *)
Live(r) == row # NoRow /\ row.id \notin seen[r]

(* Faulty: the body is not compared *)
VerdictOnAnyBody(r) ==
    IF row.status = "PROCESSING" THEN "conflict" ELSE "replay"

(* What an existing row means for a request that carries its key again *)
Verdict(r) ==
    CASE Body[row.id] # Body[r] -> "mismatch"
      [] Body[row.id] = Body[r] /\ row.status = "PROCESSING" -> "conflict"
      [] OTHER -> "replay"

Lookup(r, at, otherwise) ==
    /\ pc[r] = at
    /\ \/ Live(r) /\ Reply(r, Verdict(r), row.id)
       \/ ~Live(r) /\ Goto(r, otherwise) /\ UNCHANGED answer
    /\ UNCHANGED <<row, expired, seen, runs>>

Find(r) == Lookup(r, "find", "delete")

(* The row that beat this request was deleted again: no key at all *)
Refetch(r) == Lookup(r, "refetch", "unprotected")

(* Faulty: "no live row was found" is taken for "any row is an old one" *)
DeleteAnyRow(r) ==
    /\ pc[r] = "delete"
    /\ row' = NoRow
    /\ Goto(r, "create")
    /\ UNCHANGED <<expired, seen, answer, runs>>

DeleteExpired(r) ==
    /\ pc[r] = "delete"
    /\ row' = IF row.id \in seen[r] THEN NoRow ELSE row
    /\ Goto(r, "create")
    /\ UNCHANGED <<expired, seen, answer, runs>>

(* The unique constraint decides between concurrent requests *)
Create(r) ==
    /\ pc[r] = "create"
    /\ \/ /\ row = NoRow
          /\ row' = [id |-> r, status |-> "PROCESSING"]
          /\ Goto(r, "execute")
       \/ row # NoRow /\ Goto(r, "refetch") /\ UNCHANGED row
    /\ UNCHANGED <<expired, seen, answer, runs>>

-----------------------------------------------------------------------------
(* The decorated view, and what the decorator does with its outcome *)

(* The view creates the run or not; whichever it did, it returns or raises. *)
(* A returned error is a response like any other and is stored.             *)
Execute(r) ==
    /\ pc[r] = "execute"
    /\ runs' \in {runs, runs \cup {r}}
    /\ pc' \in {[pc EXCEPT ![r] = "complete"], [pc EXCEPT ![r] = "release"]}
    /\ UNCHANGED <<row, expired, seen, answer>>

ExecuteUnprotected(r) ==
    /\ pc[r] = "unprotected"
    /\ runs' \in {runs, runs \cup {r}}
    /\ Reply(r, "bare", r) \/ Reply(r, "error", r)
    /\ UNCHANGED <<row, expired, seen>>

(* Faulty: whatever row there is, or none, gets the response *)
CompleteInPlace(r) ==
    /\ pc[r] = "complete"
    /\ row' = [row EXCEPT !.status = "COMPLETED"]
    /\ Reply(r, "own", r)
    /\ UNCHANGED <<expired, seen, runs>>

(* _complete_idempotency_key: save() updates the row by its id, and inserts *)
(* it again when it is gone; the insertion fails if the key was retaken.    *)
Complete(r) ==
    /\ pc[r] = "complete"
    /\ \/ /\ row.id \in {r, NoRequest}
          /\ row' = [id |-> r, status |-> "COMPLETED"]
          /\ Reply(r, "own", r)
       \/ /\ row.id \notin {r, NoRequest}
          /\ Reply(r, "error", r)
          /\ UNCHANGED row
    /\ UNCHANGED <<expired, seen, runs>>

(* The view raised: the row is deleted by its id, or the deletion raises too *)
Release(r) ==
    /\ pc[r] = "release"
    /\ row' \in {row, IF row.id = r THEN NoRow ELSE row}
    /\ Reply(r, "error", r)
    /\ UNCHANGED <<expired, seen, runs>>

-----------------------------------------------------------------------------
(* The process that serves the request dies *)
Crash(r) ==
    /\ pc[r] \notin {"idle", "done", "crashed"}
    /\ Goto(r, "crashed")
    /\ UNCHANGED <<row, expired, seen, answer, runs>>

(* 24 hours have passed since the row was created; a request that is still *)
(* being served then is not excluded                                       *)
Expire ==
    /\ row # NoRow
    /\ expired' = expired \cup {row.id}
    /\ UNCHANGED <<row, pc, seen, answer, runs>>

(* Faulty: keys that look in use are kept *)
CleanUpCompleted ==
    /\ row.id \in expired /\ row.status = "COMPLETED"
    /\ row' = NoRow
    /\ UNCHANGED <<expired, pc, seen, answer, runs>>

(* Faulty: every completed row is deleted *)
CleanUpEarly ==
    /\ row.id \in expired \/ row.status = "COMPLETED"
    /\ row' = NoRow
    /\ UNCHANGED <<expired, pc, seen, answer, runs>>

(* cleanup_idempotency_keys *)
CleanUp ==
    /\ row.id \in expired
    /\ row' = NoRow
    /\ UNCHANGED <<expired, pc, seen, answer, runs>>

Serve(r) ==
    \/ Begin(r)
    \/ Find(r)
    \/ DeleteExpired(r)
    \/ Create(r)
    \/ Refetch(r)
    \/ Execute(r)
    \/ ExecuteUnprotected(r)
    \/ Complete(r)
    \/ Release(r)

Next ==
    \/ \E r \in Requests : Serve(r) \/ Crash(r)
    \/ Expire
    \/ CleanUp

(* Time passes, the command is scheduled, and a request that was accepted   *)
(* is served unless its process dies.  Nothing says that a client calls.    *)
Fairness ==
    /\ WF_vars(Expire) /\ WF_vars(CleanUp)
    /\ \A r \in Requests : WF_vars(pc[r] # "idle" /\ Serve(r))

Spec == Init /\ [][Next]_vars /\ Fairness

-----------------------------------------------------------------------------
TypeOK ==
    /\ row \in [id : Requests, status : {"PROCESSING", "COMPLETED"}]
                  \cup {NoRow}
    /\ expired \subseteq Requests
    /\ pc \in [Requests -> Control]
    /\ seen \in [Requests -> SUBSET Requests]
    /\ answer \in [Requests -> [kind : Kinds, of : Requests]]
    /\ runs \subseteq Requests

(* The key protects the caller from a second run: of two requests that      *)
(* created a run and still hold the key, or were answered with it, one had  *)
(* its 24 hours before.  Requests that were told of an error, and those     *)
(* served without the key (Refetch), are outside the promise.               *)
Charged(r) ==
    r \in runs /\ (pc[r] = "complete" \/ answer[r].kind = "own" \/ row.id = r)

OneRunPerKey ==
    \A r, q \in Requests :
        Charged(r) /\ Charged(q) => r = q \/ {r, q} \cap expired # {}

(* The answer to a repeated request is the response of a request with the   *)
(* same body that was executed and had answered; requests in progress and   *)
(* other bodies are never replayed.                                         *)
ReplaysAreTrue ==
    \A r \in Requests : answer[r].kind = "replay" =>
        /\ answer[r].of # r
        /\ Body[answer[r].of] = Body[r]
        /\ answer[answer[r].of].kind = "own"

(* A key is not blocked for ever by a request whose process died, and a row *)
(* that a late response inserts again does not stay either.                 *)
KeyIsFreed == \A r \in Requests : row.id = r ~> row.id # r

(* The decorator and the command keep what the key promises *)
Calls == INSTANCE IdempotentCalls
         WITH open <- {row.id} \ (expired \cup {NoRequest})
ImplementsCalls == Calls!CallsSpec
=============================================================================
