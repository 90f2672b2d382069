---------------------------- MODULE MCIdempotency ----------------------------
(* Three requests with one key: two of the same body, and one of another.  *)
EXTENDS Idempotency

CONSTANTS r1, r2, r3

MCRequests == {r1, r2, r3}
MCBody == [r \in MCRequests |-> IF r = r3 THEN "other" ELSE "same"]
=============================================================================
