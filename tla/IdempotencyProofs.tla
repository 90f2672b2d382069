-------------------------- MODULE IdempotencyProofs --------------------------
(***************************************************************************)
(* The promise of an idempotency key, for any number of requests, bodies   *)
(* and crashes: types, one run, true replays, and that the decorator with  *)
(* the command implements IdempotentCalls.                                 *)
(***************************************************************************)
EXTENDS Idempotency, TLAPS

(* r has created the row, whether or not it is still there. *)
Started == {"execute", "complete", "release", "done", "crashed"}
Holds(r) == row.id = r \/ r \in expired

(* A request judges rows by what had expired when it started. *)
SeenIsPast == \A r \in Requests : seen[r] \subseteq expired

(* Only a request that got as far as its execution has a row, or had one; a *)
(* request that executes under the key has it until its 24 hours are over,  *)
(* and so has one that was answered under it.                               *)
HolderKeepsKey ==
    \A r \in Requests :
        /\ Holds(r) => pc[r] \in Started
        /\ pc[r] \in {"execute", "complete", "release"} => Holds(r)
        /\ answer[r].kind = "own" => Holds(r)

(* A request is answered once; before a run is created, none is counted. *)
AnswerEnds ==
    \A r \in Requests : answer[r].kind # "none" => pc[r] = "done"

(* A stored response has been given to the request that it belongs to. *)
StoredIsTrue ==
    row.status = "COMPLETED" =>
        row.id \in Requests /\ answer[row.id].kind = "own"

IInv == /\ TypeOK /\ SeenIsPast /\ HolderKeepsKey /\ AnswerEnds
        /\ StoredIsTrue /\ ReplaysAreTrue

(* What the type of the row says. *)
LEMMA RowFacts ==
    ASSUME TypeOK
    PROVE  /\ row = NoRow <=> row.id = NoRequest
           /\ row # NoRow => row.id \in Requests
           /\ row.status \in {"PROCESSING", "COMPLETED", "NONE"}
           /\ NoRow.id = NoRequest /\ NoRow.status = "NONE"
BY NoRequestAssumption DEF TypeOK, NoRow

(* There is no row, and nobody has started. *)
LEMMA InitHolds == Init => IInv
BY NoRequestAssumption
   DEF Init, IInv, TypeOK, SeenIsPast, HolderKeepsKey, AnswerEnds,
       StoredIsTrue, ReplaysAreTrue, NoRow, Kinds, Control, Holds

(* A look at the row: the request is answered from it, or goes on. *)
LEMMA LookupKeeps ==
    ASSUME IInv, NEW r \in Requests, NEW at \in {"find", "refetch"},
           NEW otherwise \in {"delete", "unprotected"},
           Lookup(r, at, otherwise)
    PROVE  IInv'
<1> USE DEF IInv
<1>1. /\ pc[r] = at /\ UNCHANGED <<row, expired, seen, runs>>
      /\ at \notin Started
  BY DEF Lookup, Started
<1>2. row.id # r
  BY <1>1 DEF HolderKeepsKey, Holds
<1>3. CASE Live(r) /\ Reply(r, Verdict(r), row.id)
  <2>1. row.id \in Requests
    BY <1>3, RowFacts DEF Live
  <2>2. /\ Verdict(r) \in {"mismatch", "conflict", "replay"}
        /\ Verdict(r) = "replay" =>
               Body[row.id] = Body[r] /\ answer[row.id].kind = "own"
    BY <1>3, <2>1, RowFacts DEF Verdict, StoredIsTrue, Live, TypeOK
  <2>3. /\ pc' = [pc EXCEPT ![r] = "done"]
        /\ answer' = [answer EXCEPT ![r] =
                          [kind |-> Verdict(r), of |-> row.id]]
    BY <1>3 DEF Reply, Goto
  <2>4. TypeOK'
    BY <1>1, <2>1, <2>2, <2>3 DEF TypeOK, Kinds, Control
  <2>5. HolderKeepsKey' /\ AnswerEnds' /\ SeenIsPast'
    BY <1>1, <2>2, <2>3 DEF HolderKeepsKey, AnswerEnds, SeenIsPast, Holds,
       Started, TypeOK
  <2>6. answer[r].kind = "none"
    BY <1>1, <2>2 DEF AnswerEnds
  <2>7. StoredIsTrue'
    BY <1>1, <1>2, <2>3, <2>6 DEF StoredIsTrue, TypeOK
  <2>8. ReplaysAreTrue'
    <3>1. SUFFICES ASSUME NEW q \in Requests, answer'[q].kind = "replay"
                   PROVE  /\ answer'[q].of # q
                          /\ Body[answer'[q].of] = Body[q]
                          /\ answer'[answer'[q].of].kind = "own"
      BY DEF ReplaysAreTrue
    <3>2. CASE q = r
      BY <1>2, <2>1, <2>2, <2>3, <3>1, <3>2 DEF TypeOK
    <3>3. CASE q # r
      BY <2>3, <2>6, <3>1, <3>3 DEF TypeOK, ReplaysAreTrue
    <3> QED BY <3>2, <3>3
  <2> QED BY <2>4, <2>5, <2>7, <2>8
<1>4. CASE Goto(r, otherwise) /\ UNCHANGED answer
  BY <1>1, <1>4 DEF Goto, TypeOK, SeenIsPast, HolderKeepsKey, AnswerEnds,
     StoredIsTrue, ReplaysAreTrue, Holds, Started, Control
<1> QED BY <1>3, <1>4 DEF Lookup

(* What a reply that is no replay leaves as it is. *)
LEMMA ReplyKeeps ==
    ASSUME IInv, NEW r \in Requests, pc[r] \notin {"done", "crashed"},
           NEW kind \in Kinds \ {"none", "replay"}, Reply(r, kind, r)
    PROVE  /\ AnswerEnds' /\ ReplaysAreTrue'
           /\ pc' \in [Requests -> Control] /\ pc'[r] = "done"
           /\ answer' \in [Requests -> [kind : Kinds, of : Requests]]
           /\ answer'[r].kind = kind
           /\ \A q \in Requests : q # r => pc'[q] = pc[q] /\ answer'[q] = answer[q]
<1>1. /\ pc' = [pc EXCEPT ![r] = "done"]
      /\ answer' = [answer EXCEPT ![r] = [kind |-> kind, of |-> r]]
      /\ answer[r].kind = "none"
  BY DEF Reply, Goto, IInv, AnswerEnds
<1>2. ReplaysAreTrue'
  <2>1. SUFFICES ASSUME NEW q \in Requests, answer'[q].kind = "replay"
                 PROVE  /\ answer'[q].of # q
                        /\ Body[answer'[q].of] = Body[q]
                        /\ answer'[answer'[q].of].kind = "own"
    BY DEF ReplaysAreTrue
  <2>2. q # r /\ answer'[q] = answer[q]
    BY <1>1, <2>1 DEF IInv, TypeOK
  <2> QED BY <1>1, <2>1, <2>2 DEF IInv, TypeOK, ReplaysAreTrue
<1> QED BY <1>1, <1>2 DEF IInv, TypeOK, AnswerEnds, Control

(* Steps that move one request and leave the row and the answers. *)
LEMMA MoveKeeps ==
    ASSUME IInv, NEW r \in Requests, NEW to \in Control \ {"done"},
           pc[r] # "done",
           pc[r] \in Started => to \in Started,
           to \in {"execute", "complete", "release"} => Holds(r),
           Goto(r, to), UNCHANGED <<row, expired, answer>>,
           runs' \subseteq Requests, seen' \in [Requests -> SUBSET expired]
    PROVE  IInv'
<1>1. /\ pc' = [pc EXCEPT ![r] = to]
      /\ UNCHANGED <<row, expired, answer>>
  BY DEF Goto
<1>2. TypeOK'
  BY <1>1 DEF IInv, TypeOK
<1>3. SeenIsPast'
  BY <1>1 DEF SeenIsPast
<1>4. HolderKeepsKey'
  BY <1>1 DEF IInv, TypeOK, HolderKeepsKey, Holds, Started
<1>5. AnswerEnds'
  BY <1>1 DEF IInv, TypeOK, AnswerEnds
<1>6. StoredIsTrue' /\ ReplaysAreTrue'
  BY <1>1 DEF IInv, StoredIsTrue, ReplaysAreTrue
<1> QED BY <1>2, <1>3, <1>4, <1>5, <1>6 DEF IInv

(* Steps that take away a row that has expired. *)
LEMMA DeleteKeeps ==
    ASSUME IInv, row.id \in expired, row' = NoRow,
           UNCHANGED <<expired, pc, seen, answer, runs>>
    PROVE  IInv'
<1>1. NoRow.id = NoRequest /\ NoRow.status = "NONE"
  BY RowFacts DEF IInv
<1> QED
  BY <1>1, NoRequestAssumption
     DEF IInv, TypeOK, SeenIsPast, HolderKeepsKey, AnswerEnds,
         StoredIsTrue, ReplaysAreTrue, Holds

(* The invariant is inductive. *)
LEMMA NextKeeps == IInv /\ [Next]_vars => IInv'
<1> SUFFICES ASSUME IInv, [Next]_vars
             PROVE  IInv'
  OBVIOUS
<1> USE DEF IInv
<1>f. NoRow.id = NoRequest /\ NoRow.status = "NONE" /\ NoRequest \notin Requests
  BY RowFacts, NoRequestAssumption
<1>s. seen \in [Requests -> SUBSET expired]
  BY DEF TypeOK, SeenIsPast
<1>1. ASSUME NEW r \in Requests, Begin(r) PROVE IInv'
  BY <1>1, <1>s, MoveKeeps DEF Begin, TypeOK, Control, Started
<1>2. ASSUME NEW r \in Requests, Find(r) PROVE IInv'
  BY <1>2, LookupKeeps DEF Find
<1>3. ASSUME NEW r \in Requests, Refetch(r) PROVE IInv'
  BY <1>3, LookupKeeps DEF Refetch
<1>4. ASSUME NEW r \in Requests, DeleteExpired(r) PROVE IInv'
  <2>1. /\ pc' = [pc EXCEPT ![r] = "create"] /\ pc[r] = "delete"
        /\ UNCHANGED <<expired, seen, answer, runs>>
        /\ row' = row \/ (row' = NoRow /\ row.id \in expired)
    BY <1>4 DEF DeleteExpired, Goto, SeenIsPast
  <2>2. row.id # r /\ r \notin expired
    BY <2>1 DEF HolderKeepsKey, Holds, Started
  <2> QED
    BY <1>f, <2>1, <2>2 DEF TypeOK, SeenIsPast, HolderKeepsKey, AnswerEnds,
       StoredIsTrue, ReplaysAreTrue, Holds, Started, Control
<1>5. ASSUME NEW r \in Requests, Create(r) PROVE IInv'
  <2>1. CASE row # NoRow /\ Goto(r, "refetch") /\ UNCHANGED row
    BY <1>5, <1>s, <2>1, MoveKeeps DEF Create, TypeOK, Control, Started
  <2>2. CASE /\ row = NoRow /\ Goto(r, "execute")
             /\ row' = [id |-> r, status |-> "PROCESSING"]
    <3>1. /\ pc' = [pc EXCEPT ![r] = "execute"] /\ pc[r] = "create"
          /\ row'.id = r /\ row'.status = "PROCESSING"
          /\ UNCHANGED <<expired, seen, answer, runs>>
      BY <1>5, <2>2 DEF Create, Goto
    <3>2. TypeOK' /\ SeenIsPast' /\ AnswerEnds' /\ StoredIsTrue' /\ ReplaysAreTrue'
      BY <2>2, <3>1 DEF TypeOK, SeenIsPast, AnswerEnds, StoredIsTrue,
         ReplaysAreTrue, Control
    <3>3. HolderKeepsKey'
      BY <1>f, <2>2, <3>1 DEF TypeOK, HolderKeepsKey, Holds, Started
    <3> QED BY <3>2, <3>3
  <2> QED BY <1>5, <2>1, <2>2 DEF Create
<1>6. ASSUME NEW r \in Requests, Execute(r) PROVE IInv'
  <2>1. /\ pc[r] = "execute"
        /\ Goto(r, "complete") \/ Goto(r, "release")
        /\ UNCHANGED <<row, expired, seen, answer>> /\ runs' \subseteq Requests
    BY <1>6 DEF Execute, Goto, TypeOK
  <2>2. Holds(r)
    BY <1>6 DEF Execute, HolderKeepsKey
  <2> QED BY <1>6, <1>s, <2>1, <2>2, MoveKeeps DEF Execute, Goto, TypeOK, Control, Started
<1>7. ASSUME NEW r \in Requests, ExecuteUnprotected(r) PROVE IInv'
  <2>1. PICK kind \in {"bare", "error"} : Reply(r, kind, r)
    BY <1>7 DEF ExecuteUnprotected
  <2>2. /\ pc[r] = "unprotected" /\ UNCHANGED <<row, expired, seen>>
        /\ runs' \subseteq Requests /\ kind \in Kinds \ {"none", "replay"}
    BY <1>7 DEF ExecuteUnprotected, TypeOK, Kinds
  <2>3. row.id # r /\ r \notin expired
    BY <2>2 DEF HolderKeepsKey, Holds, Started
  <2>4. /\ AnswerEnds' /\ ReplaysAreTrue'
        /\ pc' \in [Requests -> Control] /\ pc'[r] = "done"
        /\ answer' \in [Requests -> [kind : Kinds, of : Requests]]
        /\ answer'[r].kind = kind
        /\ \A q \in Requests : q # r => pc'[q] = pc[q] /\ answer'[q] = answer[q]
    BY <2>1, <2>2, ReplyKeeps
  <2>5. TypeOK' /\ SeenIsPast'
    BY <2>2, <2>4 DEF TypeOK, SeenIsPast
  <2>6. HolderKeepsKey' /\ StoredIsTrue'
    BY <2>2, <2>3, <2>4 DEF HolderKeepsKey, StoredIsTrue, Holds, Started
  <2> QED BY <2>4, <2>5, <2>6
<1>8. ASSUME NEW r \in Requests, Complete(r) PROVE IInv'
  <2>1. /\ pc[r] = "complete" /\ UNCHANGED <<expired, seen, runs>> /\ Holds(r)
        /\ {"own", "error"} \subseteq Kinds \ {"none", "replay"}
    BY <1>8 DEF Complete, HolderKeepsKey, Kinds
  <2>2. PICK kind \in {"own", "error"} :
            /\ Reply(r, kind, r)
            /\ \/ /\ kind = "own"
                  /\ row' = [id |-> r, status |-> "COMPLETED"]
                  /\ row.id \in {r, NoRequest}
               \/ kind = "error" /\ UNCHANGED row
    BY <1>8 DEF Complete
  <2>3. /\ AnswerEnds' /\ ReplaysAreTrue'
        /\ pc' \in [Requests -> Control] /\ pc'[r] = "done"
        /\ answer' \in [Requests -> [kind : Kinds, of : Requests]]
        /\ answer'[r].kind = kind
        /\ \A q \in Requests : q # r => pc'[q] = pc[q] /\ answer'[q] = answer[q]
    BY <2>1, <2>2, ReplyKeeps
  <2>4. TypeOK' /\ SeenIsPast'
    BY <2>1, <2>2, <2>3 DEF TypeOK, SeenIsPast
  <2>5. HolderKeepsKey'
    BY <1>f, <2>1, <2>2, <2>3 DEF HolderKeepsKey, Holds, Started
  <2>6. StoredIsTrue'
    <3>1. CASE kind = "own"
      BY <2>2, <2>3, <3>1 DEF StoredIsTrue
    <3>2. CASE kind = "error"
      <4>1. answer[r].kind # "own"
        BY <2>1 DEF AnswerEnds
      <4> QED BY <2>2, <2>3, <3>2, <4>1 DEF StoredIsTrue
    <3> QED BY <3>1, <3>2
  <2> QED BY <2>3, <2>4, <2>5, <2>6
<1>9. ASSUME NEW r \in Requests, Release(r) PROVE IInv'
  <2>1. /\ pc[r] = "release" /\ UNCHANGED <<expired, seen, runs>>
        /\ Reply(r, "error", r) /\ "error" \in Kinds \ {"none", "replay"}
        /\ row' = row \/ (row' = NoRow /\ row.id = r)
    BY <1>9 DEF Release, Kinds
  <2>2. /\ AnswerEnds' /\ ReplaysAreTrue'
        /\ pc' \in [Requests -> Control] /\ pc'[r] = "done"
        /\ answer' \in [Requests -> [kind : Kinds, of : Requests]]
        /\ answer'[r].kind = "error"
        /\ \A q \in Requests : q # r => pc'[q] = pc[q] /\ answer'[q] = answer[q]
    BY <2>1, ReplyKeeps
  <2>3. TypeOK' /\ SeenIsPast'
    BY <2>1, <2>2 DEF TypeOK, SeenIsPast
  <2>4. HolderKeepsKey'
    BY <1>f, <2>1, <2>2 DEF HolderKeepsKey, Holds, Started
  <2>5. StoredIsTrue'
    <3>1. answer[r].kind # "own"
      BY <2>1 DEF AnswerEnds
    <3> QED BY <1>f, <2>1, <2>2, <3>1 DEF StoredIsTrue
  <2> QED BY <2>2, <2>3, <2>4, <2>5
<1>10. ASSUME NEW r \in Requests, Crash(r) PROVE IInv'
  BY <1>10, <1>s, MoveKeeps DEF Crash, TypeOK, Control, Started
<1>11. CASE Expire
  BY <1>11, RowFacts DEF Expire, TypeOK, SeenIsPast, HolderKeepsKey,
     AnswerEnds, StoredIsTrue, ReplaysAreTrue, Holds
<1>12. CASE CleanUp
  BY <1>12, DeleteKeeps DEF CleanUp
<1>13. CASE UNCHANGED vars
  BY <1>13 DEF vars, TypeOK, SeenIsPast, HolderKeepsKey, AnswerEnds,
     StoredIsTrue, ReplaysAreTrue, Holds
<1> QED
  BY <1>1, <1>2, <1>3, <1>4, <1>5, <1>6, <1>7, <1>8, <1>9, <1>10, <1>11,
     <1>12, <1>13 DEF Next, Serve

-----------------------------------------------------------------------------
(* The inductive invariant holds throughout. *)
LEMMA Invariance == Spec => []IInv
BY InitHolds, NextKeeps, PTL DEF Spec

(* Types. *)
THEOREM TypeCorrect == Spec => []TypeOK
<1>1. IInv => TypeOK
  BY DEF IInv
<1> QED BY <1>1, Invariance, PTL

(* The key protects its caller from a second run for its 24 hours: the runs *)
(* that count belong to the request that holds the key.                     *)
THEOREM OneRun == Spec => []OneRunPerKey
<1>1. IInv => OneRunPerKey
  <2>1. SUFFICES ASSUME IInv, NEW r \in Requests, NEW q \in Requests,
                        Charged(r), Charged(q), r \notin expired, q \notin expired
                 PROVE  r = q
    BY DEF OneRunPerKey
  <2>2. Holds(r) /\ Holds(q)
    BY <2>1 DEF IInv, HolderKeepsKey, Charged, Holds
  <2> QED BY <2>1, <2>2 DEF Holds
<1> QED BY <1>1, Invariance, PTL

(* A replayed response is one that a request of the same body was given. *)
THEOREM TrueReplays == Spec => []ReplaysAreTrue
<1>1. IInv => ReplaysAreTrue
  BY DEF IInv
<1> QED BY <1>1, Invariance, PTL

-----------------------------------------------------------------------------
(* The refinement *)

Open == {row.id} \ (expired \cup {NoRequest})

(* Every step of the decorator and of the command is one of the promise, or *)
(* one that its callers do not see.                                         *)
LEMMA StepIsCall ==
    ASSUME IInv, [Next]_vars
    PROVE  [Calls!CallsNext]_(Calls!callVars)
<1> USE DEF IInv
<1> DEFINE Step == [Calls!CallsNext]_(Calls!callVars)
<1>f. /\ NoRow.id = NoRequest /\ NoRow.status = "NONE"
      /\ NoRequest \notin Requests
      /\ row = NoRow <=> row.id = NoRequest
      /\ row # NoRow => row.id \in Requests
  BY RowFacts, NoRequestAssumption
<1>q. ASSUME UNCHANGED <<expired, answer>>, Open' = Open PROVE Step
  BY <1>q DEF Calls!callVars, Open
<1>1. ASSUME NEW r \in Requests, NEW at \in {"find", "refetch"},
             NEW otherwise \in {"delete", "unprotected"},
             Lookup(r, at, otherwise)
      PROVE  Step
  <2>1. pc[r] = at /\ UNCHANGED <<row, expired>> /\ answer[r].kind = "none"
    BY <1>1 DEF Lookup, AnswerEnds
  <2>2. row.id # r
    BY <2>1 DEF HolderKeepsKey, Holds, Started
  <2>3. CASE Live(r) /\ Reply(r, Verdict(r), row.id)
    <3> DEFINE p == row.id
    <3>1. p \in Requests /\ p \in (Open \cup expired) \ {r}
      BY <1>f, <2>2, <2>3 DEF Live, Open
    <3>2. answer' = [answer EXCEPT ![r] = [kind |-> Verdict(r), of |-> p]]
      BY <2>3 DEF Reply
    <3>3. CASE Verdict(r) = "replay"
      <4>1. Body[p] = Body[r] /\ answer[p].kind = "own"
        BY <1>f, <2>3, <3>1, <3>3 DEF Verdict, StoredIsTrue, Live, TypeOK
      <4>2. Calls!Replay(r, p)
        BY <2>1, <3>2, <3>3, <4>1
           DEF Calls!Replay, Calls!Unanswered, Calls!Give
      <4> QED BY <3>1, <4>2 DEF Calls!CallsNext
    <3>4. CASE Verdict(r) # "replay"
      <4>1. \/ Body[p] = Body[r] /\ Verdict(r) = "conflict"
            \/ Body[p] # Body[r] /\ Verdict(r) = "mismatch"
        BY <3>4 DEF Verdict
      <4>2. Calls!Refuse(r)
        BY <2>1, <3>1, <3>2, <4>1
           DEF Calls!Refuse, Calls!Unanswered, Calls!Give, Open
      <4> QED BY <4>2 DEF Calls!CallsNext
    <3> QED BY <3>3, <3>4
  <2>4. CASE UNCHANGED answer
    BY <1>q, <2>1, <2>4 DEF Open
  <2> QED BY <1>1, <2>3, <2>4 DEF Lookup
<1>2. ASSUME NEW r \in Requests, Begin(r) \/ Execute(r) \/ Crash(r) PROVE Step
  BY <1>2, <1>q DEF Begin, Execute, Crash, Open
<1>3. ASSUME NEW r \in Requests, Find(r) \/ Refetch(r) PROVE Step
  BY <1>1, <1>3 DEF Find, Refetch
<1>4. ASSUME NEW r \in Requests, DeleteExpired(r) PROVE Step
  <2>1. UNCHANGED <<expired, answer>>
        /\ (row' = row \/ (row' = NoRow /\ row.id \in expired))
    BY <1>4 DEF DeleteExpired, SeenIsPast
  <2> QED BY <1>f, <1>q, <2>1 DEF Open
<1>5. ASSUME NEW r \in Requests, Create(r) PROVE Step
  <2>1. CASE UNCHANGED row
    BY <1>5, <1>q, <2>1 DEF Create, Open
  <2>2. CASE row = NoRow /\ row' = [id |-> r, status |-> "PROCESSING"]
    <3>1. r \notin expired
      BY <1>5 DEF Create, HolderKeepsKey, Holds, Started
    <3>2. Open = {} /\ Open' = {r} /\ UNCHANGED <<expired, answer>>
      BY <1>5, <1>f, <2>2, <3>1 DEF Create, Open
    <3>3. Calls!Claim(r)
      BY <3>1, <3>2 DEF Calls!Claim, Open
    <3> QED BY <3>3 DEF Calls!CallsNext
  <2> QED BY <1>5, <2>1, <2>2 DEF Create
<1>6. ASSUME NEW r \in Requests, ExecuteUnprotected(r) PROVE Step
  <2>1. UNCHANGED <<row, expired>> /\ answer[r].kind = "none"
    BY <1>6 DEF ExecuteUnprotected, AnswerEnds
  <2>2. PICK kind \in {"bare", "error"} :
            answer' = [answer EXCEPT ![r] = [kind |-> kind, of |-> r]]
    BY <1>6 DEF ExecuteUnprotected, Reply
  <2>3. CASE kind = "bare"
    BY <2>1, <2>2, <2>3 DEF Calls!CallsNext, Calls!Respond, Calls!Unanswered,
       Calls!Give, Open
  <2>4. CASE kind = "error"
    BY <2>1, <2>2, <2>4 DEF Calls!CallsNext, Calls!Fail, Calls!Unanswered,
       Calls!Give, Open
  <2> QED BY <2>2, <2>3, <2>4
<1>7. ASSUME NEW r \in Requests, Complete(r) PROVE Step
  <2>1. UNCHANGED expired /\ answer[r].kind = "none" /\ Holds(r)
    BY <1>7 DEF Complete, AnswerEnds, HolderKeepsKey
  <2>2. CASE /\ row.id \in {r, NoRequest} /\ Reply(r, "own", r)
             /\ row' = [id |-> r, status |-> "COMPLETED"]
    <3>1. Open' = Open /\ r \in Open \cup expired
      BY <1>f, <2>1, <2>2 DEF Holds, Open
    <3>2. Calls!Respond(r)
      BY <2>1, <2>2, <3>1 DEF Calls!Respond, Calls!Unanswered, Calls!Give, Reply,
         Open
    <3> QED BY <3>2 DEF Calls!CallsNext
  <2>3. CASE Reply(r, "error", r) /\ UNCHANGED row
    <3>1. Calls!Fail(r)
      BY <2>1, <2>3 DEF Calls!Fail, Calls!Unanswered, Calls!Give, Reply, Open
    <3> QED BY <3>1 DEF Calls!CallsNext
  <2> QED BY <1>7, <2>2, <2>3 DEF Complete
<1>8. ASSUME NEW r \in Requests, Release(r) PROVE Step
  <2>1. UNCHANGED expired /\ answer[r].kind = "none" /\ Reply(r, "error", r)
        /\ (row' = row \/ (row' = NoRow /\ row.id = r))
    BY <1>8 DEF Release, AnswerEnds
  <2>2. Open' \in {Open, Open \ {r}}
    BY <1>f, <2>1 DEF Open
  <2>3. Calls!Fail(r)
    BY <2>1, <2>2 DEF Calls!Fail, Calls!Unanswered, Calls!Give, Reply, Open
  <2> QED BY <2>3 DEF Calls!CallsNext
<1>9. CASE Expire
  <2> DEFINE r == row.id
  <2>1. r \in Requests /\ UNCHANGED <<row, answer>> /\ expired' = expired \cup {r}
    BY <1>9, <1>f DEF Expire
  <2>2. CASE r \in expired
    BY <1>q, <2>1, <2>2 DEF Open
  <2>3. CASE r \notin expired
    <3>1. r \in Open /\ Open' = Open \ {r}
      BY <1>f, <2>1, <2>3 DEF Open
    <3>2. Calls!RunOut(r)
      BY <2>1, <3>1 DEF Calls!RunOut, Open
    <3> QED BY <2>1, <3>2 DEF Calls!CallsNext
  <2> QED BY <2>2, <2>3
<1>10. CASE CleanUp
  BY <1>10, <1>f, <1>q DEF CleanUp, Open
<1>11. CASE UNCHANGED vars
  BY <1>11, <1>q DEF vars, Open
<1> QED
  BY <1>2, <1>3, <1>4, <1>5, <1>6, <1>7, <1>8, <1>9, <1>10, <1>11
     DEF Next, Serve

(* The decorator, with any number of concurrent, repeated, failing and      *)
(* dying requests and the command beside them, keeps the promise.           *)
THEOREM Implements == Spec => ImplementsCalls
<1>1. Init => Calls!CallsInit
  BY DEF Init, NoRow, Calls!CallsInit
<1>2. IInv /\ [Next]_vars => [Calls!CallsNext]_(Calls!callVars)
  BY StepIsCall
<1> QED
  BY <1>1, <1>2, Invariance, PTL DEF Spec, ImplementsCalls, Calls!CallsSpec
=============================================================================
