------------------------- MODULE ValidationRunProofs -------------------------
(***************************************************************************)
(* Safety of ValidationRun for every workflow, every number of workers and *)
(* every combination of outside events.                                    *)
(***************************************************************************)
EXTENDS RunProperties, ExecutionAttemptsProofs

(* Where a worker has allocated, or found, an attempt of its own *)
Owning == {"prepare", "claim", "call", "accepted", "unknown", "record", "fail",
           "close"}

(* Where a worker is determines what it holds: a step of the workflow, the  *)
(* number of an attempt row it may own, the row it claims and calls for.    *)
WorkerInv ==
    \A w \in Workers :
        /\ worker[w].pc \in {"start", "execute"} \cup Owning \cup {"finalize"}
               => worker[w].at \in Steps
        /\ worker[w].pc \in Owning => worker[w].own \in 1 .. MaxAttempts
        /\ worker[w].pc \in {"claim", "call", "accepted", "unknown"}
               => worker[w].target \in Attempts

WatchdogInv == watchdog.pc \in {"recover", "fail"} => watchdog.of \in Attempts

TypeInv == TypeOK /\ WorkerInv /\ WatchdogInv

(* Everybody who is about to publish a decision has seen it taken. *)
DecisionInv ==
    /\ run \in RunActive => ~released
    /\ \A w \in Workers : worker[w].pc \in {"issue", "emit"} => run \in RunTerminal
    /\ canceller = "follow" => run \in RunTerminal
    /\ watchdog.pc \in {"fail", "follow"} => run \in RunTerminal

(* A row is called for by the one worker that claimed it: nothing was       *)
(* launched for an unclaimed row, nor yet for the row of a worker that is   *)
(* about to call, and no two such workers share a row.                      *)
LaunchInv ==
    /\ \A a \in Attempts : attempt[a] \in {"ABSENT", "PENDING"} => launches[a] = 0
    /\ \A w \in Workers : worker[w].pc = "call" =>
           /\ launches[worker[w].target] = 0
           /\ attempt[worker[w].target] \notin {"ABSENT", "PENDING"}
    /\ \A v, w \in Workers :
           worker[v].pc = "call" /\ worker[w].pc = "call"
               /\ worker[v].target = worker[w].target => v = w
    /\ LaunchOnce

-----------------------------------------------------------------------------
(* Types *)

LEMMA StepFacts == Steps \subseteq Nat /\ NumSteps \in Nat
BY StepsAssumption

LEMMA OwnIsAttempt ==
    ASSUME WorkerInv, NEW w \in Workers,
           worker[w].pc \in Owning
    PROVE  Own(w) \in Attempts
BY DEF WorkerInv, Own, Attempts, Owning

(* The worker's part of the invariant after worker w moved to state r. *)
LEMMA WorkerMoves ==
    ASSUME TypeInv, NEW w \in Workers, NEW r \in WorkerStates,
           worker' = [worker EXCEPT ![w] = r],
           r.pc \in {"start", "execute"} \cup Owning \cup {"finalize"}
               => r.at \in Steps,
           r.pc \in Owning => r.own \in 1 .. MaxAttempts,
           r.pc \in {"claim", "call", "accepted", "unknown"} => r.target \in Attempts
    PROVE  WorkerInv' /\ worker' \in [Workers -> WorkerStates]
BY DEF TypeInv, TypeOK, WorkerInv

(* The moves of the step loop, in terms of WorkerMoves. *)
LEMMA GotoMoves ==
    ASSUME TypeInv, NEW w \in Workers, NEW pc, Goto(w, pc),
           pc \in {"save", "raised", "canceled", "issue", "emit", "mark"}
             \/ (pc \in {"start", "execute"} /\ worker[w].at \in Steps)
             \/ (pc \in {"accepted", "unknown"} /\ worker[w].pc = "call")
             \/ (pc \in {"fail", "close"} /\ worker[w].pc \in Owning)
             \/ (pc = "finalize" /\ worker[w].pc \in {"fail", "close"})
    PROVE  WorkerInv' /\ worker' \in [Workers -> WorkerStates]
<1> DEFINE r == [worker[w] EXCEPT !.pc = pc]
<1>1. worker[w] \in WorkerStates
  BY DEF TypeInv, TypeOK
<1>2. r \in WorkerStates
  BY <1>1 DEF WorkerStates
<1>3. r.pc = pc /\ r.at = worker[w].at /\ r.own = worker[w].own
         /\ r.target = worker[w].target
  BY <1>1 DEF WorkerStates
<1>4. worker' = [worker EXCEPT ![w] = r]
  BY DEF Goto
<1> HIDE DEF r
<1> QED BY <1>2, <1>3, <1>4, WorkerMoves DEF TypeInv, WorkerInv, Owning

LEMMA IdleIsState == IdleWorker \in WorkerStates /\ IdleWorker.pc = "idle"
BY StepFacts, MaxAttemptsAssumption DEF WorkerStates, IdleWorker, Tasks

LEMMA LoopMoves ==
    ASSUME TypeInv, NEW w \in Workers, NEW s \in 1 .. (NumSteps + 1),
           NEW verdict \in {"none", "failed", "pending"}, Loop(w, s, verdict)
    PROVE  WorkerInv' /\ worker' \in [Workers -> WorkerStates]
<1> DEFINE r1 == [IdleWorker EXCEPT !.pc = "loop"]
           r2 == [r1 EXCEPT !.task = worker[w].task]
           r3 == [r2 EXCEPT !.at = s]
           r  == [r3 EXCEPT !.result = verdict]
<1>1. worker[w].task \in Tasks
  BY DEF TypeInv, TypeOK, WorkerStates
<1>2. r1 \in WorkerStates /\ r1.pc = "loop"
  BY IdleIsState DEF WorkerStates
<1> HIDE DEF r1
<1>3. r2 \in WorkerStates /\ r2.pc = "loop"
  BY <1>1, <1>2 DEF WorkerStates
<1> HIDE DEF r2
<1>4. r3 \in WorkerStates /\ r3.pc = "loop"
  BY <1>3 DEF WorkerStates
<1> HIDE DEF r3
<1>5. r \in WorkerStates /\ r.pc = "loop"
  BY <1>4 DEF WorkerStates
<1>6. worker' = [worker EXCEPT ![w] = r]
  BY DEF Loop, r, r1, r2, r3
<1> HIDE DEF r
<1> QED BY <1>5, <1>6, WorkerMoves DEF Owning

LEMMA LeaveMoves ==
    ASSUME TypeInv, NEW w \in Workers,
           NEW pc \in {"raised", "canceled", "issue", "emit"}, Leave(w, pc)
    PROVE  WorkerInv' /\ worker' \in [Workers -> WorkerStates]
<1> DEFINE r1 == [IdleWorker EXCEPT !.pc = pc]
           r2 == [r1 EXCEPT !.task = worker[w].task]
           r  == [r2 EXCEPT !.target = worker[w].target]
<1>1. worker[w].task \in Tasks /\ worker[w].target \in Attempts \cup {NoAttempt}
  BY DEF TypeInv, TypeOK, WorkerStates
<1>2. r1 \in WorkerStates /\ r1.pc = pc
  BY IdleIsState DEF WorkerStates
<1> HIDE DEF r1
<1>3. r2 \in WorkerStates /\ r2.pc = pc
  BY <1>1, <1>2 DEF WorkerStates
<1> HIDE DEF r2
<1>4. r \in WorkerStates /\ r.pc = pc
  BY <1>1, <1>3 DEF WorkerStates
<1>5. worker' = [worker EXCEPT ![w] = r]
  BY DEF Leave, r, r1, r2
<1> HIDE DEF r
<1> QED BY <1>4, <1>5, WorkerMoves DEF Owning

LEMMA IdleMoves ==
    ASSUME TypeInv, NEW w \in Workers, worker' = [worker EXCEPT ![w] = IdleWorker]
    PROVE  WorkerInv' /\ worker' \in [Workers -> WorkerStates]
BY IdleIsState, WorkerMoves DEF Owning

-----------------------------------------------------------------------------
(* Every step of the engine uses the ledger's operations *)

LEMMA CurrentIsUnique ==
    ASSUME NEW s \in Steps, NEW r \in Steps, Current(s), Current(r)
    PROVE  s = r
BY StepFacts DEF Current

(* Fencing moves one row: the current step is unique and has one active row. *)
LEMMA FenceRefines ==
    ASSUME TypeInv, LedgerInv, NEW target \in States, Fence(target),
           UNCHANGED <<credential, identity>>
    PROVE  [AttemptsNext]_attemptVars
<1>1. attempt' = [a \in Attempts |-> IF a \in Fenced THEN target ELSE attempt[a]]
  BY DEF Fence
<1>2. attempt \in [Attempts -> States \cup {"ABSENT"}]
  BY DEF LedgerInv, AttemptsTypeOK
<1>3. CASE Fenced = {}
  <2>1. attempt' = attempt
    BY <1>1, <1>2, <1>3
  <2> QED BY <2>1 DEF attemptVars
<1>4. ASSUME NEW a \in Fenced PROVE AttemptsNext
  <2>1. a \in Attempts /\ MayTransition(a, target)
    BY DEF Fenced, Fence
  <2>2. \A b \in Fenced : b = a
    <3>1. SUFFICES ASSUME NEW b \in Fenced PROVE b = a
      OBVIOUS
    <3>2. a \in Attempts /\ b \in Attempts /\ IsActive(a) /\ IsActive(b)
            /\ Current(StepOf(a)) /\ Current(StepOf(b))
      BY DEF Fenced
    <3>3. StepOf(a) = StepOf(b)
      BY <3>2, CurrentIsUnique, AttemptParts
    <3> QED BY <3>2, <3>3 DEF LedgerInv, OneActive
  <2>3. attempt' = [attempt EXCEPT ![a] = target]
    BY <1>1, <1>2, <2>1, <2>2
  <2>4. TransitionAttempt(a, target)
    BY <2>1, <2>3 DEF TransitionAttempt, Moved
  <2> QED BY <2>1, <2>4 DEF AttemptsNext
<1> QED BY <1>3, <1>4

(* One row moved along a legal edge. *)
LEMMA MoveRefines ==
    ASSUME NEW a \in Attempts, NEW target \in States, MayTransition(a, target),
           attempt' = Moved(a, target), UNCHANGED <<credential, identity>>
    PROVE  AttemptsNext
BY DEF AttemptsNext, TransitionAttempt

LEMMA LauncherRaisesRefines ==
    ASSUME NEW w, NEW t, LauncherRaises(w, t), UNCHANGED <<credential, identity>>
    PROVE  [AttemptsNext]_attemptVars
BY DEF LauncherRaises, FailStep, Pend, attemptVars

(* What the engine may do to the ledger's rows, step by step. *)
LEMMA EngineStep ==
    ASSUME TypeInv, LedgerInv, [Next]_vars
    PROVE  [AttemptsNext]_attemptVars
<1>1. CASE UNCHANGED vars
  BY <1>1 DEF vars, attemptVars
<1>2. ASSUME LaunchStep \/ SelectStuckRun \/ RecoverCallback
               \/ RecoverReturns \/ ReconcileFailed
      PROVE  UNCHANGED attemptVars
  BY <1>2 DEF LaunchStep, EnqueueRun, EnqueueRaises, FailLaunch, SelectStuckRun,
              RecoverCallback, RecoverReturns, ReconcileFailed
<1>3. ASSUME NEW w \in Workers,
             \/ BeginInitial(w) \/ CheckCancelled(w) \/ StartStep(w)
             \/ RunLocalStep(w) \/ RaiseInStep(w) \/ CallProvider(w)
             \/ RecordPending(w) \/ SaveOutcome(w) \/ IssueSignedCredential(w)
             \/ EmitFinalized(w) \/ CrashWorker(w) \/ TaskRaises(w)
             \/ MarkRunFailed(w) \/ ValidatorRaises(w) \/ InspectAttempt(w)
             \/ FinalizeFailedStep(w)
             \/ \E t \in Tasks : BeginResume(w, t)
      PROVE  UNCHANGED attemptVars
  BY <1>3 DEF ValidatorRaises, FailStep, InspectAttempt, FinalizeFailedStep,
              attemptVars, BeginInitial, CheckCancelled, StartStep, RunLocalStep, RaiseInStep,
              CallProvider, RecordPending, SaveOutcome, IssueSignedCredential,
              EmitFinalized, CrashWorker, BeginResume, TaskRaises, MarkRunFailed
<1>4. ASSUME NEW t \in Tasks, SkipDelivery(t) PROVE UNCHANGED attemptVars
  BY <1>4 DEF SkipDelivery
<1>5. ASSUME NEW a \in Attempts,
             \/ ProviderEnds(a) \/ ReceiveCallback(a) \/ EnqueueNextStep(a)
             \/ PostponeCallback(a) \/ AbortCallback(a)
      PROVE  UNCHANGED attemptVars
  BY <1>5 DEF ProviderEnds, ReceiveCallback, EnqueueNextStep, PostponeCallback,
              AbortCallback
<1>6. ASSUME NEW w \in Workers, AllocateAttempt(w) PROVE [AttemptsNext]_attemptVars
  BY <1>6 DEF AllocateAttempt, AttemptsNext
<1>7. ASSUME NEW w \in Workers, PrepareLaunch(w) PROVE [AttemptsNext]_attemptVars
  <2>1. UNCHANGED identity
    BY <1>7 DEF PrepareLaunch
  <2>2. CASE FailStep(w) /\ UNCHANGED credential
    BY <2>1, <2>2 DEF FailStep, attemptVars
  <2>3. ASSUME NEW s \in Steps, LauncherRaises(w, s), UNCHANGED credential
        PROVE  [AttemptsNext]_attemptVars
    BY <2>1, <2>3, LauncherRaisesRefines
  <2>4. CASE Pend(w, TRUE) /\ UNCHANGED credential
    BY <2>1, <2>4 DEF Pend, attemptVars
  <2>5. ASSUME NEW a \in Attempts, IssueCredentials(a) PROVE AttemptsNext
    BY <2>5 DEF AttemptsNext
  <2> QED BY <1>7, <2>2, <2>3, <2>4, <2>5 DEF PrepareLaunch, ActiveAttempts
<1>8. ASSUME NEW w \in Workers, ClaimAttempt(w) PROVE [AttemptsNext]_attemptVars
  <2>1. UNCHANGED <<credential, identity>>
    BY <1>8 DEF ClaimAttempt
  <2>2. CASE LauncherRaises(w, StepOf(worker[w].target))
    BY <2>1, <2>2, LauncherRaisesRefines
  <2>3. CASE Pend(w, TRUE)
    BY <2>1, <2>3 DEF Pend, attemptVars
  <2>4. ASSUME NEW a \in Attempts, attempt[a] = "PENDING", attempt' = Moved(a, "DISPATCHING")
        PROVE  AttemptsNext
    <3>1. MayTransition(a, "DISPATCHING") /\ "DISPATCHING" \in States
      BY <2>4 DEF MayTransition, Exists, AllowedTransitions, States, ActiveStates, TerminalStates
    <3> QED BY <2>1, <2>4, <3>1, MoveRefines
  <2> QED BY <1>8, <2>2, <2>3, <2>4 DEF ClaimAttempt, ActiveAttempts
<1>9. ASSUME NEW w \in Workers, RecordDispatch(w) PROVE [AttemptsNext]_attemptVars
  <2> DEFINE a == worker[w].target
             target == DispatchState(w)
  <2>1. UNCHANGED credential /\ a \in Attempts /\ target \in States
    BY <1>9 DEF RecordDispatch, TypeInv, WorkerInv, DispatchState, States, ActiveStates
  <2>2. CASE /\ MayTransition(a, target) /\ attempt' = Moved(a, target)
             /\ identity' = IF target = "RUNNING" /\ attempt[a] # "RUNNING"
                            THEN [identity EXCEPT ![a] = TRUE] ELSE identity
    <3>1. TransitionAttempt(a, target)
      BY <2>1, <2>2 DEF TransitionAttempt
    <3> QED BY <2>1, <3>1 DEF AttemptsNext
  <2>3. CASE LauncherRaises(w, StepOf(a)) /\ UNCHANGED identity
    BY <2>1, <2>3, LauncherRaisesRefines
  <2> QED BY <1>9, <2>2, <2>3 DEF RecordDispatch
<1>10. ASSUME NEW a \in Attempts, NEW target \in {"COMPLETED", "FAILED"},
              CloseAttempt(a, target), UNCHANGED <<credential, identity>>
       PROVE  AttemptsNext
  BY <1>10, MoveRefines DEF CloseAttempt, States, TerminalStates
<1>11. ASSUME NEW a \in Attempts,
              \/ ResumeAfterCallback(a)
              \/ \E outcome \in StepTerminal : FinalizeAfterCallback(a, outcome)
              \/ RejectCallback(a)
       PROVE  AttemptsNext
  BY <1>10, <1>11 DEF ResumeAfterCallback, FinalizeAfterCallback, RejectCallback, Complete
<1>12. ASSUME CancelRun \/ FollowCancel PROVE [AttemptsNext]_attemptVars
  <2>1. Fence("CANCELED") /\ UNCHANGED <<credential, identity>>
    BY <1>12 DEF CancelRun, FollowCancel
  <2> QED BY <2>1, FenceRefines DEF States, TerminalStates
<1>13. ASSUME TimeOutRun \/ FollowTimeout PROVE [AttemptsNext]_attemptVars
  <2>1. UNCHANGED <<credential, identity>> /\ (Fence("TIMED_OUT") \/ UNCHANGED attempt)
    BY <1>13 DEF TimeOutRun, FollowTimeout
  <2> QED BY <2>1, FenceRefines DEF States, TerminalStates, attemptVars
<1>14. ASSUME ReconcileFailedAttempt PROVE [AttemptsNext]_attemptVars
  <2>1. watchdog.of \in Attempts /\ UNCHANGED <<credential, identity>>
    BY <1>14 DEF ReconcileFailedAttempt, TypeInv, WatchdogInv
  <2>2. CASE MayTransition(watchdog.of, "FAILED") /\ attempt' = Moved(watchdog.of, "FAILED")
    BY <2>1, <2>2, MoveRefines DEF States, TerminalStates
  <2>3. CASE UNCHANGED attempt
    BY <2>1, <2>3 DEF attemptVars
  <2> QED BY <1>14, <2>2, <2>3 DEF ReconcileFailedAttempt
<1>15. ASSUME NEW w \in Workers, CloseUnlaunched(w) PROVE AttemptsNext
  <2>1. Own(w) \in Attempts
    BY <1>15, OwnIsAttempt DEF CloseUnlaunched, TypeInv, Owning
  <2> QED BY <1>15, <2>1, MoveRefines DEF CloseUnlaunched, States, TerminalStates
<1> QED
  BY <1>1, <1>2, <1>3, <1>4, <1>5, <1>6, <1>7, <1>8, <1>9, <1>11, <1>12, <1>13,
     <1>14, <1>15
  DEF Next, WorkerStep, HandlerStep, WatchdogStep

-----------------------------------------------------------------------------
(* The types are preserved *)

(* Everything but the ledger and the workers, which have lemmas of their own *)
RestTypeOK ==
    /\ run \in RunActive \cup RunTerminal
    /\ released \in BOOLEAN
    /\ step \in [Steps -> StepStates]
    /\ jobName \in [Steps -> BOOLEAN]
    /\ queue \subseteq Tasks
    /\ launch \in {"enqueue", "failed", "done"}
    /\ launches \in [Attempts -> Nat]
    /\ ended \in [Attempts -> {"none", "output", "failed"}]
    /\ receipt \in [Attempts -> {"NONE", "PROCESSING", "COMPLETED", "REJECTED"}]
    /\ handler \in [Attempts -> {"idle", "processing", "resuming"}]
    /\ canceller \in {"idle", "follow", "done"}
    /\ watchdog \in [pc : {"idle", "decide", "recover", "fail", "follow"},
                     of : Attempts \cup {NoAttempt}]
    /\ WatchdogInv
    /\ crashes \in 0 .. MaxCrashes

LEMMA TypeParts ==
    TypeInv <=> /\ AttemptsTypeOK /\ RestTypeOK
                /\ WorkerInv /\ worker \in [Workers -> WorkerStates]
BY DEF TypeInv, TypeOK, RestTypeOK

(* The worker's moves keep its part of the invariant. *)
LEMMA WorkerStepKeepsWorkers ==
    ASSUME TypeInv, NEW w \in Workers, WorkerStep(w) \/ CrashWorker(w)
    PROVE  WorkerInv' /\ worker' \in [Workers -> WorkerStates]
<1> DEFINE Goal == WorkerInv' /\ worker' \in [Workers -> WorkerStates]
<1>a. worker[w] \in WorkerStates /\ worker \in [Workers -> WorkerStates]
  BY DEF TypeInv, TypeOK
<1>b. /\ worker[w].at \in 1 .. (NumSteps + 1)
      /\ worker[w].pc \in {"start", "execute", "prepare", "claim", "call",
                           "accepted", "unknown", "record", "fail", "close",
                           "finalize"} => worker[w].at \in Steps
      /\ worker[w].pc \in Owning => worker[w].own \in 1 .. MaxAttempts
  BY <1>a DEF WorkerStates, TypeInv, WorkerInv, Owning
<1>c. \A s \in Steps : s \in 1 .. (NumSteps + 1) /\ s + 1 \in 1 .. (NumSteps + 1)
  BY StepsAssumption
<1>d. ASSUME UNCHANGED worker PROVE Goal
  BY <1>d, <1>a DEF TypeInv, WorkerInv
<1>e. ASSUME Acknowledge(w) PROVE Goal
  BY <1>e, IdleMoves DEF Acknowledge
<1>f. ASSUME FailStep(w), worker[w].pc \in Owning PROVE Goal
  BY <1>f, GotoMoves DEF FailStep
<1>g. ASSUME NEW job \in BOOLEAN, Pend(w, job), worker[w].pc \in Owning PROVE Goal
  <2> DEFINE r1 == [worker[w] EXCEPT !.pc = "record"]
             r  == [r1 EXCEPT !.job = job]
  <2>1. r1 \in WorkerStates /\ r1.pc = "record" /\ r1.at = worker[w].at
          /\ r1.own = worker[w].own
    BY <1>a DEF WorkerStates
  <2> HIDE DEF r1
  <2>2. r \in WorkerStates /\ r.pc = "record" /\ r.at = worker[w].at
          /\ r.own = worker[w].own
    BY <2>1 DEF WorkerStates
  <2>3. worker' = [worker EXCEPT ![w] = r]
    BY <1>g, <1>a DEF Pend, r1
  <2>4. worker[w].at \in Steps /\ worker[w].own \in 1 .. MaxAttempts
    BY <1>b, <1>g DEF Owning
  <2> HIDE DEF r
  <2> QED BY <2>2, <2>3, <2>4, WorkerMoves
<1>h. ASSUME NEW s, LauncherRaises(w, s), worker[w].pc \in Owning PROVE Goal
  BY <1>f, <1>g, <1>h DEF LauncherRaises
<1>1. ASSUME BeginInitial(w) PROVE Goal
  <2> DEFINE r == [IdleWorker EXCEPT !.pc = "loop"]
  <2>1. r \in WorkerStates /\ r.pc = "loop"
    BY IdleIsState DEF WorkerStates
  <2>2. worker' = [worker EXCEPT ![w] = r]
    BY <1>1 DEF BeginInitial
  <2> HIDE DEF r
  <2> QED BY <2>1, <2>2, WorkerMoves DEF Owning
<1>2. ASSUME NEW t \in Tasks, BeginResume(w, t) PROVE Goal
  <2> DEFINE r1 == [IdleWorker EXCEPT !.pc = "loop"]
             r2 == [r1 EXCEPT !.task = t]
             r  == [r2 EXCEPT !.at = ResumeAt(t)]
  <2>1. ResumeAt(t) \in 1 .. (NumSteps + 1)
    BY StepFacts DEF Tasks, ResumeAt
  <2>2. r1 \in WorkerStates /\ r1.pc = "loop"
    BY IdleIsState DEF WorkerStates
  <2> HIDE DEF r1
  <2>3. r2 \in WorkerStates /\ r2.pc = "loop"
    BY <2>2 DEF WorkerStates
  <2> HIDE DEF r2
  <2>4. r \in WorkerStates /\ r.pc = "loop"
    BY <2>1, <2>3 DEF WorkerStates
  <2>5. worker' = [worker EXCEPT ![w] = r]
    BY <1>2 DEF BeginResume, r, r1, r2
  <2> HIDE DEF r
  <2> QED BY <2>4, <2>5, WorkerMoves DEF Owning
<1>3. ASSUME CheckCancelled(w) PROVE Goal
  <2>1. worker[w].at <= NumSteps => worker[w].at \in Steps
    BY <1>b, StepsAssumption
  <2>2. \/ Leave(w, "canceled") \/ Acknowledge(w) \/ Goto(w, "save")
        \/ Goto(w, "start") /\ worker[w].at \in Steps
    BY <1>3, <2>1 DEF CheckCancelled
  <2> QED BY <1>e, <2>2, GotoMoves, LeaveMoves
<1>4. ASSUME StartStep(w) PROVE Goal
  <2>1. worker[w].at \in Steps
    BY <1>4, <1>b DEF StartStep
  <2>2. \/ Goto(w, "execute") \/ Loop(w, worker[w].at + 1, "none")
        \/ Loop(w, worker[w].at, "failed")
    BY <1>4 DEF StartStep
  <2> QED BY <1>c, <2>1, <2>2, GotoMoves, LoopMoves
<1>5. ASSUME RunLocalStep(w) PROVE Goal
  <2>1. worker[w].at \in Steps
    BY <1>5, <1>b DEF RunLocalStep
  <2>2. Loop(w, worker[w].at + 1, "none") \/ Loop(w, worker[w].at, "failed")
    BY <1>5 DEF RunLocalStep
  <2> QED BY <1>c, <2>1, <2>2, LoopMoves
<1>6. ASSUME RaiseInStep(w) PROVE Goal
  BY <1>6, LeaveMoves DEF RaiseInStep
<1>7. ASSUME AllocateAttempt(w) PROVE Goal
  <2>1. worker[w].at \in Steps
    BY <1>7, <1>b DEF AllocateAttempt
  <2>2. \/ Loop(w, worker[w].at, "pending")
        \/ \E a \in Attempts : worker' = [worker EXCEPT ![w].pc = "prepare",
                                                        ![w].own = NumberOf(a)]
    BY <1>7 DEF AllocateAttempt, ActiveAttempts
  <2>3. ASSUME NEW a \in Attempts,
               worker' = [worker EXCEPT ![w].pc = "prepare", ![w].own = NumberOf(a)]
        PROVE  Goal
    <3> DEFINE r1 == [worker[w] EXCEPT !.pc = "prepare"]
               r  == [r1 EXCEPT !.own = NumberOf(a)]
    <3>1. NumberOf(a) \in 1 .. MaxAttempts /\ NumberOf(a) \in 0 .. MaxAttempts
      BY MaxAttemptsAssumption DEF Attempts, NumberOf
    <3>2. r1 \in WorkerStates /\ r1.pc = "prepare" /\ r1.at = worker[w].at
      BY <1>a DEF WorkerStates
    <3> HIDE DEF r1
    <3>3. r \in WorkerStates /\ r.pc = "prepare" /\ r.at = worker[w].at /\ r.own = NumberOf(a)
      BY <3>1, <3>2 DEF WorkerStates
    <3>4. worker' = [worker EXCEPT ![w] = r]
      BY <2>3, <1>a DEF r1
    <3> HIDE DEF r
    <3> QED BY <2>1, <3>1, <3>3, <3>4, WorkerMoves DEF Owning
  <2> QED BY <1>c, <2>1, <2>2, <2>3, LoopMoves
<1>i. ASSUME NEW a \in Attempts, NEW pc \in {"claim", "call"},
             worker[w].pc \in {"prepare", "claim"},
             worker' = [worker EXCEPT ![w].pc = pc, ![w].target = a]
      PROVE  Goal
  <2> DEFINE r1 == [worker[w] EXCEPT !.pc = pc]
             r  == [r1 EXCEPT !.target = a]
  <2>1. r1 \in WorkerStates /\ r1.pc = pc /\ r1.at = worker[w].at /\ r1.own = worker[w].own
    BY <1>a DEF WorkerStates
  <2> HIDE DEF r1
  <2>2. r \in WorkerStates /\ r.pc = pc /\ r.at = worker[w].at /\ r.own = worker[w].own
          /\ r.target = a
    BY <2>1 DEF WorkerStates
  <2>3. worker' = [worker EXCEPT ![w] = r]
    BY <1>i, <1>a DEF r1
  <2>4. worker[w].at \in Steps /\ worker[w].own \in 1 .. MaxAttempts
    BY <1>b, <1>i DEF Owning
  <2> HIDE DEF r
  <2> QED BY <2>2, <2>3, <2>4, WorkerMoves
<1>8. ASSUME PrepareLaunch(w) PROVE Goal
  <2>1. worker[w].pc = "prepare" /\ worker[w].pc \in Owning
    BY <1>8 DEF PrepareLaunch, Owning
  <2>2. \/ FailStep(w) \/ Pend(w, TRUE) \/ (\E s \in Steps : LauncherRaises(w, s))
        \/ \E a \in Attempts : worker' = [worker EXCEPT ![w].pc = "claim", ![w].target = a]
    BY <1>8 DEF PrepareLaunch, ActiveAttempts
  <2> QED BY <1>f, <1>g, <1>h, <1>i, <2>1, <2>2
<1>9. ASSUME ClaimAttempt(w) PROVE Goal
  <2>1. worker[w].pc = "claim" /\ worker[w].pc \in Owning
    BY <1>9 DEF ClaimAttempt, Owning
  <2>2. \/ LauncherRaises(w, StepOf(worker[w].target)) \/ Pend(w, TRUE)
        \/ \E a \in Attempts : worker' = [worker EXCEPT ![w].pc = "call", ![w].target = a]
    BY <1>9 DEF ClaimAttempt, ActiveAttempts
  <2> QED BY <1>g, <1>h, <1>i, <2>1, <2>2
<1>10. ASSUME CallProvider(w) PROVE Goal
  BY <1>10, GotoMoves DEF CallProvider
<1>11. ASSUME RecordDispatch(w) PROVE Goal
  <2>1. worker[w].pc \in Owning
    BY <1>11 DEF RecordDispatch, Owning
  <2>2. \/ \E job \in BOOLEAN :
              worker' = [worker EXCEPT ![w].pc = "record", ![w].job = job]
        \/ LauncherRaises(w, StepOf(worker[w].target))
    BY <1>11 DEF RecordDispatch
  <2>3. ASSUME NEW job \in BOOLEAN,
               worker' = [worker EXCEPT ![w].pc = "record", ![w].job = job]
        PROVE  Goal
    <3> DEFINE r1 == [worker[w] EXCEPT !.pc = "record"]
               r  == [r1 EXCEPT !.job = job]
    <3>1. r1 \in WorkerStates /\ r1.pc = "record" /\ r1.at = worker[w].at
            /\ r1.own = worker[w].own
      BY <1>a DEF WorkerStates
    <3> HIDE DEF r1
    <3>2. r \in WorkerStates /\ r.pc = "record" /\ r.at = worker[w].at
            /\ r.own = worker[w].own
      BY <3>1 DEF WorkerStates
    <3>3. worker' = [worker EXCEPT ![w] = r]
      BY <2>3, <1>a DEF r1
    <3>4. worker[w].at \in Steps /\ worker[w].own \in 1 .. MaxAttempts
      BY <1>b, <2>1 DEF Owning
    <3> HIDE DEF r
    <3> QED BY <3>2, <3>3, <3>4, WorkerMoves
  <2> QED BY <1>h, <2>1, <2>2, <2>3
<1>12. ASSUME RecordPending(w) PROVE Goal
  <2>1. Loop(w, worker[w].at, "pending") /\ worker[w].at \in Steps
    BY <1>12, <1>b DEF RecordPending
  <2> QED BY <1>c, <2>1, LoopMoves
<1>13. ASSUME SaveOutcome(w) PROVE Goal
  BY <1>13, LeaveMoves DEF SaveOutcome
<1>14. ASSUME IssueSignedCredential(w) PROVE Goal
  BY <1>14, GotoMoves DEF IssueSignedCredential
<1>15. ASSUME EmitFinalized(w) PROVE Goal
  BY <1>15, <1>e DEF EmitFinalized
<1>16. ASSUME CrashWorker(w) PROVE Goal
  BY <1>16, IdleMoves DEF CrashWorker
<1>17. ASSUME TaskRaises(w) PROVE Goal
  BY <1>17, <1>e, GotoMoves DEF TaskRaises
<1>18. ASSUME MarkRunFailed(w) PROVE Goal
  BY <1>18, <1>e DEF MarkRunFailed
<1>19. ASSUME ValidatorRaises(w) PROVE Goal
  BY <1>19, <1>f DEF ValidatorRaises, Owning
<1>20. ASSUME InspectAttempt(w) \/ CloseUnlaunched(w) PROVE Goal
  BY <1>20, GotoMoves DEF InspectAttempt, CloseUnlaunched, Owning
<1>21. ASSUME FinalizeFailedStep(w) PROVE Goal
  BY <1>21, <1>b, <1>c, LoopMoves DEF FinalizeFailedStep
<1> QED
  BY <1>1, <1>2, <1>3, <1>4, <1>5, <1>6, <1>7, <1>8, <1>9, <1>10, <1>11, <1>12,
     <1>13, <1>14, <1>15, <1>16, <1>17, <1>18, <1>19, <1>20, <1>21
  DEF WorkerStep

(* So do all other parts of the state. *)
LEMMA RestStep ==
    ASSUME TypeInv, [Next]_vars
    PROVE  RestTypeOK'
<1>a. RestTypeOK
  BY TypeParts
<1>b. 0 \in Tasks /\ \A s \in Steps : s \in Tasks
  BY StepsAssumption DEF Tasks
<1> USE <1>a, <1>b, MaxCrashesAssumption
    DEF RestTypeOK, WatchdogInv, RunActive, RunTerminal, StepStates, StepTerminal,
        runVars, stepVars, providerVars, callbackVars, stopVars
<1>c. CASE UNCHANGED vars
  BY <1>c DEF vars
<1>1. ASSUME NEW w \in Workers, BeginInitial(w) PROVE RestTypeOK'
  BY <1>1 DEF BeginInitial
<1>2. ASSUME NEW w \in Workers, CheckCancelled(w) PROVE RestTypeOK'
  BY <1>2 DEF CheckCancelled, Acknowledge
<1>3. ASSUME NEW w \in Workers, StartStep(w) PROVE RestTypeOK'
  BY <1>3 DEF StartStep
<1>4. ASSUME NEW w \in Workers, RunLocalStep(w) PROVE RestTypeOK'
  <2>1. \E outcome \in {"PASSED", "FAILED"} :
            step' = [step EXCEPT ![worker[w].at] = outcome]
    BY <1>4 DEF RunLocalStep, LocalOutcomes
  <2>2. step' \in [Steps -> StepStates]
    BY <2>1
  <2> QED BY <1>4, <2>2 DEF RunLocalStep
<1>5. ASSUME NEW w \in Workers, RaiseInStep(w) PROVE RestTypeOK'
  <2>1. /\ step' \in {step, [step EXCEPT ![worker[w].at] = "FAILED"]}
        /\ jobName' \in {jobName, [jobName EXCEPT ![worker[w].at] = FALSE]}
    BY <1>5 DEF RaiseInStep
  <2>2. step' \in [Steps -> StepStates]
    BY <2>1
  <2>3. jobName' \in [Steps -> BOOLEAN]
    BY <2>1
  <2>4. UNCHANGED <<runVars, queue, launch, providerVars, callbackVars,
                    stopVars, crashes>>
    BY <1>5 DEF RaiseInStep
  <2> QED BY <2>2, <2>3, <2>4
<1>6. ASSUME NEW w \in Workers, AllocateAttempt(w) PROVE RestTypeOK'
  BY <1>6 DEF AllocateAttempt
<1>7. ASSUME NEW w \in Workers, PrepareLaunch(w) PROVE RestTypeOK'
  BY <1>7 DEF PrepareLaunch, FailStep, LauncherRaises, Pend, Loop
<1>8. ASSUME NEW w \in Workers, ClaimAttempt(w) PROVE RestTypeOK'
  BY <1>8 DEF ClaimAttempt, LauncherRaises, FailStep, Pend, Loop
<1>9. ASSUME NEW w \in Workers, CallProvider(w) PROVE RestTypeOK'
  BY <1>9 DEF CallProvider
<1>10. ASSUME NEW w \in Workers, RecordDispatch(w) PROVE RestTypeOK'
  BY <1>10 DEF RecordDispatch, LauncherRaises, FailStep, Pend, Loop
<1>11. ASSUME NEW w \in Workers, RecordPending(w) PROVE RestTypeOK'
  <2>1. worker[w].job \in BOOLEAN
    BY TypeParts DEF WorkerStates
  <2>2. jobName' \in [Steps -> BOOLEAN]
    BY <1>11, <2>1 DEF RecordPending
  <2>3. step' \in [Steps -> StepStates]
    BY <1>11 DEF RecordPending
  <2> QED BY <1>11, <2>2, <2>3 DEF RecordPending
<1>12. ASSUME NEW w \in Workers, SaveOutcome(w) PROVE RestTypeOK'
  BY <1>12 DEF SaveOutcome
<1>13. ASSUME NEW w \in Workers, IssueSignedCredential(w) PROVE RestTypeOK'
  BY <1>13 DEF IssueSignedCredential
<1>14. ASSUME NEW w \in Workers, EmitFinalized(w) PROVE RestTypeOK'
  BY <1>14 DEF EmitFinalized, Acknowledge
<1>15. ASSUME NEW w \in Workers, CrashWorker(w) PROVE RestTypeOK'
  BY <1>15 DEF CrashWorker
<1>16. ASSUME NEW w \in Workers, NEW t \in Tasks, BeginResume(w, t) PROVE RestTypeOK'
  BY <1>16 DEF BeginResume
<1>17. ASSUME NEW t \in Tasks, SkipDelivery(t) PROVE RestTypeOK'
  BY <1>17 DEF SkipDelivery
<1>18. ASSUME NEW a \in Attempts, ProviderEnds(a) PROVE RestTypeOK'
  BY <1>18 DEF ProviderEnds
<1>19. ASSUME NEW a \in Attempts, ReceiveCallback(a) PROVE RestTypeOK'
  BY <1>19 DEF ReceiveCallback, AdmitCallback
<1>20. ASSUME NEW a \in Attempts, EnqueueNextStep(a) PROVE RestTypeOK'
  BY <1>20, AttemptParts DEF EnqueueNextStep
<1>21. ASSUME NEW a \in Attempts, ResumeAfterCallback(a) PROVE RestTypeOK'
  BY <1>21, AttemptParts DEF ResumeAfterCallback, Complete, CloseReceipt
<1>22. ASSUME NEW a \in Attempts, RejectCallback(a) PROVE RestTypeOK'
  BY <1>22 DEF RejectCallback, CloseReceipt
<1>23. ASSUME NEW a \in Attempts, PostponeCallback(a) PROVE RestTypeOK'
  BY <1>23 DEF PostponeCallback, CloseReceipt
<1>24. ASSUME NEW a \in Attempts, AbortCallback(a) PROVE RestTypeOK'
  BY <1>24 DEF AbortCallback
<1>25. ASSUME NEW a \in Attempts, NEW outcome \in StepTerminal,
             FinalizeAfterCallback(a, outcome) PROVE RestTypeOK'
  BY <1>25 DEF FinalizeAfterCallback, Complete, CloseReceipt, OutcomeOf
<1>26. ASSUME EnqueueRun PROVE RestTypeOK'
  BY <1>26 DEF EnqueueRun
<1>27. ASSUME EnqueueRaises PROVE RestTypeOK'
  BY <1>27 DEF EnqueueRaises
<1>28. ASSUME FailLaunch PROVE RestTypeOK'
  BY <1>28 DEF FailLaunch
<1>29. ASSUME CancelRun PROVE RestTypeOK'
  BY <1>29 DEF CancelRun
<1>30. ASSUME FollowCancel PROVE RestTypeOK'
  BY <1>30 DEF FollowCancel
<1>31. ASSUME SelectStuckRun PROVE RestTypeOK'
  BY <1>31 DEF SelectStuckRun, Watchdog
<1>32. ASSUME RecoverCallback PROVE RestTypeOK'
  BY <1>32 DEF RecoverCallback, AdmitCallback, Watchdog
<1>33. ASSUME RecoverReturns PROVE RestTypeOK'
  BY <1>33 DEF RecoverReturns, Watchdog
<1>34. ASSUME ReconcileFailed PROVE RestTypeOK'
  BY <1>34 DEF ReconcileFailed, Watchdog
<1>35. ASSUME ReconcileFailedAttempt PROVE RestTypeOK'
  BY <1>35 DEF ReconcileFailedAttempt, Watchdog
<1>36. ASSUME TimeOutRun PROVE RestTypeOK'
  BY <1>36 DEF TimeOutRun, Watchdog
<1>37. ASSUME FollowTimeout PROVE RestTypeOK'
  BY <1>37 DEF FollowTimeout, Watchdog
<1>38. ASSUME NEW w \in Workers, TaskRaises(w) PROVE RestTypeOK'
  BY <1>38 DEF TaskRaises, Acknowledge
<1>39. ASSUME NEW w \in Workers, MarkRunFailed(w) PROVE RestTypeOK'
  BY <1>39 DEF MarkRunFailed, Acknowledge
<1>40. ASSUME NEW w \in Workers,
              ValidatorRaises(w) \/ InspectAttempt(w) \/ CloseUnlaunched(w)
       PROVE  RestTypeOK'
  BY <1>40 DEF ValidatorRaises, FailStep, InspectAttempt, CloseUnlaunched
<1>41. ASSUME NEW w \in Workers, FinalizeFailedStep(w) PROVE RestTypeOK'
  BY <1>41 DEF FinalizeFailedStep
<1> QED
  BY <1>c, <1>1, <1>2, <1>3, <1>4, <1>5, <1>6, <1>7, <1>8, <1>9, <1>10, <1>11,
     <1>12, <1>13, <1>14, <1>15, <1>16, <1>17, <1>18, <1>19, <1>20, <1>21,
     <1>22, <1>23, <1>24, <1>25, <1>26, <1>27, <1>28, <1>29, <1>30, <1>31,
     <1>32, <1>33, <1>34, <1>35, <1>36, <1>37, <1>38, <1>39, <1>40, <1>41
  DEF Next, LaunchStep, WorkerStep, HandlerStep, WatchdogStep

(* Types and ledger guarantees are invariant together: the fences move one  *)
(* row only because OneActive holds, and rows keep their types only because *)
(* every worker and the watchdog name rows that exist.                      *)
EngineInv == TypeInv /\ LedgerInv

LEMMA EngineStart == Init => EngineInv
<1> SUFFICES ASSUME Init PROVE EngineInv
  OBVIOUS
<1>1. LedgerInv
  BY LedgerStart DEF Init
<1>2. worker \in [Workers -> WorkerStates] /\ \A w \in Workers : worker[w].pc = "idle"
  BY IdleIsState DEF Init
<1>3. RestTypeOK
  <2>1. /\ watchdog = [pc |-> "idle", of |-> NoAttempt]
        /\ WatchdogInv
    BY DEF Init, WatchdogInv
  <2>2. crashes \in 0 .. MaxCrashes
    BY MaxCrashesAssumption DEF Init
  <2>3. jobName \in [Steps -> BOOLEAN]
    BY Zenon DEF Init
  <2>4. watchdog \in [pc : {"idle", "decide", "recover", "fail", "follow"},
                      of : Attempts \cup {NoAttempt}]
    BY <2>1
  <2>5. /\ run \in RunActive \cup RunTerminal
        /\ released \in BOOLEAN
        /\ step \in [Steps -> StepStates]
        /\ queue \subseteq Tasks
        /\ launch \in {"enqueue", "failed", "done"}
        /\ canceller \in {"idle", "follow", "done"}
    BY DEF Init, RunActive, StepStates
  <2>6. /\ launches \in [Attempts -> Nat]
        /\ ended \in [Attempts -> {"none", "output", "failed"}]
        /\ receipt \in [Attempts -> {"NONE", "PROCESSING", "COMPLETED", "REJECTED"}]
        /\ handler \in [Attempts -> {"idle", "processing", "resuming"}]
    BY DEF Init
  <2> QED BY <2>1, <2>2, <2>3, <2>4, <2>5, <2>6 DEF RestTypeOK
<1>4. WorkerInv
  BY <1>2 DEF WorkerInv, Owning
<1> QED BY <1>1, <1>2, <1>3, <1>4, TypeParts DEF EngineInv, LedgerInv

(* Nobody else touches a worker's state. *)
LEMMA OnlyWorkersMoveWorkers ==
    ASSUME [Next]_vars
    PROVE  UNCHANGED worker \/ \E w \in Workers : WorkerStep(w) \/ CrashWorker(w)
<1>1. ASSUME LaunchStep \/ CancelRun \/ FollowCancel \/ WatchdogStep
      PROVE  UNCHANGED worker
  BY <1>1 DEF LaunchStep, EnqueueRun, EnqueueRaises, FailLaunch, CancelRun,
              FollowCancel, WatchdogStep, SelectStuckRun, RecoverCallback,
              RecoverReturns, ReconcileFailed, ReconcileFailedAttempt,
              TimeOutRun, FollowTimeout
<1>2. ASSUME NEW t \in Tasks, SkipDelivery(t) PROVE UNCHANGED worker
  BY <1>2 DEF SkipDelivery
<1>3. ASSUME NEW a \in Attempts,
             ProviderEnds(a) \/ ReceiveCallback(a) \/ HandlerStep(a)
      PROVE  UNCHANGED worker
  BY <1>3 DEF ProviderEnds, ReceiveCallback, HandlerStep, EnqueueNextStep,
              ResumeAfterCallback, FinalizeAfterCallback, RejectCallback,
              PostponeCallback, AbortCallback, Complete
<1>4. UNCHANGED vars => UNCHANGED worker
  BY DEF vars
<1> QED BY <1>1, <1>2, <1>3, <1>4 DEF Next

LEMMA EngineInvStep ==
    ASSUME EngineInv, [Next]_vars
    PROVE  EngineInv'
<1>1. LedgerInv'
  BY EngineStep, LedgerStep DEF EngineInv
<1>2. RestTypeOK'
  BY RestStep DEF EngineInv
<1>3. WorkerInv' /\ worker' \in [Workers -> WorkerStates]
  <2>1. CASE \E w \in Workers : WorkerStep(w) \/ CrashWorker(w)
    BY <2>1, WorkerStepKeepsWorkers DEF EngineInv
  <2>2. CASE UNCHANGED worker
    BY <2>2 DEF EngineInv, TypeInv, TypeOK, WorkerInv
  <2>3. UNCHANGED worker \/ \E w \in Workers : WorkerStep(w) \/ CrashWorker(w)
    BY OnlyWorkersMoveWorkers
  <2> QED BY <2>1, <2>2, <2>3
<1> QED BY <1>1, <1>2, <1>3 DEF EngineInv, LedgerInv, TypeInv, TypeOK, RestTypeOK

LEMMA EngineSafe == Spec => []EngineInv
<1>1. EngineInv /\ [Next]_vars => EngineInv'
  BY EngineInvStep
<1> QED BY <1>1, EngineStart, PTL DEF Spec

(* Every variable keeps its type in every behaviour of the engine.          *)
THEOREM TypeCorrect == Spec => []TypeOK
<1>1. EngineInv => TypeOK
  BY DEF EngineInv, TypeInv
<1> QED BY <1>1, EngineSafe, PTL

(* The engine uses attempt rows only through the ledger's operations,       *)
(* whatever workers, callbacks, cancel and watchdog do to each other.       *)
THEOREM EngineImplementsLedger == Spec => ImplementsLedger
<1>1. EngineInv /\ [Next]_vars => [AttemptsNext]_attemptVars
  BY EngineStep DEF EngineInv
<1>2. Init => AttemptsInit
  BY DEF Init
<1> QED BY <1>1, <1>2, EngineSafe, PTL DEF Spec, AttemptsSpec, ImplementsLedger

(* Of the engine as of the ledger: one active row per step ... *)
THEOREM EngineOneActive == Spec => []OneActive
BY EngineImplementsLedger, LedgerOneActive, PTL DEF ImplementsLedger

(* ... rows numbered in order, all but the newest of a step over ... *)
THEOREM EngineNumbersInOrder == Spec => []NumbersInOrder
BY EngineImplementsLedger, LedgerInOrder, PTL DEF ImplementsLedger

(* ... and terminal rows never reopened. *)
THEOREM EngineNeverReopens == Spec => NeverReopens
BY EngineImplementsLedger, LedgerNeverReopens, PTL DEF ImplementsLedger

-----------------------------------------------------------------------------
(* Where workers go *)

LEMMA GotoPc ==
    ASSUME TypeInv, NEW w \in Workers, NEW pc, Goto(w, pc)
    PROVE  /\ worker'[w].pc = pc /\ worker'[w].target = worker[w].target
           /\ \A v \in Workers : v # w => worker'[v] = worker[v]
BY DEF Goto, TypeInv, TypeOK, WorkerStates

LEMMA LeavePc ==
    ASSUME TypeInv, NEW w \in Workers, NEW pc, Leave(w, pc)
    PROVE  /\ worker'[w].pc = pc /\ worker'[w].target = worker[w].target
           /\ \A v \in Workers : v # w => worker'[v] = worker[v]
BY DEF Leave, IdleWorker, TypeInv, TypeOK, WorkerStates

LEMMA LoopPc ==
    ASSUME TypeInv, NEW w \in Workers, NEW s, NEW verdict, Loop(w, s, verdict)
    PROVE  /\ worker'[w].pc = "loop"
           /\ \A v \in Workers : v # w => worker'[v] = worker[v]
BY DEF Loop, IdleWorker, TypeInv, TypeOK

LEMMA AcknowledgePc ==
    ASSUME TypeInv, NEW w \in Workers, Acknowledge(w)
    PROVE  /\ worker'[w].pc = "idle"
           /\ \A v \in Workers : v # w => worker'[v] = worker[v]
BY DEF Acknowledge, IdleWorker, TypeInv, TypeOK

LEMMA PendPc ==
    ASSUME TypeInv, NEW w \in Workers, NEW job, Pend(w, job)
    PROVE  /\ worker'[w].pc = "record"
           /\ \A v \in Workers : v # w => worker'[v] = worker[v]
BY DEF Pend, TypeInv, TypeOK, WorkerStates

LEMMA RaisePc ==
    ASSUME TypeInv, NEW w \in Workers, NEW s, LauncherRaises(w, s) \/ FailStep(w)
    PROVE  /\ worker'[w].pc \in {"record", "fail"}
           /\ \A v \in Workers : v # w => worker'[v] = worker[v]
BY PendPc, GotoPc DEF LauncherRaises, FailStep

(* A worker reaches the publishing states only by saving a verdict, and the *)
(* provider call only by claiming a row, which it then names.               *)
LEMMA WorkerPcs ==
    ASSUME TypeInv, NEW w \in Workers, WorkerStep(w) \/ CrashWorker(w)
    PROVE  /\ \A v \in Workers : v # w => worker'[v] = worker[v]
           /\ worker'[w].pc \in {"issue", "emit"} =>
                  SaveOutcome(w) \/ IssueSignedCredential(w)
           /\ worker'[w].pc = "call" =>
                  /\ ClaimAttempt(w)
                  /\ \E a \in Attempts :
                        /\ attempt[a] = "PENDING"
                        /\ attempt' = Moved(a, "DISPATCHING")
                        /\ worker'[w].target = a
           /\ worker'[w].pc = "mark" => TaskRaises(w)
<1> DEFINE Others == \A v \in Workers : v # w => worker'[v] = worker[v]
           Quiet == Others /\ worker'[w].pc \notin {"issue", "emit", "call", "mark"}
<1>1. ASSUME BeginInitial(w) \/ CrashWorker(w) \/ \E t \in Tasks : BeginResume(w, t)
      PROVE  Quiet
  <2> DEFINE r == [IdleWorker EXCEPT !.pc = "loop"]
  <2>1. r \in WorkerStates /\ r.pc = "loop"
    BY IdleIsState DEF WorkerStates
  <2>2. ASSUME NEW q \in WorkerStates, q.pc \in {"idle", "loop"},
               worker' = [worker EXCEPT ![w] = q]
        PROVE  Quiet
    BY <2>2 DEF TypeInv, TypeOK
  <2>3. CASE BeginInitial(w)
    <3>1. worker' = [worker EXCEPT ![w] = r]
      BY <2>3 DEF BeginInitial
    <3> HIDE DEF r
    <3> QED BY <2>1, <2>2, <3>1
  <2>4. CASE CrashWorker(w)
    BY <2>2, <2>4, IdleIsState DEF CrashWorker
  <2>5. ASSUME NEW t \in Tasks, BeginResume(w, t) PROVE Quiet
    <3> DEFINE r2 == [r EXCEPT !.task = t]
               r3 == [r2 EXCEPT !.at = ResumeAt(t)]
    <3>1. worker' = [worker EXCEPT ![w] = r3]
      BY <2>5 DEF BeginResume
    <3> HIDE DEF r
    <3>2. ResumeAt(t) \in 1 .. (NumSteps + 1)
      BY StepFacts DEF Tasks, ResumeAt
    <3>3. r2 \in WorkerStates /\ r2.pc = "loop"
      BY <2>1 DEF WorkerStates
    <3> HIDE DEF r2
    <3>4. r3 \in WorkerStates /\ r3.pc = "loop"
      BY <3>2, <3>3 DEF WorkerStates
    <3> HIDE DEF r3
    <3> QED BY <2>2, <3>1, <3>4
  <2> QED BY <1>1, <2>3, <2>4, <2>5
<1>2. ASSUME CheckCancelled(w) PROVE Quiet
  BY <1>2, GotoPc, LeavePc, AcknowledgePc DEF CheckCancelled
<1>3. ASSUME StartStep(w) \/ RunLocalStep(w) \/ RaiseInStep(w) \/ RecordPending(w)
      PROVE  Quiet
  BY <1>3, GotoPc, LoopPc, LeavePc
  DEF StartStep, RunLocalStep, RaiseInStep, RecordPending
<1>4. ASSUME AllocateAttempt(w) PROVE Quiet
  <2>1. \/ Loop(w, worker[w].at, "pending")
        \/ \E a \in Attempts : worker' = [worker EXCEPT ![w].pc = "prepare",
                                                        ![w].own = NumberOf(a)]
    BY <1>4 DEF AllocateAttempt, ActiveAttempts
  <2> QED BY <2>1, LoopPc DEF TypeInv, TypeOK, WorkerStates
<1>5. ASSUME PrepareLaunch(w) PROVE Quiet
  <2>1. \/ FailStep(w) \/ Pend(w, TRUE) \/ (\E s \in Steps : LauncherRaises(w, s))
        \/ \E a \in Attempts : worker' = [worker EXCEPT ![w].pc = "claim", ![w].target = a]
    BY <1>5 DEF PrepareLaunch, ActiveAttempts
  <2>2. ASSUME NEW a \in Attempts,
               worker' = [worker EXCEPT ![w].pc = "claim", ![w].target = a]
        PROVE  Quiet
    BY <2>2 DEF TypeInv, TypeOK, WorkerStates
  <2> QED BY <2>1, <2>2, RaisePc, PendPc
<1>6. ASSUME ClaimAttempt(w)
      PROVE  \/ Quiet
             \/ /\ Others /\ worker'[w].pc = "call"
                /\ \E a \in Attempts :
                      /\ attempt[a] = "PENDING"
                      /\ attempt' = Moved(a, "DISPATCHING")
                      /\ worker'[w].target = a
  <2>1. \/ LauncherRaises(w, StepOf(worker[w].target)) \/ Pend(w, TRUE)
        \/ \E a \in Attempts :
              /\ attempt[a] = "PENDING" /\ attempt' = Moved(a, "DISPATCHING")
              /\ worker' = [worker EXCEPT ![w].pc = "call", ![w].target = a]
    BY <1>6 DEF ClaimAttempt, ActiveAttempts
  <2>2. ASSUME NEW a \in Attempts,
               worker' = [worker EXCEPT ![w].pc = "call", ![w].target = a]
        PROVE  Others /\ worker'[w].pc = "call" /\ worker'[w].target = a
    BY <2>2 DEF TypeInv, TypeOK, WorkerStates
  <2> QED BY <2>1, <2>2, RaisePc, PendPc
<1>7. ASSUME CallProvider(w) PROVE Quiet
  BY <1>7, GotoPc DEF CallProvider
<1>8. ASSUME RecordDispatch(w) PROVE Quiet
  <2>1. \/ \E job \in BOOLEAN :
              worker' = [worker EXCEPT ![w].pc = "record", ![w].job = job]
        \/ LauncherRaises(w, StepOf(worker[w].target))
    BY <1>8 DEF RecordDispatch
  <2>2. ASSUME NEW job,
               worker' = [worker EXCEPT ![w].pc = "record", ![w].job = job]
        PROVE  Quiet
    BY <2>2 DEF TypeInv, TypeOK, WorkerStates
  <2> QED BY <2>1, <2>2, RaisePc
<1>9. ASSUME SaveOutcome(w) \/ IssueSignedCredential(w)
      PROVE  Others /\ worker'[w].pc \in {"issue", "emit"}
  BY <1>9, GotoPc, LeavePc DEF SaveOutcome, IssueSignedCredential
<1>10. ASSUME EmitFinalized(w) PROVE Quiet
  BY <1>10, AcknowledgePc DEF EmitFinalized
<1>11. /\ MarkRunFailed(w) => Quiet
       /\ TaskRaises(w) => Quiet \/ (Others /\ worker'[w].pc = "mark")
  BY AcknowledgePc, GotoPc DEF TaskRaises, MarkRunFailed
<1>12. ASSUME \/ ValidatorRaises(w) \/ InspectAttempt(w) \/ CloseUnlaunched(w)
              \/ FinalizeFailedStep(w)
       PROVE  Quiet
  BY <1>12, RaisePc, GotoPc, LoopPc
  DEF ValidatorRaises, InspectAttempt, CloseUnlaunched, FinalizeFailedStep
<1> QED
  BY <1>1, <1>2, <1>3, <1>4, <1>5, <1>6, <1>7, <1>8, <1>9, <1>10, <1>11, <1>12
  DEF WorkerStep

-----------------------------------------------------------------------------
(* Decisions are taken before they are published *)

(* What a step does to the run and to those who are about to publish it. *)
RunMoves ==
    /\ \/ run' = run
       \/ run' \in RunTerminal
       \/ run = "PENDING" /\ run' = "RUNNING"
    /\ released' => released \/ run' \in RunTerminal
    /\ canceller' = "follow" => canceller = "follow" \/ run' \in RunTerminal
    /\ watchdog'.pc \in {"fail", "follow"} =>
           watchdog.pc \in {"fail", "follow"} \/ run' \in RunTerminal

LEMMA EveryRunMoves ==
    ASSUME TypeInv, DecisionInv, [Next]_vars
    PROVE  RunMoves
<1> USE DEF RunMoves, runVars, stopVars, RunTerminal
<1>1. CASE UNCHANGED vars
  BY <1>1 DEF vars
<1>2. ASSUME EnqueueRun \/ EnqueueRaises \/ FailLaunch PROVE RunMoves
  BY <1>2 DEF EnqueueRun, EnqueueRaises, FailLaunch
<1>3. ASSUME NEW w \in Workers,
             \/ CheckCancelled(w) \/ StartStep(w)
             \/ RunLocalStep(w) \/ RaiseInStep(w) \/ AllocateAttempt(w)
             \/ PrepareLaunch(w) \/ ClaimAttempt(w) \/ CallProvider(w)
             \/ RecordDispatch(w) \/ RecordPending(w) \/ CrashWorker(w)
             \/ ValidatorRaises(w) \/ InspectAttempt(w) \/ CloseUnlaunched(w)
             \/ FinalizeFailedStep(w)
             \/ TaskRaises(w) \/ \E t \in Tasks : BeginResume(w, t)
      PROVE  RunMoves
  <2>1. UNCHANGED <<runVars, stopVars>>
    BY <1>3 DEF CheckCancelled, StartStep, RunLocalStep, RaiseInStep,
                AllocateAttempt, PrepareLaunch, ClaimAttempt, CallProvider,
                RecordDispatch, RecordPending, CrashWorker, TaskRaises,
                BeginResume, ValidatorRaises, InspectAttempt, CloseUnlaunched,
                FinalizeFailedStep
  <2> QED BY <2>1
<1>4. ASSUME NEW w \in Workers, BeginInitial(w) PROVE RunMoves
  BY <1>4 DEF BeginInitial, Startable
<1>5. ASSUME NEW w \in Workers, SaveOutcome(w) PROVE RunMoves
  BY <1>5 DEF SaveOutcome
<1>6. ASSUME NEW w \in Workers, IssueSignedCredential(w) PROVE RunMoves
  BY <1>6 DEF IssueSignedCredential
<1>7. ASSUME NEW w \in Workers, EmitFinalized(w) PROVE RunMoves
  BY <1>7 DEF EmitFinalized, DecisionInv
<1>8. ASSUME NEW t \in Tasks, SkipDelivery(t) PROVE RunMoves
  BY <1>8 DEF SkipDelivery
<1>9. ASSUME NEW a \in Attempts,
             \/ ProviderEnds(a) \/ ReceiveCallback(a) \/ EnqueueNextStep(a)
             \/ ResumeAfterCallback(a) \/ RejectCallback(a)
             \/ PostponeCallback(a) \/ AbortCallback(a)
      PROVE  RunMoves
  BY <1>9 DEF ProviderEnds, ReceiveCallback, EnqueueNextStep, ResumeAfterCallback,
              Complete, RejectCallback, PostponeCallback, AbortCallback
<1>10. ASSUME NEW a \in Attempts, NEW outcome \in StepTerminal,
              FinalizeAfterCallback(a, outcome)
       PROVE  RunMoves
  BY <1>10 DEF FinalizeAfterCallback, Complete, OutcomeOf, StepTerminal
<1>11. ASSUME CancelRun \/ FollowCancel PROVE RunMoves
  BY <1>11 DEF CancelRun, FollowCancel, DecisionInv
<1>12. ASSUME SelectStuckRun \/ RecoverCallback \/ RecoverReturns PROVE RunMoves
  BY <1>12 DEF SelectStuckRun, RecoverCallback, RecoverReturns, Watchdog
<1>13. ASSUME ReconcileFailed \/ ReconcileFailedAttempt PROVE RunMoves
  BY <1>13 DEF ReconcileFailed, ReconcileFailedAttempt, Watchdog, DecisionInv
<1>14. ASSUME TimeOutRun \/ FollowTimeout PROVE RunMoves
  BY <1>14 DEF TimeOutRun, FollowTimeout, Watchdog, DecisionInv
<1>15. ASSUME NEW w \in Workers, MarkRunFailed(w) PROVE RunMoves
  BY <1>15 DEF MarkRunFailed
<1> QED
  BY <1>1, <1>2, <1>3, <1>4, <1>5, <1>6, <1>7, <1>8, <1>9, <1>10, <1>11, <1>12,
     <1>13, <1>14, <1>15
  DEF Next, LaunchStep, WorkerStep, HandlerStep, WatchdogStep

LEMMA DecisionStep ==
    ASSUME TypeInv, DecisionInv, [Next]_vars
    PROVE  DecisionInv'
<1>1. RunMoves /\ run \in RunActive \cup RunTerminal
  BY EveryRunMoves DEF TypeInv, TypeOK
<1>2. run \in RunTerminal => run' \in RunTerminal
  BY <1>1 DEF RunMoves, RunTerminal
<1>3. ASSUME NEW w \in Workers, worker'[w].pc \in {"issue", "emit"}
      PROVE  run' \in RunTerminal
  <2>1. CASE worker'[w] = worker[w]
    BY <1>2, <1>3, <2>1 DEF DecisionInv
  <2>2. ASSUME WorkerStep(w) \/ CrashWorker(w) PROVE run' \in RunTerminal
    <3>1. SaveOutcome(w) \/ IssueSignedCredential(w)
      BY <1>3, <2>2, WorkerPcs
    <3>2. CASE SaveOutcome(w)
      BY <3>2 DEF SaveOutcome, RunTerminal
    <3>3. CASE IssueSignedCredential(w)
      BY <1>2, <3>3 DEF IssueSignedCredential, DecisionInv
    <3> QED BY <3>1, <3>2, <3>3
  <2>3. ASSUME NEW v \in Workers, v # w, WorkerStep(v) \/ CrashWorker(v)
        PROVE  worker'[w] = worker[w]
    BY <2>3, WorkerPcs
  <2> QED BY <2>1, <2>2, <2>3, OnlyWorkersMoveWorkers
<1>4. run' \in RunActive => ~released'
  BY <1>1, <1>2 DEF RunMoves, DecisionInv, RunActive, RunTerminal
<1>5. canceller' = "follow" => run' \in RunTerminal
  BY <1>1, <1>2 DEF RunMoves, DecisionInv
<1>6. watchdog'.pc \in {"fail", "follow"} => run' \in RunTerminal
  BY <1>1, <1>2 DEF RunMoves, DecisionInv
<1> QED BY <1>3, <1>4, <1>5, <1>6 DEF DecisionInv

(* A definition is released for editing only after its run was decided, and *)
(* a released run never becomes active again: six places publish a run, and *)
(* each of them has seen the decision, or takes it in the same transaction. *)
THEOREM ReleasedAfterDecision == Spec => []ReleasedMeansTerminal
<1>1. Init => DecisionInv
  BY DEF Init, DecisionInv, IdleWorker
<1>2. EngineInv /\ DecisionInv /\ [Next]_vars => DecisionInv'
  BY DecisionStep DEF EngineInv
<1>3. EngineInv /\ DecisionInv => ReleasedMeansTerminal
  BY DEF EngineInv, TypeInv, TypeOK, DecisionInv, ReleasedMeansTerminal
<1> QED BY <1>1, <1>2, <1>3, EngineSafe, PTL DEF Spec

-----------------------------------------------------------------------------
(* Who overwrites a decision *)

LEMMA OverwriteStep ==
    ASSUME TypeInv, [Next]_vars, run \in RunTerminal, run' # run
    PROVE  /\ run' \in RunTerminal
           /\ \/ launch = "failed"
              \/ \E w \in Workers :
                    \/ /\ worker[w].pc \in {"save", "raised", "canceled", "issue"}
                       /\ worker'[w].pc \in {"issue", "emit"}
                    \/ worker[w].pc = "mark" /\ worker'[w].pc = "idle"
<1> DEFINE Saving(w) == SaveOutcome(w) \/ IssueSignedCredential(w) \/ MarkRunFailed(w)
<1>1. FailLaunch \/ \E w \in Workers : Saving(w)
  <2> USE DEF runVars, RunTerminal
  <2>1. ~UNCHANGED vars
    BY DEF vars
  <2>2. ~EnqueueRun /\ ~EnqueueRaises
    BY DEF EnqueueRun, EnqueueRaises
  <2>3. ASSUME NEW w \in Workers, WorkerStep(w) \/ CrashWorker(w) PROVE Saving(w)
    BY <2>3 DEF WorkerStep, BeginInitial, Startable, CheckCancelled, StartStep,
                RunLocalStep, RaiseInStep, AllocateAttempt, PrepareLaunch,
                ClaimAttempt, CallProvider, RecordDispatch, RecordPending,
                EmitFinalized, BeginResume, CrashWorker, TaskRaises,
                ValidatorRaises, InspectAttempt, CloseUnlaunched,
                FinalizeFailedStep
  <2>4. \A t \in Tasks : ~SkipDelivery(t)
    BY DEF SkipDelivery
  <2>5. ASSUME NEW a \in Attempts
        PROVE  ~ProviderEnds(a) /\ ~ReceiveCallback(a) /\ ~HandlerStep(a)
    BY DEF ProviderEnds, ReceiveCallback, HandlerStep, EnqueueNextStep,
           ResumeAfterCallback, FinalizeAfterCallback, RejectCallback,
           PostponeCallback, AbortCallback, RunActive
  <2>6. ~CancelRun /\ ~FollowCancel
    BY DEF CancelRun, FollowCancel, RunActive
  <2>7. ~WatchdogStep
    BY DEF WatchdogStep, SelectStuckRun, RecoverCallback, RecoverReturns,
           ReconcileFailed, ReconcileFailedAttempt, TimeOutRun, FollowTimeout,
           StillRunning
  <2> QED BY <2>1, <2>2, <2>3, <2>4, <2>5, <2>6, <2>7 DEF Next, LaunchStep
<1>2. CASE FailLaunch
  BY <1>2 DEF FailLaunch, RunTerminal
<1>3. ASSUME NEW w \in Workers, Saving(w)
      PROVE  /\ run' \in RunTerminal
             /\ \/ /\ worker[w].pc \in {"save", "raised", "canceled", "issue"}
                   /\ worker'[w].pc \in {"issue", "emit"}
                \/ worker[w].pc = "mark" /\ worker'[w].pc = "idle"
  BY <1>3, GotoPc, LeavePc, AcknowledgePc
  DEF SaveOutcome, IssueSignedCredential, MarkRunFailed, RunTerminal
<1> QED BY <1>1, <1>2, <1>3

(* A decision about the run is overwritten only by the save of a run that a *)
(* worker, or the last-resort handler of its task, once loaded, or by the   *)
(* launching request's: callbacks, cancel and the watchdog respect what     *)
(* they find, and nobody reopens a run.                                     *)
THEOREM WorkersAloneOverwrite == Spec => OverwrittenOnlyByWorker
<1>1. EngineInv /\ [Next]_vars =>
        [(run \in RunTerminal /\ run' # run) =>
          /\ run' \in RunTerminal
          /\ \/ launch = "failed"
             \/ \E w \in Workers :
                    \/ /\ worker[w].pc \in {"save", "raised", "canceled", "issue"}
                       /\ worker'[w].pc \in {"issue", "emit"}
                    \/ worker[w].pc = "mark" /\ worker'[w].pc = "idle"]_vars
  BY OverwriteStep DEF EngineInv
<1> QED BY <1>1, EngineSafe, PTL DEF Spec, OverwrittenOnlyByWorker

-----------------------------------------------------------------------------
(* One launch per attempt *)

Unclaimed == {"ABSENT", "PENDING"}

(* A row is claimed once: no operation of the ledger takes it back. *)
LEMMA ClaimsAreKept ==
    ASSUME AttemptsTypeOK, [AttemptsNext]_attemptVars,
           NEW a \in Attempts, attempt'[a] \in Unclaimed
    PROVE  attempt[a] \in Unclaimed
<1> USE DEF Unclaimed
<1>1. CASE UNCHANGED attemptVars
  BY <1>1 DEF attemptVars
<1>2. ASSUME NEW b \in Attempts, CreateAttempt(b) PROVE attempt[a] \in Unclaimed
  <2>1. attempt[b] = "ABSENT" /\ attempt' = [attempt EXCEPT ![b] = "PENDING"]
    BY <1>2 DEF CreateAttempt, IsNextAttempt, Exists, Moved
  <2> QED BY <2>1 DEF AttemptsTypeOK
<1>3. ASSUME NEW b \in Attempts, IssueCredentials(b) PROVE attempt[a] \in Unclaimed
  BY <1>3 DEF IssueCredentials
<1>4. ASSUME NEW b \in Attempts, NEW target \in States, TransitionAttempt(b, target)
      PROVE  attempt[a] \in Unclaimed
  <2>1. attempt' = [attempt EXCEPT ![b] = target]
    BY <1>4 DEF TransitionAttempt, Moved
  <2>2. CASE a # b
    BY <2>1, <2>2 DEF AttemptsTypeOK
  <2>3. CASE a = b
    <3>1. target \in Unclaimed /\ target = "PENDING"
      BY <2>1, <2>3 DEF AttemptsTypeOK, States, ActiveStates, TerminalStates
    <3>2. attempt[b] \in States
      BY <1>4 DEF TransitionAttempt, MayTransition, Exists, AttemptsTypeOK
    <3>3. "PENDING" \notin AllowedTransitions[attempt[b]]
      BY <3>2 DEF AllowedTransitions, States, ActiveStates, TerminalStates
    <3> QED BY <1>4, <2>3, <3>1, <3>3 DEF TransitionAttempt, MayTransition
  <2> QED BY <2>2, <2>3
<1> QED BY <1>1, <1>2, <1>3, <1>4 DEF AttemptsNext

(* The provider's count moves with a call only. *)
LEMMA OnlyCallsLaunch ==
    ASSUME [Next]_vars
    PROVE  UNCHANGED launches \/ \E w \in Workers : CallProvider(w)
<1> USE DEF providerVars
<1>1. CASE UNCHANGED vars
  BY <1>1 DEF vars
<1>2. ASSUME LaunchStep \/ CancelRun \/ FollowCancel \/ WatchdogStep
      PROVE  UNCHANGED launches
  BY <1>2 DEF LaunchStep, EnqueueRun, EnqueueRaises, FailLaunch, CancelRun,
              FollowCancel, WatchdogStep, SelectStuckRun, RecoverCallback,
              RecoverReturns, ReconcileFailed, ReconcileFailedAttempt,
              TimeOutRun, FollowTimeout
<1>3. ASSUME NEW t \in Tasks, SkipDelivery(t) PROVE UNCHANGED launches
  BY <1>3 DEF SkipDelivery
<1>4. ASSUME NEW a \in Attempts,
             ProviderEnds(a) \/ ReceiveCallback(a) \/ HandlerStep(a)
      PROVE  UNCHANGED launches
  BY <1>4 DEF ProviderEnds, ReceiveCallback, HandlerStep, EnqueueNextStep,
              ResumeAfterCallback, FinalizeAfterCallback, RejectCallback,
              PostponeCallback, AbortCallback, Complete
<1>5. ASSUME NEW w \in Workers, WorkerStep(w) \/ CrashWorker(w), ~CallProvider(w)
      PROVE  UNCHANGED launches
  BY <1>5 DEF WorkerStep, BeginInitial, CheckCancelled, StartStep, RunLocalStep,
              RaiseInStep, AllocateAttempt, PrepareLaunch, ClaimAttempt,
              RecordDispatch, RecordPending, SaveOutcome, IssueSignedCredential,
              EmitFinalized, BeginResume, CrashWorker, TaskRaises, MarkRunFailed,
              ValidatorRaises, InspectAttempt, CloseUnlaunched,
              FinalizeFailedStep
<1> QED BY <1>1, <1>2, <1>3, <1>4, <1>5 DEF Next

LEMMA LaunchStepKeeps ==
    ASSUME EngineInv, LaunchInv, [Next]_vars
    PROVE  LaunchInv'
<1> USE DEF Unclaimed
<1>1. TypeInv /\ AttemptsTypeOK /\ [AttemptsNext]_attemptVars
  BY EngineStep DEF EngineInv, LedgerInv
<1>2. \A a \in Attempts : attempt'[a] \in Unclaimed => attempt[a] \in Unclaimed
  BY <1>1, ClaimsAreKept
<1>3. launches \in [Attempts -> Nat] /\ worker \in [Workers -> WorkerStates]
  BY <1>1 DEF TypeInv, TypeOK
<1>4. \A w \in Workers : worker[w].pc = "call" => worker[w].target \in Attempts
  BY <1>1 DEF TypeInv, WorkerInv
<1>5. ASSUME NEW w \in Workers, CallProvider(w) PROVE LaunchInv'
  <2> DEFINE a == worker[w].target
  <2>1. a \in Attempts /\ launches[a] = 0 /\ attempt[a] \notin Unclaimed
    BY <1>4, <1>5 DEF CallProvider, LaunchInv
  <2>2. /\ worker'[w].pc # "call"
        /\ \A v \in Workers : v # w => worker'[v] = worker[v]
    BY <1>1, <1>5, GotoPc DEF CallProvider
  <2>3. /\ launches'[a] \in {0, 1}
        /\ \A b \in Attempts : b # a => launches'[b] = launches[b]
    BY <1>3, <1>5, <2>1 DEF CallProvider
  <2>4. \A v \in Workers : worker'[v].pc = "call" =>
            /\ worker'[v] = worker[v] /\ worker[v].target # a
            /\ worker[v].target \in Attempts
    BY <1>4, <1>5, <2>2 DEF CallProvider, LaunchInv
  <2>5. \A b \in Attempts : attempt'[b] \in Unclaimed => launches'[b] = 0
    BY <1>2, <2>1, <2>3 DEF LaunchInv
  <2>6. \A v \in Workers : worker'[v].pc = "call" =>
            /\ launches'[worker'[v].target] = 0
            /\ attempt'[worker'[v].target] \notin Unclaimed
    BY <1>2, <2>3, <2>4 DEF LaunchInv
  <2>7. \A u, v \in Workers :
            worker'[u].pc = "call" /\ worker'[v].pc = "call"
                /\ worker'[u].target = worker'[v].target => u = v
    BY <2>4 DEF LaunchInv
  <2>8. \A b \in Attempts : launches'[b] <= 1
    BY <2>3 DEF LaunchInv, LaunchOnce
  <2> QED BY <2>5, <2>6, <2>7, <2>8 DEF LaunchInv, LaunchOnce
<1>6. CASE UNCHANGED <<worker, launches>>
  BY <1>2, <1>4, <1>6 DEF LaunchInv, LaunchOnce
<1>7. ASSUME NEW w \in Workers, WorkerStep(w) \/ CrashWorker(w), UNCHANGED launches
      PROVE  LaunchInv'
  <2>1. \A v \in Workers : v # w => worker'[v] = worker[v]
    BY <1>1, <1>7, WorkerPcs
  <2>2. CASE worker'[w].pc # "call"
    <3>1. \A v \in Workers : worker'[v].pc = "call" =>
              worker'[v] = worker[v] /\ worker[v].target \in Attempts
      BY <1>4, <2>1, <2>2
    <3> QED BY <1>2, <1>7, <3>1 DEF LaunchInv, LaunchOnce
  <2>3. CASE worker'[w].pc = "call"
    <3>1. PICK a \in Attempts : /\ attempt[a] = "PENDING"
                                /\ attempt' = Moved(a, "DISPATCHING")
                                /\ worker'[w].target = a
      BY <1>1, <1>7, <2>3, WorkerPcs
    <3>2. launches[a] = 0 /\ attempt'[a] = "DISPATCHING"
      BY <1>1, <3>1 DEF LaunchInv, Moved, AttemptsTypeOK
    <3>3. \A v \in Workers : v # w /\ worker'[v].pc = "call" =>
              /\ worker'[v] = worker[v] /\ worker[v].target # a
              /\ worker[v].target \in Attempts
      BY <1>4, <2>1, <3>1 DEF LaunchInv
    <3>4. \A v \in Workers : worker'[v].pc = "call" =>
              /\ launches'[worker'[v].target] = 0
              /\ attempt'[worker'[v].target] \notin Unclaimed
      BY <1>2, <1>7, <3>1, <3>2, <3>3 DEF LaunchInv
    <3>5. \A u, v \in Workers :
              worker'[u].pc = "call" /\ worker'[v].pc = "call"
                  /\ worker'[u].target = worker'[v].target => u = v
      BY <3>1, <3>3 DEF LaunchInv
    <3> QED BY <1>2, <1>7, <3>4, <3>5 DEF LaunchInv, LaunchOnce
  <2> QED BY <2>2, <2>3
<1>8. UNCHANGED worker \/ \E w \in Workers : WorkerStep(w) \/ CrashWorker(w)
  BY OnlyWorkersMoveWorkers
<1>9. UNCHANGED launches \/ \E w \in Workers : CallProvider(w)
  BY OnlyCallsLaunch
<1> QED BY <1>5, <1>6, <1>7, <1>8, <1>9

(* The provider is never called twice for one attempt row, however often a  *)
(* task is delivered, wherever a worker dies and whoever else fences the    *)
(* row: the claim comes before the call and nothing gives it back.          *)
THEOREM LaunchedOnce == Spec => []LaunchOnce
<1>1. Init => LaunchInv
  <2> SUFFICES ASSUME Init PROVE LaunchInv
    OBVIOUS
  <2>1. \A a \in Attempts : launches[a] = 0
    BY DEF Init
  <2>2. \A w \in Workers : worker[w].pc # "call"
    BY DEF Init, IdleWorker
  <2> QED BY <2>1, <2>2 DEF LaunchInv, LaunchOnce
<1>2. EngineInv /\ LaunchInv /\ [Next]_vars => LaunchInv'
  BY LaunchStepKeeps
<1>3. LaunchInv => LaunchOnce
  BY DEF LaunchInv
<1> QED BY <1>1, <1>2, <1>3, EngineSafe, PTL DEF Spec
=============================================================================
