---------------------------- MODULE CallbackProofs ----------------------------
(***************************************************************************)
(* What callbacks do to a run, for every workflow, number of workers and   *)
(* combination of outside events: an output is applied once, and a step    *)
(* that was completed is followed by the next one.                         *)
(***************************************************************************)
EXTENDS ValidationRunProofs

(* The resume task of step s is owed, or was taken: its worker has opened   *)
(* the next step.                                                           *)
FollowedUp(s) == s \in queue \/ step[s + 1] # "ABSENT"

(* The next step has to follow: the attempt is completed, or the resume     *)
(* task left although the completion has not been committed.                *)
Owed(a) ==
    /\ StepOf(a) < NumSteps
    /\ handler[a] = "resuming" \/ attempt[a] = "COMPLETED"

(* The worker has not opened the step yet at which it was told to resume *)
Fresh(w) ==
    /\ worker[w].at = worker[w].task + 1
    /\ \/ worker[w].pc = "loop" /\ worker[w].result = "none"
       \/ worker[w].pc = "start"

(* A worker that may acknowledge its task has opened the step it names; one *)
(* that gave up will end the run, or die.                                   *)
Giving == {"raised", "canceled", "mark"}

Ahead(w) ==
    worker[w].pc \notin {"idle"} \cup Giving /\ worker[w].task \in 1 .. (NumSteps - 1) =>
        /\ worker[w].at > worker[w].task
        /\ Fresh(w) \/ step[worker[w].task + 1] # "ABSENT"

(* Before the run begins nobody works for it. *)
UntouchedInv ==
    run = "PENDING" =>
        /\ \A w \in Workers : worker[w].pc = "idle"
        /\ \A s \in Steps : step[s] = "ABSENT"
        /\ \A a \in Attempts : handler[a] = "idle" /\ attempt[a] # "COMPLETED"

ResumeInv ==
    run = "RUNNING" =>
        /\ \A a \in Attempts : Owed(a) => FollowedUp(StepOf(a))
        /\ \A w \in Workers : Ahead(w)

-----------------------------------------------------------------------------
(* Who completes an attempt, and who touches a receipt *)

LEMMA MovedElsewhere ==
    ASSUME AttemptsTypeOK, NEW b, NEW target, target # "COMPLETED",
           attempt' = Moved(b, target), NEW a \in Attempts, attempt'[a] = "COMPLETED"
    PROVE  attempt[a] = "COMPLETED"
BY DEF Moved, AttemptsTypeOK

LEMMA FencedElsewhere ==
    ASSUME AttemptsTypeOK, NEW target, target # "COMPLETED", Fence(target),
           NEW a \in Attempts, attempt'[a] = "COMPLETED"
    PROVE  attempt[a] = "COMPLETED"
BY DEF Fence, AttemptsTypeOK

(* A callback in the act of completing attempt a. *)
Completing(a) ==
    \/ ResumeAfterCallback(a)
    \/ \E outcome \in StepTerminal : FinalizeAfterCallback(a, outcome)

(* Only the callback of an attempt completes it. *)
LEMMA OnlyCallbacksComplete ==
    ASSUME AttemptsTypeOK, [Next]_vars, NEW a \in Attempts,
           attempt'[a] = "COMPLETED", attempt[a] # "COMPLETED"
    PROVE  Completing(a)
<1> USE DEF attemptVars
<1>1. attempt' # attempt
  OBVIOUS
<1>2. ~UNCHANGED vars /\ ~LaunchStep /\ ~SelectStuckRun /\ ~RecoverCallback
        /\ ~RecoverReturns /\ ~ReconcileFailed
  BY <1>1 DEF vars, LaunchStep, EnqueueRun, EnqueueRaises, FailLaunch,
              SelectStuckRun, RecoverCallback, RecoverReturns, ReconcileFailed
<1>3. ASSUME NEW t \in Tasks PROVE ~SkipDelivery(t)
  BY <1>1 DEF SkipDelivery
<1>4. ASSUME NEW w \in Workers PROVE ~WorkerStep(w) /\ ~CrashWorker(w)
  <2>1. /\ ~BeginInitial(w) /\ ~CheckCancelled(w) /\ ~StartStep(w)
        /\ ~RunLocalStep(w) /\ ~RaiseInStep(w) /\ ~CallProvider(w)
        /\ ~RecordPending(w) /\ ~SaveOutcome(w) /\ ~IssueSignedCredential(w)
        /\ ~EmitFinalized(w) /\ ~CrashWorker(w) /\ ~TaskRaises(w)
        /\ ~MarkRunFailed(w) /\ ~ValidatorRaises(w) /\ ~InspectAttempt(w)
        /\ ~FinalizeFailedStep(w) /\ \A t \in Tasks : ~BeginResume(w, t)
    BY <1>1 DEF ValidatorRaises, FailStep, InspectAttempt, FinalizeFailedStep,
                BeginInitial, CheckCancelled, StartStep, RunLocalStep, RaiseInStep,
                CallProvider, RecordPending, SaveOutcome, IssueSignedCredential,
                EmitFinalized, CrashWorker, TaskRaises, MarkRunFailed, BeginResume
  <2>2. ~AllocateAttempt(w)
    BY <1>1, MovedElsewhere DEF AllocateAttempt, CreateAttempt
  <2>3. ~PrepareLaunch(w)
    BY <1>1 DEF PrepareLaunch, LauncherRaises, FailStep, Pend, IssueCredentials
  <2>4. ~ClaimAttempt(w)
    BY <1>1, MovedElsewhere DEF ClaimAttempt, LauncherRaises, FailStep, Pend
  <2>5. ~RecordDispatch(w)
    BY <1>1, MovedElsewhere
    DEF RecordDispatch, DispatchState, LauncherRaises, FailStep, Pend
  <2>6. ~CloseUnlaunched(w)
    BY <1>1, MovedElsewhere DEF CloseUnlaunched
  <2> QED BY <2>1, <2>2, <2>3, <2>4, <2>5, <2>6 DEF WorkerStep
<1>5. ~CancelRun /\ ~FollowCancel /\ ~TimeOutRun /\ ~FollowTimeout
  BY <1>1, FencedElsewhere DEF CancelRun, FollowCancel, TimeOutRun, FollowTimeout
<1>6. ~ReconcileFailedAttempt
  BY <1>1, MovedElsewhere DEF ReconcileFailedAttempt
<1>7. ASSUME NEW b \in Attempts,
             ProviderEnds(b) \/ ReceiveCallback(b) \/ HandlerStep(b)
      PROVE  Completing(a)
  <2>1. /\ ~ProviderEnds(b) /\ ~ReceiveCallback(b) /\ ~EnqueueNextStep(b)
        /\ ~PostponeCallback(b) /\ ~AbortCallback(b)
    BY <1>1 DEF ProviderEnds, ReceiveCallback, EnqueueNextStep, PostponeCallback,
                AbortCallback
  <2>2. ~RejectCallback(b)
    BY MovedElsewhere DEF RejectCallback, CloseAttempt
  <2>3. Completing(b)
    BY <1>7, <2>1, <2>2 DEF HandlerStep, Completing
  <2>4. attempt' = Moved(b, "COMPLETED")
    BY <2>3 DEF Completing, ResumeAfterCallback, FinalizeAfterCallback, Complete,
                CloseAttempt
  <2>5. a = b
    BY <2>4 DEF Moved, AttemptsTypeOK
  <2> QED BY <2>3, <2>5
<1> QED BY <1>2, <1>3, <1>4, <1>5, <1>6, <1>7 DEF Next, WatchdogStep

(* Receipts and their holders move with the callbacks alone. *)
LEMMA OnlyCallbacksReceive ==
    ASSUME TypeInv, [Next]_vars
    PROVE  \/ UNCHANGED callbackVars
           \/ \E a \in Attempts :
                \/ AdmitCallback(a) /\ UNCHANGED <<attempt, queue, step, run>>
                \/ HandlerStep(a)
<1> USE DEF callbackVars, stepVars, runVars, attemptVars
<1>1. CASE UNCHANGED vars
  BY <1>1 DEF vars
<1>2. ASSUME LaunchStep \/ CancelRun \/ FollowCancel PROVE UNCHANGED callbackVars
  BY <1>2 DEF LaunchStep, EnqueueRun, EnqueueRaises, FailLaunch, CancelRun, FollowCancel
<1>3. ASSUME WatchdogStep, ~RecoverCallback PROVE UNCHANGED callbackVars
  BY <1>3 DEF WatchdogStep, SelectStuckRun, RecoverReturns, ReconcileFailed,
              ReconcileFailedAttempt, TimeOutRun, FollowTimeout
<1>4. CASE RecoverCallback
  <2>1. watchdog.of \in Attempts \/ UNCHANGED callbackVars
    BY <1>4 DEF RecoverCallback, TypeInv, TypeOK
  <2> QED BY <1>4, <2>1 DEF RecoverCallback
<1>5. ASSUME NEW t \in Tasks, SkipDelivery(t) PROVE UNCHANGED callbackVars
  BY <1>5 DEF SkipDelivery
<1>6. ASSUME NEW w \in Workers, WorkerStep(w) \/ CrashWorker(w)
      PROVE  UNCHANGED callbackVars
  BY <1>6 DEF WorkerStep, BeginInitial, CheckCancelled, StartStep, RunLocalStep,
              RaiseInStep, AllocateAttempt, PrepareLaunch, ClaimAttempt,
              CallProvider, RecordDispatch, RecordPending, SaveOutcome,
              IssueSignedCredential, EmitFinalized, BeginResume, CrashWorker,
              TaskRaises, MarkRunFailed, ValidatorRaises, InspectAttempt,
              CloseUnlaunched, FinalizeFailedStep
<1>7. ASSUME NEW a \in Attempts, ReceiveCallback(a)
      PROVE  AdmitCallback(a) /\ UNCHANGED <<attempt, queue, step, run>>
  BY <1>7 DEF ReceiveCallback
<1>8. ASSUME NEW a \in Attempts, ProviderEnds(a) PROVE UNCHANGED callbackVars
  BY <1>8 DEF ProviderEnds
<1> QED BY <1>1, <1>2, <1>3, <1>4, <1>5, <1>6, <1>7, <1>8 DEF Next

-----------------------------------------------------------------------------
(* An output is applied once *)

LEMMA ProcessedStep ==
    ASSUME TypeInv, AttemptsTypeOK, ProcessedOnce, [Next]_vars
    PROVE  ProcessedOnce'
<1>1. /\ handler \in [Attempts -> {"idle", "processing", "resuming"}]
      /\ receipt \in [Attempts -> {"NONE", "PROCESSING", "COMPLETED", "REJECTED"}]
  BY DEF TypeInv, TypeOK
<1>2. \A a \in Attempts : attempt'[a] = "COMPLETED" =>
          attempt[a] = "COMPLETED" \/ Completing(a)
  BY OnlyCallbacksComplete
<1>3. \A a \in Attempts : Completing(a) =>
          /\ handler[a] # "idle" /\ handler'[a] = "idle" /\ receipt'[a] = "COMPLETED"
          /\ \A b \in Attempts : b # a => handler'[b] = handler[b] /\ receipt'[b] = receipt[b]
  BY <1>1 DEF Completing, ResumeAfterCallback, FinalizeAfterCallback, Complete, CloseReceipt
<1>4. CASE UNCHANGED callbackVars
  BY <1>2, <1>3, <1>4 DEF ProcessedOnce, callbackVars
<1>5. ASSUME NEW a \in Attempts, AdmitCallback(a), UNCHANGED attempt
      PROVE  ProcessedOnce'
  BY <1>1, <1>5 DEF AdmitCallback, ProcessedOnce, IsTerminal, TerminalStates
<1>6. ASSUME NEW a \in Attempts, HandlerStep(a), ~Completing(a)
      PROVE  ProcessedOnce'
  <2>1. /\ handler[a] # "idle"
        /\ receipt'[a] = receipt[a] \/ handler'[a] = "idle"
        /\ receipt'[a] \in {"NONE", "PROCESSING", "REJECTED"} \/ receipt'[a] = receipt[a]
        /\ \A b \in Attempts : b # a => handler'[b] = handler[b] /\ receipt'[b] = receipt[b]
    BY <1>1, <1>6 DEF HandlerStep, Completing, EnqueueNextStep, RejectCallback,
                      PostponeCallback, AbortCallback, CloseReceipt
  <2>2. \A b \in Attempts : ~Completing(b)
    BY <1>3, <1>6, <2>1
  <2> QED BY <1>2, <2>1, <2>2 DEF ProcessedOnce
<1>7. ASSUME NEW a \in Attempts, Completing(a) PROVE ProcessedOnce'
  BY <1>2, <1>3, <1>7 DEF ProcessedOnce
<1> QED BY <1>4, <1>5, <1>6, <1>7, OnlyCallbacksReceive

(* However often a callback is delivered, and whatever the watchdog         *)
(* recovers meanwhile: while an output is processed the attempt is neither  *)
(* completed nor its receipt closed, and both close together.               *)
THEOREM OutputAppliedOnce == Spec => []ProcessedOnce
<1>1. Init => ProcessedOnce
  BY DEF Init, AttemptsInit, ProcessedOnce
<1>2. EngineInv /\ ProcessedOnce /\ [Next]_vars => ProcessedOnce'
  BY ProcessedStep DEF EngineInv, LedgerInv
<1> QED BY <1>1, <1>2, EngineSafe, PTL DEF Spec

-----------------------------------------------------------------------------
(* A pending run is untouched *)

LEMMA OnlyTheyMoveSteps ==
    ASSUME [Next]_vars
    PROVE  \/ UNCHANGED step
           \/ \E w \in Workers : WorkerStep(w)
           \/ \E a \in Attempts : HandlerStep(a)
<1> USE DEF stepVars
<1>1. UNCHANGED vars => UNCHANGED step
  BY DEF vars
<1>2. ASSUME LaunchStep \/ CancelRun \/ FollowCancel \/ WatchdogStep
      PROVE  UNCHANGED step
  BY <1>2 DEF LaunchStep, EnqueueRun, EnqueueRaises, FailLaunch, CancelRun,
              FollowCancel, WatchdogStep, SelectStuckRun, RecoverCallback,
              RecoverReturns, ReconcileFailed, ReconcileFailedAttempt,
              TimeOutRun, FollowTimeout
<1>3. ASSUME NEW t \in Tasks, SkipDelivery(t) PROVE UNCHANGED step
  BY <1>3 DEF SkipDelivery
<1>4. ASSUME NEW a \in Attempts, ProviderEnds(a) \/ ReceiveCallback(a)
      PROVE  UNCHANGED step
  BY <1>4 DEF ProviderEnds, ReceiveCallback
<1>5. ASSUME NEW w \in Workers, CrashWorker(w) PROVE UNCHANGED step
  BY <1>5 DEF CrashWorker
<1> QED BY <1>1, <1>2, <1>3, <1>4, <1>5 DEF Next

(* Of a pending run, a step can only be the first task beginning it. *)
LEMMA PendingStep ==
    ASSUME TypeInv, AttemptsTypeOK, UntouchedInv, run = "PENDING", [Next]_vars
    PROVE  /\ \A w \in Workers : /\ ~CrashWorker(w)
                                 /\ WorkerStep(w) => BeginInitial(w)
           /\ \A a \in Attempts : ~HandlerStep(a)
           /\ UNCHANGED handler
           /\ \A a \in Attempts : attempt'[a] # "COMPLETED"
<1>1. ASSUME NEW w \in Workers PROVE ~CrashWorker(w) /\ (WorkerStep(w) => BeginInitial(w))
  <2>1. worker[w].pc = "idle"
    BY DEF UntouchedInv
  <2>2. \A t \in Tasks : ~BeginResume(w, t)
    <3>1. ASSUME NEW t \in Tasks, t > 0 PROVE ~Startable(t)
      BY <3>1 DEF Startable, Tasks
    <3>2. \A t \in Tasks : BeginResume(w, t) => t > 0 /\ Startable(t)
      BY Zenon DEF BeginResume
    <3> QED BY <3>1, <3>2
  <2> QED
    BY <2>1, <2>2
    DEF WorkerStep, CheckCancelled, StartStep, RunLocalStep, RaiseInStep,
        AllocateAttempt, PrepareLaunch, ClaimAttempt, CallProvider,
        RecordDispatch, RecordPending, SaveOutcome, IssueSignedCredential,
        EmitFinalized, CrashWorker, TaskRaises, Unguarded, MarkRunFailed,
        ValidatorRaises, InspectAttempt, CloseUnlaunched, FinalizeFailedStep
<1>2. ASSUME NEW a \in Attempts PROVE ~HandlerStep(a)
  <2>1. handler[a] = "idle"
    BY DEF UntouchedInv
  <2> QED
    BY <2>1 DEF HandlerStep, EnqueueNextStep, ResumeAfterCallback,
                FinalizeAfterCallback, RejectCallback, PostponeCallback, AbortCallback
<1>3. UNCHANGED handler
  <2>1. ASSUME NEW a \in Attempts, AdmitCallback(a) PROVE UNCHANGED handler
    <3>1. StepOf(a) \in Steps /\ ~Current(StepOf(a))
      BY AttemptParts DEF UntouchedInv, Current
    <3> QED BY <2>1, <3>1 DEF AdmitCallback
  <2> QED BY <1>2, <2>1, OnlyCallbacksReceive DEF callbackVars
<1>4. ASSUME NEW a \in Attempts PROVE attempt'[a] # "COMPLETED"
  <2>1. ~Completing(a)
    BY <1>2 DEF Completing, HandlerStep
  <2> QED BY <2>1, OnlyCallbacksComplete DEF UntouchedInv
<1> QED BY <1>1, <1>2, <1>3, <1>4

LEMMA UntouchedStep ==
    ASSUME TypeInv, DecisionInv, AttemptsTypeOK, UntouchedInv, [Next]_vars
    PROVE  UntouchedInv'
<1> SUFFICES ASSUME run' = "PENDING" PROVE UntouchedInv'
  BY DEF UntouchedInv
<1>1. run = "PENDING"
  BY EveryRunMoves DEF RunMoves, RunTerminal
<1>2. \A w \in Workers : ~WorkerStep(w) /\ ~CrashWorker(w)
  BY <1>1, PendingStep DEF BeginInitial
<1>3. UNCHANGED <<worker, step, handler>>
  BY <1>1, <1>2, PendingStep, OnlyWorkersMoveWorkers, OnlyTheyMoveSteps
<1>4. \A a \in Attempts : attempt'[a] # "COMPLETED"
  BY <1>1, PendingStep
<1> QED BY <1>1, <1>3, <1>4 DEF UntouchedInv

-----------------------------------------------------------------------------
(* How a worker moves past the step it resumed at *)

LEMMA GotoKeeps ==
    ASSUME TypeInv, NEW w \in Workers, NEW pc, Goto(w, pc)
    PROVE  /\ worker'[w].pc = pc
           /\ worker'[w].task = worker[w].task
           /\ worker'[w].at = worker[w].at
           /\ worker'[w].result = worker[w].result
BY DEF Goto, TypeInv, TypeOK, WorkerStates

LEMMA LoopKeeps ==
    ASSUME TypeInv, NEW w \in Workers, NEW s, NEW verdict, Loop(w, s, verdict)
    PROVE  /\ worker'[w].pc = "loop"
           /\ worker'[w].task = worker[w].task
           /\ worker'[w].at = s
           /\ worker'[w].result = verdict
BY DEF Loop, IdleWorker, TypeInv, TypeOK

LEMMA PendKeeps ==
    ASSUME TypeInv, NEW w \in Workers, NEW job, Pend(w, job)
    PROVE  /\ worker'[w].pc = "record"
           /\ worker'[w].task = worker[w].task
           /\ worker'[w].at = worker[w].at
BY DEF Pend, TypeInv, TypeOK, WorkerStates

LEMMA RaiseKeeps ==
    ASSUME TypeInv, NEW w \in Workers, NEW s, LauncherRaises(w, s) \/ FailStep(w)
    PROVE  /\ worker'[w].task = worker[w].task
           /\ worker'[w].at = worker[w].at
           /\ \/ worker'[w].pc = "record"
              \/ worker'[w].pc = "fail"
BY PendKeeps, GotoKeeps DEF LauncherRaises, FailStep

(* A step run is never taken back. *)
LEMMA StepsStayOpen ==
    ASSUME TypeInv, NEW w \in Workers, WorkerStep(w), NEW s \in Steps, step[s] # "ABSENT"
    PROVE  step'[s] # "ABSENT"
<1> USE DEF stepVars
<1>1. step \in [Steps -> StepStates]
  BY DEF TypeInv, TypeOK
<1>2. CASE UNCHANGED step
  BY <1>2
<1>3. ASSUME NEW r, NEW status \in {"RUNNING", "PASSED", "FAILED"},
             step' = [step EXCEPT ![r] = status]
      PROVE  step'[s] # "ABSENT"
  BY <1>1, <1>3
<1>4. CASE FailStep(w) \/ \E r \in Steps : LauncherRaises(w, r)
  BY <1>2, <1>3, <1>4 DEF FailStep, LauncherRaises, Pend
<1>5. CASE StartStep(w)
  BY <1>2, <1>3, <1>5 DEF StartStep
<1>6. CASE RunLocalStep(w)
  BY <1>3, <1>6 DEF RunLocalStep, LocalOutcomes
<1>7. CASE RaiseInStep(w)
  BY <1>2, <1>3, <1>7 DEF RaiseInStep
<1>8. CASE PrepareLaunch(w)
  BY <1>2, <1>4, <1>8 DEF PrepareLaunch, Pend
<1>9. CASE ClaimAttempt(w)
  BY <1>2, <1>3, <1>9 DEF ClaimAttempt, Pend, LauncherRaises, FailStep
<1>10. CASE RecordDispatch(w)
  BY <1>2, <1>3, <1>10 DEF RecordDispatch, Pend, LauncherRaises, FailStep
<1>11. CASE RecordPending(w)
  BY <1>11 DEF RecordPending
<1>12. CASE IssueSignedCredential(w)
  BY <1>2, <1>3, <1>12 DEF IssueSignedCredential
<1>13. CASE \/ BeginInitial(w) \/ CheckCancelled(w) \/ AllocateAttempt(w)
            \/ CallProvider(w) \/ SaveOutcome(w) \/ EmitFinalized(w)
            \/ TaskRaises(w) \/ MarkRunFailed(w) \/ \E t \in Tasks : BeginResume(w, t)
            \/ ValidatorRaises(w) \/ InspectAttempt(w) \/ CloseUnlaunched(w)
  BY <1>2, <1>13 DEF BeginInitial, CheckCancelled, AllocateAttempt, CallProvider,
                     SaveOutcome, EmitFinalized, TaskRaises, MarkRunFailed, BeginResume,
                     ValidatorRaises, FailStep, InspectAttempt, CloseUnlaunched
<1>14. CASE FinalizeFailedStep(w)
  BY <1>3, <1>14 DEF FinalizeFailedStep
<1> QED BY <1>5, <1>6, <1>7, <1>8, <1>9, <1>10, <1>11, <1>12, <1>13, <1>14
        DEF WorkerStep

LEMMA HandlersKeepSteps ==
    ASSUME TypeInv, NEW a \in Attempts, HandlerStep(a), NEW s \in Steps, step[s] # "ABSENT"
    PROVE  step'[s] # "ABSENT"
<1>1. step \in [Steps -> StepStates]
  BY DEF TypeInv, TypeOK
<1>2. \/ UNCHANGED step
      \/ \E outcome \in StepTerminal : step' = [step EXCEPT ![StepOf(a)] = outcome]
  BY DEF HandlerStep, EnqueueNextStep, ResumeAfterCallback, FinalizeAfterCallback,
         RejectCallback, PostponeCallback, AbortCallback, Complete, StepTerminal, stepVars
<1> QED BY <1>1, <1>2 DEF StepTerminal

LEMMA StepsOnlyOpen ==
    ASSUME TypeInv, [Next]_vars, NEW s \in Steps, step[s] # "ABSENT"
    PROVE  step'[s] # "ABSENT"
BY OnlyTheyMoveSteps, StepsStayOpen, HandlersKeepSteps

-----------------------------------------------------------------------------
(* A completed step is followed by the next *)

(* What one step of worker w leaves of its obligation and of the queue. *)
LEMMA WorkerAdvances ==
    ASSUME TypeInv, DecisionInv, NEW w \in Workers, Ahead(w),
           WorkerStep(w) \/ CrashWorker(w), run = "RUNNING", run' = "RUNNING"
    PROVE  /\ Ahead(w)'
           /\ \/ queue \subseteq queue'
              \/ /\ queue' = queue \ {worker[w].task}
                 /\ worker[w].task \in 1 .. (NumSteps - 1) =>
                        step'[worker[w].task + 1] # "ABSENT"
<1> DEFINE t == worker[w].task
           Inner == t \in 1 .. (NumSteps - 1)
           Opened == step[t + 1] # "ABSENT"
           Kept == queue \subseteq queue'
<1>1. /\ worker[w].task \in Tasks /\ worker[w].at \in 1 .. (NumSteps + 1)
      /\ NumSteps \in Nat /\ Steps = 1 .. NumSteps
  BY StepsAssumption DEF TypeInv, TypeOK, WorkerStates
<1>2. Inner => t \in Nat /\ t + 1 \in Steps /\ t + 1 <= NumSteps
  BY <1>1
<1>3. Inner /\ Opened /\ WorkerStep(w) => step'[t + 1] # "ABSENT"
  BY <1>2, StepsStayOpen
<1>4. ASSUME worker'[w].pc \in {"idle"} \cup Giving PROVE Ahead(w)'
  BY <1>4 DEF Ahead
(* Past its first step: the step stays open, and so the worker ahead. *)
<1>5. ASSUME WorkerStep(w), worker'[w].task = t, UNCHANGED queue,
             worker'[w].at \in {worker[w].at, worker[w].at + 1},
             Inner => Opened /\ worker[w].at > t
      PROVE  Ahead(w)' /\ Kept
  <2>1. Inner => worker'[w].at > t /\ step'[t + 1] # "ABSENT"
    BY <1>1, <1>3, <1>5
  <2> QED BY <1>5, <2>1 DEF Ahead
<1>6. worker[w].pc \notin {"idle", "loop", "start"} \cup Giving
        => (Inner => Opened /\ worker[w].at > t)
  BY DEF Ahead, Fresh
<1>7. CASE CrashWorker(w)
  <2>1. worker'[w].pc = "idle" /\ Kept
    BY <1>7, IdleIsState DEF CrashWorker, TypeInv, TypeOK
  <2> QED BY <1>4, <2>1
<1>8. ~BeginInitial(w) /\ ~SaveOutcome(w) /\ ~MarkRunFailed(w)
        /\ ~IssueSignedCredential(w) /\ ~EmitFinalized(w)
  BY DEF BeginInitial, Startable, SaveOutcome, MarkRunFailed,
         IssueSignedCredential, EmitFinalized, DecisionInv, RunTerminal
<1>9. ASSUME NEW u \in Tasks, BeginResume(w, u) PROVE Ahead(w)' /\ Kept
  <2> DEFINE r1 == [IdleWorker EXCEPT !.pc = "loop"]
             r2 == [r1 EXCEPT !.task = u]
             r  == [r2 EXCEPT !.at = u + 1]
  <2>1. worker' = [worker EXCEPT ![w] = r] /\ UNCHANGED queue
    BY <1>9 DEF BeginResume, ResumeAt
  <2>2. r.pc = "loop" /\ r.task = u /\ r.at = u + 1 /\ r.result = "none"
    BY DEF IdleWorker
  <2> HIDE DEF r
  <2>3. worker'[w] = r
    BY <2>1 DEF TypeInv, TypeOK
  <2>4. u \in Nat
    BY <1>1 DEF Tasks
  <2> QED BY <2>1, <2>2, <2>3, <2>4 DEF Ahead, Fresh
<1>10. CASE CheckCancelled(w)
  <2>1. worker[w].pc = "loop" /\ UNCHANGED step /\ WorkerStep(w)
    BY <1>10 DEF CheckCancelled, stepVars, WorkerStep
  <2>2. ASSUME worker[w].result = "pending", Acknowledge(w)
        PROVE  /\ Ahead(w)'
               /\ Kept \/ (queue' = queue \ {t} /\ (Inner => step'[t + 1] # "ABSENT"))
    <3>1. Inner => step[t + 1] # "ABSENT"
      BY <2>1, <2>2 DEF Ahead, Fresh, Giving
    <3>2. Ahead(w)'
      BY <1>4, <2>2, AcknowledgePc
    <3> QED BY <2>1, <2>2, <3>1, <3>2 DEF Acknowledge
  <2>3. ASSUME worker[w].result = "failed" \/ worker[w].at > NumSteps,
               worker[w].result # "pending", Goto(w, "save"), UNCHANGED queue
        PROVE  Ahead(w)' /\ Kept
    <3>1. Inner => Opened /\ worker[w].at > t
      BY <1>1, <2>1, <2>3 DEF Ahead, Fresh, Giving
    <3> QED BY <1>5, <2>1, <2>3, <3>1, GotoKeeps
  <2>4. ASSUME worker[w].result = "none", Goto(w, "start"), UNCHANGED queue
        PROVE  Ahead(w)' /\ Kept
    BY <2>1, <2>4, GotoKeeps DEF Ahead, Fresh, Giving
  <2> QED BY <1>10, <2>2, <2>3, <2>4 DEF CheckCancelled
<1>11. CASE StartStep(w)
  <2>1. worker[w].pc = "start" /\ UNCHANGED queue /\ WorkerStep(w)
    BY <1>11 DEF StartStep, WorkerStep
  <2>2. Inner => worker[w].at > t /\ (worker[w].at = t + 1 \/ Opened)
    BY <2>1 DEF Ahead, Fresh, Giving
  <2>3. ASSUME step' = [step EXCEPT ![worker[w].at] = "RUNNING"], Goto(w, "execute")
        PROVE  Ahead(w)'
    <3>1. Inner => step'[t + 1] # "ABSENT"
      BY <1>2, <1>3, <2>1, <2>2, <2>3 DEF TypeInv, TypeOK
    <3> QED BY <2>2, <2>3, <3>1, GotoKeeps DEF Ahead
  <2>4. ASSUME step[worker[w].at] # "ABSENT", NEW verdict, NEW s \in {worker[w].at, worker[w].at + 1},
               Loop(w, s, verdict)
        PROVE  Ahead(w)'
    <3>1. Inner => Opened /\ worker[w].at > t
      BY <2>2, <2>4
    <3> QED BY <1>5, <2>1, <2>4, <3>1, LoopKeeps
  <2> QED BY <1>11, <2>1, <2>3, <2>4 DEF StartStep
<1>12. CASE RunLocalStep(w)
  BY <1>5, <1>6, <1>12, LoopKeeps DEF RunLocalStep, WorkerStep, Giving
<1>13. CASE RaiseInStep(w)
  BY <1>4, <1>13, LeavePc DEF RaiseInStep, Giving
<1>14. CASE AllocateAttempt(w)
  <2>1. worker'[w].task = t /\ worker'[w].at = worker[w].at
    <3>1. \/ Loop(w, worker[w].at, "pending")
          \/ \E a \in Attempts : worker' = [worker EXCEPT ![w].pc = "prepare",
                                                          ![w].own = NumberOf(a)]
      BY <1>14 DEF AllocateAttempt, ActiveAttempts
    <3> QED BY <3>1, LoopKeeps DEF TypeInv, TypeOK, WorkerStates
  <2> QED BY <1>5, <1>6, <1>14, <2>1 DEF AllocateAttempt, WorkerStep, Giving
<1>15. CASE PrepareLaunch(w)
  <2>1. worker'[w].task = t /\ worker'[w].at = worker[w].at
    <3>1. \/ FailStep(w) \/ Pend(w, TRUE) \/ (\E s \in Steps : LauncherRaises(w, s))
          \/ \E a \in Attempts : worker' = [worker EXCEPT ![w].pc = "claim", ![w].target = a]
      BY <1>15 DEF PrepareLaunch, ActiveAttempts
    <3>2. ASSUME NEW a \in Attempts,
                 worker' = [worker EXCEPT ![w].pc = "claim", ![w].target = a]
          PROVE  worker'[w].task = t /\ worker'[w].at = worker[w].at
      BY <3>2 DEF TypeInv, TypeOK, WorkerStates
    <3> QED BY <3>1, <3>2, RaiseKeeps, PendKeeps
  <2> QED BY <1>5, <1>6, <1>15, <2>1 DEF PrepareLaunch, WorkerStep, Giving
<1>16. CASE ClaimAttempt(w)
  <2>1. worker'[w].task = t /\ worker'[w].at = worker[w].at
    <3>1. \/ LauncherRaises(w, StepOf(worker[w].target)) \/ Pend(w, TRUE)
          \/ \E a \in Attempts : worker' = [worker EXCEPT ![w].pc = "call", ![w].target = a]
      BY <1>16 DEF ClaimAttempt, ActiveAttempts
    <3>2. ASSUME NEW a \in Attempts,
                 worker' = [worker EXCEPT ![w].pc = "call", ![w].target = a]
          PROVE  worker'[w].task = t /\ worker'[w].at = worker[w].at
      BY <3>2 DEF TypeInv, TypeOK, WorkerStates
    <3> QED BY <3>1, <3>2, RaiseKeeps, PendKeeps
  <2> QED BY <1>5, <1>6, <1>16, <2>1 DEF ClaimAttempt, WorkerStep, Giving
<1>17. CASE CallProvider(w)
  BY <1>5, <1>6, <1>17, GotoKeeps DEF CallProvider, WorkerStep, Giving
<1>18. CASE RecordDispatch(w)
  <2>1. worker'[w].task = t /\ worker'[w].at = worker[w].at
    <3>1. \/ \E job \in BOOLEAN :
                worker' = [worker EXCEPT ![w].pc = "record", ![w].job = job]
          \/ LauncherRaises(w, StepOf(worker[w].target))
      BY <1>18 DEF RecordDispatch
    <3>2. ASSUME NEW job,
                 worker' = [worker EXCEPT ![w].pc = "record", ![w].job = job]
          PROVE  worker'[w].task = t /\ worker'[w].at = worker[w].at
      BY <3>2 DEF TypeInv, TypeOK, WorkerStates
    <3> QED BY <3>1, <3>2, RaiseKeeps
  <2> QED BY <1>5, <1>6, <1>18, <2>1 DEF RecordDispatch, WorkerStep, Giving
<1>19. CASE RecordPending(w)
  BY <1>5, <1>6, <1>19, LoopKeeps DEF RecordPending, WorkerStep, Giving
<1>20. CASE TaskRaises(w)
  <2>1. Goto(w, "mark") /\ UNCHANGED queue
    BY <1>20 DEF TaskRaises, RunTerminal
  <2> QED BY <1>4, <2>1, GotoKeeps DEF Giving
<1>21. CASE ValidatorRaises(w)
  BY <1>5, <1>6, <1>21, RaiseKeeps DEF ValidatorRaises, WorkerStep, Giving
<1>22. CASE InspectAttempt(w) \/ CloseUnlaunched(w)
  BY <1>5, <1>6, <1>22, GotoKeeps
  DEF InspectAttempt, CloseUnlaunched, WorkerStep, Giving
<1>23. CASE FinalizeFailedStep(w)
  BY <1>5, <1>6, <1>23, LoopKeeps DEF FinalizeFailedStep, WorkerStep, Giving
<1> QED
  BY <1>7, <1>8, <1>9, <1>10, <1>11, <1>12, <1>13, <1>14, <1>15, <1>16, <1>17,
     <1>18, <1>19, <1>20, <1>21, <1>22, <1>23 DEF WorkerStep

(* Tasks leave the queue only by acknowledgement, or where they are stale. *)
LEMMA QueueMoves ==
    ASSUME TypeInv, [Next]_vars, run = "RUNNING"
    PROVE  \/ queue \subseteq queue'
           \/ queue' = queue \ {0}
           \/ \E w \in Workers : WorkerStep(w)
<1>1. CASE UNCHANGED vars
  BY <1>1 DEF vars
<1>2. ASSUME LaunchStep \/ CancelRun \/ FollowCancel \/ WatchdogStep
      PROVE  queue \subseteq queue'
  BY <1>2 DEF LaunchStep, EnqueueRun, EnqueueRaises, FailLaunch, CancelRun,
              FollowCancel, WatchdogStep, SelectStuckRun, RecoverCallback,
              RecoverReturns, ReconcileFailed, ReconcileFailedAttempt,
              TimeOutRun, FollowTimeout
<1>3. ASSUME NEW t \in Tasks, SkipDelivery(t) PROVE queue' = queue \ {0}
  BY <1>3 DEF SkipDelivery, Startable
<1>4. ASSUME NEW a \in Attempts, ProviderEnds(a) \/ ReceiveCallback(a) \/ HandlerStep(a)
      PROVE  queue \subseteq queue'
  BY <1>4 DEF ProviderEnds, ReceiveCallback, HandlerStep, EnqueueNextStep,
              ResumeAfterCallback, FinalizeAfterCallback, RejectCallback,
              PostponeCallback, AbortCallback
<1>5. ASSUME NEW w \in Workers, CrashWorker(w) PROVE queue \subseteq queue'
  BY <1>5 DEF CrashWorker
<1> QED BY <1>1, <1>2, <1>3, <1>4, <1>5 DEF Next

LEMMA FollowedStep ==
    ASSUME TypeInv, DecisionInv, ResumeInv, [Next]_vars,
           run = "RUNNING", run' = "RUNNING",
           NEW s \in 1 .. (NumSteps - 1), FollowedUp(s)
    PROVE  FollowedUp(s)'
<1>1. s \in Steps /\ s + 1 \in Steps /\ s # 0
  BY StepsAssumption
<1>2. step[s + 1] # "ABSENT" => step'[s + 1] # "ABSENT"
  BY <1>1, StepsOnlyOpen
<1>3. ASSUME NEW w \in Workers, WorkerStep(w) PROVE FollowedUp(s)'
  <2>1. Ahead(w)
    BY DEF ResumeInv
  <2>2. \/ queue \subseteq queue'
        \/ /\ queue' = queue \ {worker[w].task}
           /\ worker[w].task \in 1 .. (NumSteps - 1) =>
                  step'[worker[w].task + 1] # "ABSENT"
    BY <1>3, <2>1, WorkerAdvances
  <2> QED BY <1>2, <2>2 DEF FollowedUp
<1> QED BY <1>1, <1>2, <1>3, QueueMoves DEF FollowedUp

LEMMA OwedStep ==
    ASSUME TypeInv, DecisionInv, AttemptsTypeOK, ResumeInv, [Next]_vars,
           run = "RUNNING", run' = "RUNNING", NEW a \in Attempts, Owed(a)'
    PROVE  FollowedUp(StepOf(a))'
<1> DEFINE s == StepOf(a)
<1>1. s \in 1 .. (NumSteps - 1)
  BY AttemptParts, StepsAssumption DEF Owed
<1>2. CASE Owed(a)
  BY <1>1, <1>2, FollowedStep DEF ResumeInv
<1>3. ASSUME EnqueueNextStep(a) PROVE FollowedUp(s)'
  BY <1>3 DEF EnqueueNextStep, FollowedUp
<1>4. ASSUME ~Owed(a), ResumeAfterCallback(a) PROVE FollowedUp(s)'
  BY <1>4 DEF ResumeAfterCallback, Owed, FollowedUp, RunActive
<1>5. ASSUME NEW outcome \in StepTerminal PROVE ~FinalizeAfterCallback(a, outcome)
  BY <1>1 DEF FinalizeAfterCallback, StepTerminal, OutcomeOf, RunActive
<1>6. CASE attempt'[a] = "COMPLETED" /\ ~Owed(a)
  <2>1. Completing(a)
    BY <1>1, <1>6, OnlyCallbacksComplete DEF Owed
  <2> QED BY <1>4, <1>5, <1>6, <2>1 DEF Completing
<1>7. CASE handler'[a] = "resuming" /\ ~Owed(a)
  <2>1. handler[a] # "resuming"
    BY <1>1, <1>7 DEF Owed
  <2>2. handler \in [Attempts -> {"idle", "processing", "resuming"}]
    BY DEF TypeInv, TypeOK
  <2>3. ASSUME NEW b \in Attempts, AdmitCallback(b) PROVE FALSE
    BY <1>7, <2>1, <2>2, <2>3 DEF AdmitCallback
  <2>4. ASSUME NEW b \in Attempts, HandlerStep(b) PROVE EnqueueNextStep(a)
    BY <1>7, <2>1, <2>2, <2>4
    DEF HandlerStep, EnqueueNextStep, ResumeAfterCallback, FinalizeAfterCallback,
        Complete, RejectCallback, PostponeCallback, AbortCallback, CloseReceipt
  <2> QED BY <1>3, <1>7, <2>1, <2>3, <2>4, OnlyCallbacksReceive DEF callbackVars
<1> QED BY <1>2, <1>6, <1>7 DEF Owed

LEMMA AheadStep ==
    ASSUME TypeInv, DecisionInv, ResumeInv, [Next]_vars,
           run = "RUNNING", run' = "RUNNING", NEW w \in Workers
    PROVE  Ahead(w)'
<1>1. Ahead(w)
  BY DEF ResumeInv
<1>2. CASE worker'[w] = worker[w]
  <2>1. ASSUME worker[w].task \in 1 .. (NumSteps - 1), step[worker[w].task + 1] # "ABSENT"
        PROVE  step'[worker[w].task + 1] # "ABSENT"
    BY <2>1, StepsOnlyOpen, StepsAssumption
  <2> QED BY <1>1, <1>2, <2>1 DEF Ahead, Fresh
<1>3. CASE WorkerStep(w) \/ CrashWorker(w)
  BY <1>1, <1>3, WorkerAdvances
<1>4. ASSUME NEW v \in Workers, v # w, WorkerStep(v) \/ CrashWorker(v)
      PROVE  worker'[w] = worker[w]
  BY <1>4, WorkerPcs
<1> QED BY <1>2, <1>3, <1>4, OnlyWorkersMoveWorkers

LEMMA ResumeStep ==
    ASSUME TypeInv, DecisionInv, AttemptsTypeOK, UntouchedInv, ResumeInv, [Next]_vars
    PROVE  ResumeInv'
<1> SUFFICES ASSUME run' = "RUNNING" PROVE ResumeInv'
  BY DEF ResumeInv
<1>1. run = "RUNNING" \/ run = "PENDING"
  BY EveryRunMoves DEF RunMoves, RunTerminal
<1>2. CASE run = "RUNNING"
  BY <1>2, OwedStep, AheadStep DEF ResumeInv
<1>3. CASE run = "PENDING"
  <2>1. \A a \in Attempts : ~Owed(a)'
    BY <1>3, PendingStep DEF Owed, UntouchedInv
  <2>2. ASSUME NEW w \in Workers, NEW v \in Workers, BeginInitial(v) PROVE Ahead(w)'
    <3> DEFINE r == [IdleWorker EXCEPT !.pc = "loop"]
    <3>1. worker' = [worker EXCEPT ![v] = r]
      BY <2>2 DEF BeginInitial
    <3>2. r.task = 0
      BY DEF IdleWorker
    <3> HIDE DEF r
    <3>3. worker'[w].pc = "idle" \/ worker'[w].task = 0
      BY <1>3, <3>1, <3>2 DEF UntouchedInv, TypeInv, TypeOK
    <3> QED BY <3>3 DEF Ahead
  <2>3. ASSUME NEW w \in Workers, UNCHANGED worker PROVE Ahead(w)'
    BY <1>3, <2>3 DEF UntouchedInv, Ahead
  <2> QED BY <1>3, <2>1, <2>2, <2>3, PendingStep, OnlyWorkersMoveWorkers DEF ResumeInv
<1> QED BY <1>1, <1>2, <1>3

(* Whatever dies, comes twice or overtakes: while a run is running, each    *)
(* completed step is followed by an owed resume task or by the next step.   *)
(* The callback hands over before it commits, and a worker that took the    *)
(* task gives it back unless it has opened the step.                        *)
THEOREM ResumeNeverLost == Spec => []NoLostResume
<1> DEFINE Inv == DecisionInv /\ UntouchedInv /\ ResumeInv
<1>1. Init => Inv
  BY DEF Init, AttemptsInit, IdleWorker, DecisionInv, UntouchedInv, ResumeInv
<1>2. EngineInv /\ Inv /\ [Next]_vars => Inv'
  BY DecisionStep, UntouchedStep, ResumeStep DEF EngineInv, LedgerInv
<1>3. EngineInv /\ Inv => NoLostResume
  BY DEF ResumeInv, Owed, FollowedUp, NoLostResume
<1> QED BY <1>1, <1>2, <1>3, EngineSafe, PTL DEF Spec
===============================================================================
