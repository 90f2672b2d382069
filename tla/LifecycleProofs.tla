--------------------------- MODULE LifecycleProofs ---------------------------
(***************************************************************************)
(* What a run does when nobody else decides about it: the transport is     *)
(* orderly, and there is no cancellation, no deadline and no launch that   *)
(* fails.  Provider calls may fail, callbacks be rejected, and tasks end   *)
(* in an error.  Then a run is decided once, and the engine implements the *)
(* life cycle of RunLifecycle.tla.                                         *)
(***************************************************************************)
EXTENDS OrderlyProofs

Undisturbed ==
    Environment \subseteq {"dispatch_error", "bad_callback", "task_error"}

(* Nobody drives a run that is decided, but to issue its credentials; what  *)
(* is released, or about to be, is driven by nobody.                        *)
CalmInv ==
    /\ launch # "failed" /\ canceller = "idle" /\ watchdog.pc = "idle"
    /\ \A w \in Workers : worker[w].pc = "canceled" => run = "CANCELED"
    /\ \A w \in Workers : worker[w].pc = "issue" => run = "SUCCEEDED"
    /\ \A w \in Workers : worker[w].pc = "mark" => worker[w].result # "pending"
    /\ run \in RunTerminal =>
           /\ \A w \in Workers : Driving(w) => worker[w].pc = "issue"
           /\ \A a \in Attempts : handler[a] = "idle"
    /\ released \/ (\E w \in Workers : worker[w].pc = "emit") => NoDriver
    /\ \A s \in Steps : Kind[s] = "credential" /\ step[s] = "FAILED" =>
           run \in RunTerminal /\ NoDriver

(* The whole of what is known of such a run, and of its next state. *)
RunInv == KnownInv /\ TokenInv /\ ReceiptInv

LEMMA UndisturbedIsOrderly == Undisturbed => Orderly
BY DEF Undisturbed, Orderly

LEMMA RunInvStep ==
    ASSUME Undisturbed, RunInv, [Next]_vars
    PROVE  RunInv'
<1>1. KnownInv'
  <2>1. EngineInv' /\ DecisionInv' /\ UntouchedInv' /\ LaunchInv'
    BY KnownParts, EngineInvStep, DecisionStep, UntouchedStep, LaunchStepKeeps
       DEF RunInv, KnownInv
  <2> QED BY <2>1 DEF KnownInv
<1> QED BY <1>1, UndisturbedIsOrderly, TokenStep, ReceiptStep DEF RunInv

LEMMA RunInvParts ==
    ASSUME RunInv
    PROVE  /\ KnownInv /\ TokenInv /\ ReceiptInv /\ TypeInv /\ AttemptsTypeOK
           /\ LedgerInv /\ DecisionInv /\ UntouchedInv /\ LaunchInv
BY KnownParts DEF RunInv

(* The hands that could decide about the run stay idle. *)
LEMMA HandsStayIdle ==
    ASSUME Undisturbed, RunInv, CalmInv, [Next]_vars
    PROVE  /\ launch' # "failed" /\ canceller' = "idle" /\ watchdog'.pc = "idle"
           /\ ~CancelRun /\ ~FollowCancel /\ ~WatchdogStep /\ (LaunchStep => EnqueueRun)
<1>1. launch # "failed" /\ canceller = "idle" /\ watchdog.pc = "idle"
  BY DEF CalmInv
<1>2. ~CancelRun /\ ~FollowCancel /\ ~WatchdogStep /\ (LaunchStep => EnqueueRun)
  BY <1>1 DEF Undisturbed, CancelRun, FollowCancel, WatchdogStep, SelectStuckRun,
         RecoverCallback, RecoverReturns, ReconcileFailed, ReconcileFailedAttempt,
         TimeOutRun, FollowTimeout, LaunchStep, EnqueueRaises, FailLaunch
<1>3. ASSUME NEW w \in Workers, WorkerStep(w) \/ CrashWorker(w)
      PROVE  UNCHANGED <<launch, canceller, watchdog>>
  BY <1>3 DEF WorkerStep, BeginInitial, CheckCancelled, StartStep, RunLocalStep,
         RaiseInStep, AllocateAttempt, PrepareLaunch, ClaimAttempt,
         CallProvider, RecordDispatch, RecordPending, SaveOutcome,
         IssueSignedCredential, EmitFinalized, BeginResume, CrashWorker,
         TaskRaises, MarkRunFailed, ValidatorRaises, InspectAttempt, CloseUnlaunched,
         FinalizeFailedStep, stopVars
<1>4. ASSUME NEW a \in Attempts, ProviderEnds(a) \/ ReceiveCallback(a) \/ HandlerStep(a)
      PROVE  UNCHANGED <<launch, canceller, watchdog>>
  BY <1>4 DEF ProviderEnds, ReceiveCallback, HandlerStep, EnqueueNextStep,
         ResumeAfterCallback, FinalizeAfterCallback, Complete, RejectCallback,
         PostponeCallback, AbortCallback, stopVars
<1>5. ASSUME (\E t \in Tasks : SkipDelivery(t)) \/ EnqueueRun
      PROVE  launch' \in {launch, "done"} /\ UNCHANGED <<canceller, watchdog>>
  BY <1>5 DEF SkipDelivery, EnqueueRun, stopVars
<1>6. UNCHANGED vars => UNCHANGED <<launch, canceller, watchdog>>
  BY DEF vars
<1> QED BY <1>1, <1>2, <1>3, <1>4, <1>5, <1>6 DEF Next

-----------------------------------------------------------------------------
(* A decided run *)

(* Nobody who has left the step to the provider marks the run. *)
LEMMA MarkersDrive ==
    ASSUME Undisturbed, RunInv, CalmInv, [Next]_vars, NEW w \in Workers,
           worker'[w].pc = "mark"
    PROVE  worker'[w].result # "pending"
<1>1. TypeInv /\ DecisionInv /\ TokenInv
  BY RunInvParts
<1>2. CASE worker'[w] = worker[w]
  BY <1>2 DEF CalmInv
<1>3. CASE WorkerStep(w)
  <2>1. TaskRaises(w)
    BY <1>1, <1>3, WorkerPcs
  <2>2. Goto(w, "mark") /\ run \notin RunTerminal
    BY <1>1, <2>1, UndisturbedIsOrderly, AcknowledgeFields DEF TaskRaises
  <2>3. worker[w].pc \in {"loop", "save", "raised"}
          /\ (worker[w].pc = "loop" => worker[w].result # "pending")
    BY <1>1, <2>1, <2>2 DEF TaskRaises, Unguarded, Undisturbed, DecisionInv, TokenInv
  <2>4. worker[w].pc \in {"save", "raised"} => worker[w].result # "pending"
    BY <1>1 DEF TokenInv, Driving, Placed
  <2> QED BY <1>1, <2>2, <2>3, <2>4, GotoFields
<1>4. \A v \in Workers : ~CrashWorker(v)
  BY DEF CrashWorker, Undisturbed
<1> QED BY <1>1, <1>2, <1>3, <1>4, OnlyWorkersMoveWorkers, WorkerPcs

(* The steps a decided run still takes. *)
LEMMA OverSteps ==
    ASSUME Undisturbed, RunInv, CalmInv, run \in RunTerminal, NEW w \in Workers,
           WorkerStep(w)
    PROVE  /\ UNCHANGED <<attempt, handler, receipt>>
           /\ \/ Driving(w) /\ IssueSignedCredential(w)
              \/ UNCHANGED <<run, step>> /\ ~Driving(w)'
                   /\ worker'[w].pc \notin {"emit", "canceled"}
              \/ UNCHANGED <<run, step>> /\ ~Driving(w)' /\ run = "CANCELED"
                   /\ worker'[w].pc \in {"emit", "canceled"}
           /\ \/ UNCHANGED released
              \/ worker[w].pc = "emit" /\ released'
<1>1. TypeInv /\ DecisionInv
  BY RunInvParts
<1>2. Driving(w) => worker[w].pc = "issue"
  BY DEF CalmInv
<1>3. ASSUME Acknowledge(w) PROVE ~Driving(w)' /\ worker'[w].pc \notin {"emit", "canceled"}
  BY <1>1, <1>3, UndisturbedIsOrderly, AcknowledgeFields DEF Driving
<1>4. ASSUME NEW pc \in {"emit", "canceled"}, Leave(w, pc) PROVE ~Driving(w)' /\ worker'[w].pc = pc
  BY <1>1, <1>4, LeaveFields DEF Driving
<1>5. worker[w].pc \in {"idle", "canceled", "emit", "issue"}
        \/ (worker[w].pc = "loop" /\ worker[w].result = "pending")
  BY <1>2 DEF Driving, CalmInv
<1>6. CASE worker[w].pc = "idle"
  <2>1. ~BeginInitial(w) /\ \A t \in Tasks : ~BeginResume(w, t)
    BY DEF BeginInitial, BeginResume, Startable, RunTerminal
  <2> QED BY <1>6, <2>1 DEF WorkerStep, CheckCancelled, StartStep, RunLocalStep,
         RaiseInStep, AllocateAttempt, PrepareLaunch, ClaimAttempt, CallProvider,
         RecordDispatch, RecordPending, SaveOutcome, IssueSignedCredential,
         EmitFinalized, TaskRaises, Unguarded, MarkRunFailed, ValidatorRaises,
         InspectAttempt, CloseUnlaunched, FinalizeFailedStep
<1>7. CASE worker[w].pc = "loop" /\ worker[w].result = "pending"
  <2>1. CheckCancelled(w)
    BY <1>7 DEF Undisturbed, WorkerStep, BeginInitial, BeginResume, StartStep, RunLocalStep,
         RaiseInStep, AllocateAttempt, PrepareLaunch, ClaimAttempt, CallProvider,
         RecordDispatch, RecordPending, SaveOutcome, IssueSignedCredential,
         EmitFinalized, TaskRaises, Unguarded, MarkRunFailed, ValidatorRaises,
         InspectAttempt, CloseUnlaunched, FinalizeFailedStep
  <2>2. (run = "CANCELED" /\ Leave(w, "canceled")) \/ Acknowledge(w)
    BY <1>7, <2>1 DEF CheckCancelled
  <2> QED BY <1>3, <1>4, <2>1, <2>2 DEF CheckCancelled, runVars, stepVars, callbackVars, attemptVars
<1>8. CASE worker[w].pc \in {"canceled", "emit", "issue"}
  <2>1. SaveOutcome(w) \/ IssueSignedCredential(w) \/ EmitFinalized(w) \/ TaskRaises(w)
    BY <1>8 DEF WorkerStep, BeginInitial, BeginResume, CheckCancelled, StartStep,
         RunLocalStep, RaiseInStep, AllocateAttempt, PrepareLaunch, ClaimAttempt,
         CallProvider, RecordDispatch, RecordPending, MarkRunFailed, ValidatorRaises,
         InspectAttempt, CloseUnlaunched, FinalizeFailedStep
  <2>2. CASE SaveOutcome(w)
    <3>1. worker[w].pc = "canceled" /\ run = "CANCELED" /\ run' = "CANCELED" /\ Leave(w, "emit")
      BY <1>8, <2>2 DEF SaveOutcome, CalmInv
    <3> QED BY <1>4, <2>2, <3>1 DEF SaveOutcome, stepVars, callbackVars, attemptVars
  <2>3. CASE IssueSignedCredential(w)
    BY <2>3 DEF IssueSignedCredential, Driving, callbackVars, attemptVars
  <2>4. CASE EmitFinalized(w)
    BY <1>3, <2>4 DEF EmitFinalized, stepVars, callbackVars, attemptVars
  <2>5. CASE TaskRaises(w)
    BY <1>3, <2>5 DEF TaskRaises, runVars, stepVars, callbackVars, attemptVars
  <2> QED BY <2>1, <2>2, <2>3, <2>4, <2>5
<1> QED BY <1>5, <1>6, <1>7, <1>8

(* A decided run stays as it is, except for what its credentials do. *)
LEMMA OverOthers ==
    ASSUME Undisturbed, RunInv, CalmInv, run \in RunTerminal, [Next]_vars,
           \A w \in Workers : ~WorkerStep(w)
    PROVE  UNCHANGED <<run, released, step, worker, attempt, handler>>
<1>1. \A a \in Attempts : ~HandlerStep(a)
  BY DEF CalmInv, HandlerStep, EnqueueNextStep, ResumeAfterCallback,
         FinalizeAfterCallback, RejectCallback, PostponeCallback, AbortCallback
<1>2. ASSUME NEW a \in Attempts, ProviderEnds(a) \/ ReceiveCallback(a)
      PROVE  UNCHANGED <<run, released, step, worker, attempt, handler>>
  BY <1>2 DEF ProviderEnds, ReceiveCallback, AdmitCallback, runVars, stepVars,
         callbackVars, attemptVars
<1>3. ASSUME (\E t \in Tasks : SkipDelivery(t)) \/ EnqueueRun \/ UNCHANGED vars
      PROVE  UNCHANGED <<run, released, step, worker, attempt, handler>>
  BY <1>3 DEF SkipDelivery, EnqueueRun, vars, runVars, stepVars, callbackVars, attemptVars
<1>4. \A w \in Workers : ~CrashWorker(w)
  BY DEF CrashWorker, Undisturbed
<1> QED BY <1>1, <1>2, <1>3, <1>4, HandsStayIdle DEF Next

LEMMA OverStep ==
    ASSUME Undisturbed, RunInv, RunInv', CalmInv, run \in RunTerminal, [Next]_vars
    PROVE  CalmInv'
<1>1. TypeInv /\ DecisionInv /\ TokenInv /\ OneDriver
  BY RunInvParts DEF TokenInv
<1>2. run' \in RunTerminal
  BY <1>1, EveryRunMoves DEF RunMoves, RunTerminal
<1>3. CASE \A w \in Workers : ~WorkerStep(w)
  <2>1. UNCHANGED <<run, released, step, worker, attempt, handler>>
    BY <1>3, OverOthers
  <2>2. (NoDriver => NoDriver') /\ \A w \in Workers : Driving(w)' => Driving(w)
    BY <2>1 DEF NoDriver, Driving
  <2> QED BY <1>2, <2>1, <2>2, HandsStayIdle, MarkersDrive DEF CalmInv
<1>4. ASSUME NEW w \in Workers, WorkerStep(w) PROVE CalmInv'
  <2>1. \A v \in Workers : v # w => worker'[v] = worker[v]
    BY <1>1, <1>4, WorkerPcs
  <2>2. \A v \in Workers : v # w => (Driving(v)' <=> Driving(v))
    BY <2>1 DEF Driving
  <2>3. UNCHANGED <<attempt, handler>>
    BY <1>4, OverSteps
  <2>4. released' => released \/ worker[w].pc = "emit"
    BY <1>4, OverSteps
  <2>5. CASE Driving(w) /\ IssueSignedCredential(w)
    <3>1. worker[w].pc = "issue" /\ worker'[w].pc = "emit"
      BY <1>1, <2>5, GotoFields DEF IssueSignedCredential
    <3>2. \A v \in Workers : v # w => ~Driving(v)
      BY <1>1, <2>5 DEF OneDriver
    <3>3. NoDriver'
      BY <2>2, <3>1, <3>2 DEF NoDriver, Driving
    <3>4. \A v \in Workers : v # w => worker[v].pc \notin {"issue", "canceled"}
      <4>1. \A v \in Workers : worker[v].pc = "issue" => Driving(v)
        BY DEF Driving
      <4> QED BY <3>1, <3>2, <4>1 DEF CalmInv
    <3> QED BY <1>2, <2>1, <2>3, <3>1, <3>3, <3>4, HandsStayIdle, MarkersDrive DEF CalmInv, NoDriver
  <2>6. ASSUME UNCHANGED <<run, step>>, ~Driving(w)',
               worker'[w].pc \in {"emit", "canceled"} => run = "CANCELED"
        PROVE  CalmInv'
    <3>1. NoDriver => NoDriver'
      BY <2>2, <2>6 DEF NoDriver
    <3>2. worker'[w].pc # "issue"
      BY <2>6 DEF Driving
    <3>3. run = "CANCELED" => NoDriver
      BY <1>2 DEF CalmInv, NoDriver, RunTerminal
    <3>4. released' \/ (\E v \in Workers : worker'[v].pc = "emit") => NoDriver'
      BY <2>1, <2>4, <2>6, <3>1, <3>3 DEF CalmInv
    <3>5. \A v \in Workers : Driving(v)' => worker'[v].pc = "issue"
      BY <2>1, <2>2, <2>6 DEF CalmInv
    <3>6. /\ \A v \in Workers : worker'[v].pc = "canceled" => run' = "CANCELED"
          /\ \A v \in Workers : worker'[v].pc = "issue" => run' = "SUCCEEDED"
      BY <2>1, <2>6, <3>2 DEF CalmInv
    <3>7. \A s \in Steps : Kind[s] = "credential" /\ step'[s] = "FAILED" =>
              run' \in RunTerminal /\ NoDriver'
      BY <1>2, <2>6, <3>1 DEF CalmInv
    <3> QED BY <1>2, <2>3, <3>4, <3>5, <3>6, <3>7, HandsStayIdle, MarkersDrive DEF CalmInv
  <2> QED BY <1>4, <2>5, <2>6, OverSteps
<1> QED BY <1>3, <1>4

-----------------------------------------------------------------------------
(* A run that is not decided *)

LEMMA WorkersKeepCredentials ==
    ASSUME TypeInv, AttemptsTypeOK, NEW w \in Workers, WorkerStep(w),
           worker[w].pc # "issue", TokenInv,
           NEW s \in Steps, Kind[s] = "credential", step'[s] = "FAILED"
    PROVE  step[s] = "FAILED"
<1>1. CASE UNCHANGED step
  BY <1>1
<1>2. ASSUME NEW r \in Steps, NEW d, step' = [step EXCEPT ![r] = d],
             d = "FAILED" => Kind[r] # "credential"
      PROVE  step[s] = "FAILED"
  BY <1>2, StepType
<1> QED BY <1>1, <1>2, WorkersMoveSteps

(* Who decides an undecided run. *)
LEMMA WhoDecides ==
    ASSUME Undisturbed, RunInv, CalmInv, run \in RunActive, run' \in RunTerminal, [Next]_vars
    PROVE  \/ \E w \in Workers : SaveOutcome(w) \/ MarkRunFailed(w)
           \/ \E a \in Attempts : \E outcome \in StepTerminal :
                  FinalizeAfterCallback(a, outcome)
<1> USE DEF RunActive, RunTerminal
<1>1. run' # run
  OBVIOUS
<1>2. ASSUME NEW w \in Workers, WorkerStep(w) PROVE SaveOutcome(w) \/ MarkRunFailed(w)
  <2>1. worker[w].pc # "issue"
    BY DEF CalmInv
  <2> QED BY <1>1, <1>2, <2>1 DEF WorkerStep, BeginInitial, CheckCancelled, StartStep,
         RunLocalStep, RaiseInStep, AllocateAttempt, PrepareLaunch, ClaimAttempt,
         CallProvider, RecordDispatch, RecordPending, IssueSignedCredential,
         EmitFinalized, BeginResume, TaskRaises, ValidatorRaises, InspectAttempt,
         CloseUnlaunched, FinalizeFailedStep, runVars
<1>3. ASSUME NEW a \in Attempts, ProviderEnds(a) \/ ReceiveCallback(a) \/ HandlerStep(a)
      PROVE  \E outcome \in StepTerminal : FinalizeAfterCallback(a, outcome)
  BY <1>1, <1>3 DEF ProviderEnds, ReceiveCallback, HandlerStep, EnqueueNextStep,
         ResumeAfterCallback, RejectCallback, PostponeCallback, AbortCallback, runVars
<1>4. ~UNCHANGED vars /\ ~EnqueueRun /\ \A t \in Tasks : ~SkipDelivery(t)
  BY <1>1 DEF vars, EnqueueRun, SkipDelivery, runVars
<1>5. \A w \in Workers : ~CrashWorker(w)
  BY DEF CrashWorker, Undisturbed
<1> QED BY <1>2, <1>3, <1>4, <1>5, HandsStayIdle DEF Next

(* Only the issuance fails a credential. *)
LEMMA CredentialsKept ==
    ASSUME RunInv, [Next]_vars, \A w \in Workers : worker[w].pc # "issue",
           NEW s \in Steps, Kind[s] = "credential", step'[s] = "FAILED"
    PROVE  step[s] = "FAILED"
<1>1. TypeInv /\ AttemptsTypeOK /\ TokenInv
  BY RunInvParts
<1>2. ASSUME NEW a \in Attempts, HandlerStep(a) PROVE step[s] = "FAILED"
  <2>1. handler[a] # "idle" /\ (UNCHANGED step \/ \E d : step' = [step EXCEPT ![StepOf(a)] = d])
    BY <1>2 DEF HandlerStep, EnqueueNextStep, ResumeAfterCallback, FinalizeAfterCallback,
                Complete, RejectCallback, PostponeCallback, AbortCallback, stepVars
  <2>2. Kind[StepOf(a)] = "container"
    BY <1>1, <2>1 DEF TokenInv, ShapeInv, RowsOfSteps
  <2>3. s # StepOf(a)
    BY <2>2
  <2> QED BY <1>1, <2>1, <2>3, StepType
<1> QED BY <1>1, <1>2, OnlyTheyMoveSteps, WorkersKeepCredentials

LEMMA UndecidedStep ==
    ASSUME Undisturbed, RunInv, RunInv', CalmInv, run' \in RunActive, [Next]_vars
    PROVE  CalmInv'
<1>1. TypeInv /\ DecisionInv
  BY RunInvParts
<1>2. run \in RunActive /\ run' \notin RunTerminal /\ run \notin RunTerminal
  BY <1>1, EveryRunMoves DEF RunMoves, RunActive, RunTerminal
<1>3. DecisionInv' /\ TokenInv'
  BY DEF RunInv, KnownInv
<1>4. /\ ~released'
      /\ \A w \in Workers : worker'[w].pc \notin {"canceled", "issue", "emit"}
  BY <1>2, <1>3 DEF DecisionInv, TokenInv
<1>5. \A w \in Workers : worker[w].pc # "issue"
  BY <1>1, <1>2 DEF DecisionInv
<1>6. \A s \in Steps : ~(Kind[s] = "credential" /\ step'[s] = "FAILED")
  BY <1>2, <1>5, CredentialsKept DEF CalmInv
<1> QED BY <1>2, <1>4, <1>6, HandsStayIdle, MarkersDrive DEF CalmInv

LEMMA DecidingDriver ==
    ASSUME Undisturbed, RunInv, CalmInv, run \in RunActive, [Next]_vars,
           NEW w \in Workers, SaveOutcome(w) \/ MarkRunFailed(w)
    PROVE  CalmInv'
<1>1. TypeInv /\ DecisionInv /\ TokenInv /\ run \notin RunTerminal
  BY RunInvParts DEF RunActive, RunTerminal
<1>2. \/ worker[w].pc \in {"save", "raised"} /\ SaveOutcome(w)
      \/ worker[w].pc = "mark" /\ MarkRunFailed(w)
  BY <1>1 DEF SaveOutcome, MarkRunFailed, TokenInv
<1>3. Driving(w)
  BY <1>2 DEF Driving, CalmInv
<1>4. \A v \in Workers : v # w => ~Driving(v)
  BY <1>1, <1>3 DEF TokenInv, OneDriver
<1>6. UNCHANGED <<step, handler, released>>
  BY <1>2 DEF SaveOutcome, MarkRunFailed, stepVars, callbackVars
<1>7. \A a \in Attempts : handler'[a] = "idle"
  BY <1>1, <1>3, <1>6 DEF TokenInv, NoDriver
<1>8. /\ Alone(w) /\ worker'[w].pc \in {"issue", "emit", "idle"}
      /\ worker'[w].pc = "issue" => run' = "SUCCEEDED"
  BY <1>1, <1>2, UndisturbedIsOrderly, LeaveFields, AcknowledgeFields
     DEF SaveOutcome, MarkRunFailed
<1>9. \A v \in Workers : v # w =>
          worker'[v] = worker[v] /\ ~Driving(v)'
          /\ worker[v].pc \notin {"canceled", "issue", "emit"}
  BY <1>1, <1>4, <1>8 DEF Alone, Driving, DecisionInv, TokenInv
<1>10. /\ \A v \in Workers : worker'[v].pc # "canceled"
       /\ \A v \in Workers : worker'[v].pc = "issue" => run' = "SUCCEEDED"
  BY <1>8, <1>9
<1>11. \A v \in Workers : Driving(v)' => worker'[v].pc = "issue"
  BY <1>8, <1>9 DEF Driving
<1>12. (\E v \in Workers : worker'[v].pc = "emit") => NoDriver'
  BY <1>8, <1>9 DEF NoDriver, Driving
<1>13. ~released'
  BY <1>1, <1>6 DEF DecisionInv
<1>14. \A s \in Steps : ~(Kind[s] = "credential" /\ step'[s] = "FAILED")
  BY <1>1, <1>6 DEF CalmInv
<1> QED BY <1>7, <1>10, <1>11, <1>12, <1>13, <1>14, HandsStayIdle, MarkersDrive DEF CalmInv

LEMMA DecidingCallback ==
    ASSUME Undisturbed, RunInv, CalmInv, run \in RunActive, [Next]_vars,
           NEW a \in Attempts, NEW outcome \in StepTerminal, FinalizeAfterCallback(a, outcome)
    PROVE  CalmInv'
<1>1. TypeInv /\ AttemptsTypeOK /\ DecisionInv /\ TokenInv /\ run \notin RunTerminal
  BY RunInvParts DEF RunActive, RunTerminal
<1>2. handler[a] = "processing" /\ Complete(a, outcome) /\ UNCHANGED worker
  BY DEF FinalizeAfterCallback, Complete
<1>3. NoDriver /\ NoDriver' /\ step[StepOf(a)] = "RUNNING" /\ Exists(a) /\ StepOf(a) \in Steps
  <2>1. NoDriver /\ step[StepOf(a)] = "RUNNING" /\ Exists(a)
    BY <1>1, <1>2 DEF TokenInv
  <2> QED BY <1>2, <2>1, AttemptParts DEF NoDriver, Driving
<1>4. \A r \in Steps : step[r] = "RUNNING" => r = StepOf(a)
  BY <1>1, <1>3, OpenStepIsFront DEF TokenInv, ShapeInv
<1>5. handler' = [handler EXCEPT ![a] = "idle"]
  BY <1>2 DEF Complete, CloseReceipt
<1>6. \A b \in Attempts : b # a => handler[b] = "idle"
  <2> SUFFICES ASSUME NEW b \in Attempts, handler[b] # "idle" PROVE b = a
    OBVIOUS
  <2>1. step[StepOf(b)] = "RUNNING" /\ Exists(b)
    BY <1>1 DEF TokenInv
  <2> QED BY <1>1, <1>3, <1>4, <2>1, AttemptParts DEF TokenInv, ShapeInv, OneRow
<1>7. \A b \in Attempts : handler'[b] = "idle"
  BY <1>1, <1>5, <1>6 DEF TypeInv, TypeOK
<1>8. \A w \in Workers : worker'[w].pc \notin {"canceled", "issue"}
  BY <1>1, <1>2 DEF DecisionInv, TokenInv
<1>9. \A w \in Workers : worker[w].pc # "issue"
  BY <1>1 DEF DecisionInv
<1>10. \A s \in Steps : ~(Kind[s] = "credential" /\ step'[s] = "FAILED")
  BY <1>1, <1>9, CredentialsKept DEF CalmInv
<1> QED BY <1>3, <1>7, <1>8, <1>10, HandsStayIdle, MarkersDrive DEF CalmInv, NoDriver

LEMMA CalmStep ==
    ASSUME Undisturbed, RunInv, CalmInv, [Next]_vars
    PROVE  RunInv' /\ CalmInv'
<1>1. RunInv'
  BY RunInvStep
<1>2. run \in RunActive \cup RunTerminal /\ run' \in RunActive \cup RunTerminal
  BY <1>1 DEF RunInv, KnownInv, EngineInv, TypeInv, TypeOK
<1>3. CASE run \in RunTerminal
  BY <1>1, <1>3, OverStep
<1>4. CASE run' \in RunActive
  BY <1>1, <1>4, UndecidedStep
<1>5. CASE run \in RunActive /\ run' \in RunTerminal
  BY <1>1, <1>5, WhoDecides, DecidingDriver, DecidingCallback
<1> QED BY <1>1, <1>2, <1>3, <1>4, <1>5

LEMMA CalmSafe == ASSUME Undisturbed PROVE Spec => [](RunInv /\ CalmInv)
<1>1. Init => CalmInv /\ ReceiptInv
  <2> SUFFICES ASSUME Init PROVE CalmInv /\ ReceiptInv
    OBVIOUS
  <2>1. /\ \A s \in Steps : step[s] = "ABSENT"
        /\ \A w \in Workers : worker[w].pc = "idle"
        /\ \A a \in Attempts : receipt[a] = "NONE"
        /\ run = "PENDING" /\ ~released
        /\ launch # "failed" /\ canceller = "idle" /\ watchdog.pc = "idle"
    BY DEF Init, AttemptsInit, IdleWorker
  <2> QED BY <2>1 DEF CalmInv, ReceiptInv, OutputNotDropped, Closed, RunTerminal
<1>2. RunInv /\ CalmInv /\ [Next]_vars => RunInv' /\ CalmInv'
  BY CalmStep
<1> QED BY <1>1, <1>2, KnownSafe, TokenStart, PTL DEF Spec, RunInv

(* Whoever releases the workflow definition is the last to have used it.    *)
THEOREM UndisturbedRelease == ASSUME Undisturbed PROVE Spec => []ReleasedMeansDone
<1>1. CalmInv => ReleasedMeansDone
  BY DEF CalmInv, ReleasedMeansDone, NoDriver, Driving
<1> QED BY <1>1, CalmSafe, PTL

-----------------------------------------------------------------------------
(* The refinement *)

LEMMA LifeTerms ==
    /\ Life!LifeSteps = Steps
    /\ \A s : Life!Cleared(s) <=> Cleared(s)
    /\ \A s : Life!Cleared(s)' <=> Cleared(s)'
    /\ Life!Decided = RunTerminal /\ Life!StepDecided = StepTerminal
BY StepsAssumption
DEF Life!LifeSteps, Life!Cleared, Cleared, Life!Decided, RunTerminal, Life!StepDecided,
    StepTerminal

LEMMA ClosesInLife ==
    ASSUME NEW s \in Steps, step[s] = "RUNNING", NEW d \in StepTerminal,
           step' = [step EXCEPT ![s] = d]
    PROVE  \E r \in Life!LifeSteps : Life!Close(r)
BY LifeTerms DEF Life!Close

LEMMA DecidesInLife ==
    ASSUME RunInv', run = "RUNNING", run' \in RunTerminal
    PROVE  Life!Decide
<1>1. SuccessMeansPassed' /\ released' \in BOOLEAN
  BY DEF RunInv, TokenInv, ShapeInv, KnownInv, EngineInv, TypeInv, TypeOK
<1> QED BY <1>1, LifeTerms DEF Life!Decide, SuccessMeansPassed

(* Nobody works at a step of a run that is not running. *)
LEMMA WorkedOnIsRunning ==
    ASSUME RunInv, CalmInv
    PROVE  /\ \A w \in Workers : Driving(w) /\ worker[w].pc # "issue" => run = "RUNNING"
           /\ \A a \in Attempts : handler[a] # "idle" => run = "RUNNING"
<1>1. run \in RunActive \cup RunTerminal /\ UntouchedInv
  BY RunInvParts DEF TypeInv, TypeOK
<1> QED BY <1>1 DEF CalmInv, UntouchedInv, Driving, RunActive

LEMMA StartOpens ==
    ASSUME TypeInv, NEW w \in Workers, WorkerStep(w), worker[w].pc = "start",
           NEW s \in Steps, s = worker[w].at, step[s] = "ABSENT",
           NEW d \in {"RUNNING", "PASSED", "FAILED"}, step' = [step EXCEPT ![s] = d]
    PROVE  d = "RUNNING"
<1>1. StartStep(w) \/ RaiseInStep(w)
  BY DEF WorkerStep, BeginInitial, BeginResume, CheckCancelled, RunLocalStep,
         AllocateAttempt, PrepareLaunch, ClaimAttempt, CallProvider, RecordDispatch,
         RecordPending, SaveOutcome, IssueSignedCredential, EmitFinalized, TaskRaises,
         Unguarded, MarkRunFailed, ValidatorRaises, InspectAttempt, CloseUnlaunched,
         FinalizeFailedStep
<1>2. step'[s] = d
  BY StepType
<1>3. CASE StartStep(w)
  <2>1. step' = [step EXCEPT ![s] = "RUNNING"]
    BY <1>3 DEF StartStep
  <2> QED BY <1>2, <2>1, StepType
<1>4. CASE RaiseInStep(w)
  <2>1. UNCHANGED step
    BY <1>4 DEF RaiseInStep, stepVars
  <2> QED BY <1>2, <2>1
<1> QED BY <1>1, <1>3, <1>4

(* A worker at its step opens it when it has come to it, and closes it.     *)
LEMMA WorkingImplements ==
    ASSUME RunInv, CalmInv, NEW w \in Workers, WorkerStep(w),
           UNCHANGED <<run, released>>, worker[w].pc \in {"start"} \cup InStep
    PROVE  [Life!LifeNext]_(Life!lifeVars)
<1>1. TypeInv /\ AttemptsTypeOK /\ TokenInv
  BY RunInvParts
<1>2. Driving(w) /\ worker[w].pc # "issue"
  BY DEF Driving, InStep, InLauncher
<1>3. run = "RUNNING" /\ Placed(w)
  BY <1>1, <1>2, WorkedOnIsRunning DEF TokenInv
<1>4. CASE UNCHANGED step
  BY <1>4 DEF Life!lifeVars
<1>5. ASSUME worker[w].at \in Steps, step[worker[w].at] \in {"ABSENT", "RUNNING"},
             NEW d \in {"RUNNING", "PASSED", "FAILED"},
             step' = [step EXCEPT ![worker[w].at] = d]
      PROVE  [Life!LifeNext]_(Life!lifeVars)
  <2> PICK s \in Steps : s = worker[w].at
    BY <1>5
  <2>1. CASE step[s] = "RUNNING" /\ d = "RUNNING"
    BY <1>1, <1>4, <1>5, <2>1, StepType
  <2>2. CASE step[s] = "RUNNING" /\ d # "RUNNING"
    <3>1. d \in StepTerminal
      BY <2>2 DEF StepTerminal
    <3> QED BY <1>3, <1>5, <2>2, <3>1, ClosesInLife DEF Life!LifeNext, Life!CloseStep
  <2>3. CASE step[s] = "ABSENT"
    <3>1. worker[w].pc = "start"
      BY <1>3, <2>3 DEF Placed
    <3>2. \A r \in Steps : r < s => Cleared(r)
      BY <1>3, <3>1 DEF Placed, Front
    <3>3. d = "RUNNING"
      BY <1>1, <1>5, <2>3, <3>1, StartOpens
    <3>4. Life!Open(s)
      BY <1>3, <1>5, <2>3, <3>2, <3>3, LifeTerms DEF Life!Open
    <3> QED BY <3>4, LifeTerms DEF Life!LifeNext
  <2> QED BY <1>5, <2>1, <2>2, <2>3
<1> QED BY <1>1, <1>2, <1>4, <1>5, WorkersMoveSteps

(* A worker behind the loop decides the run, and takes credentials back     *)
(* before anybody was told.                                                 *)
LEMMA FinishingImplements ==
    ASSUME RunInv, RunInv', CalmInv, NEW w \in Workers,
           SaveOutcome(w) \/ MarkRunFailed(w) \/ IssueSignedCredential(w) \/ EmitFinalized(w)
    PROVE  [Life!LifeNext]_(Life!lifeVars)
<1> USE DEF Life!lifeVars
<1>1. TypeInv /\ TokenInv /\ DecisionInv
  BY RunInvParts
<1>2. CASE worker[w].pc = "canceled" /\ SaveOutcome(w)
  BY <1>2 DEF SaveOutcome, CalmInv, stepVars
<1>3. CASE \/ worker[w].pc \in {"save", "raised"} /\ SaveOutcome(w)
           \/ worker[w].pc = "mark" /\ MarkRunFailed(w)
  <2>1. run = "RUNNING"
    BY <1>3, WorkedOnIsRunning DEF Driving, CalmInv
  <2>2. run' \in RunTerminal /\ UNCHANGED step
    BY <1>3 DEF SaveOutcome, MarkRunFailed, RunTerminal, stepVars
  <2> QED BY <2>1, <2>2, DecidesInLife DEF Life!LifeNext, Life!DecideRun
<1>4. CASE IssueSignedCredential(w)
  <2>1. run = "SUCCEEDED" /\ ~NoDriver /\ UNCHANGED released
    BY <1>4 DEF IssueSignedCredential, CalmInv, NoDriver, Driving
  <2>2. ~released
    BY <2>1 DEF CalmInv
  <2>3. CASE UNCHANGED <<run, step>>
    BY <2>1, <2>3
  <2>4. ASSUME NEW s \in Steps, IssuesCredential(s), step' = [step EXCEPT ![s] = "FAILED"],
               run' \in {run, "FAILED"}
        PROVE  Life!Revoke
    <3>1. step[s] = "PASSED" \/ step[s] = "FAILED"
      BY <1>1, <2>1 DEF TokenInv, ShapeInv, SuccessMeansPassed, Cleared
    <3>2. step[s] = "PASSED" /\ s \in Tolerant
      BY <2>1, <2>4, <3>1 DEF CalmInv, IssuesCredential, Tolerant
    <3> QED BY <2>1, <2>2, <2>4, <3>2 DEF Life!Revoke
  <2> QED BY <1>4, <2>3, <2>4 DEF IssueSignedCredential, Life!LifeNext
<1>5. CASE EmitFinalized(w)
  <2>1. run \in RunTerminal /\ released' = TRUE /\ UNCHANGED <<run, step>>
    BY <1>1, <1>5 DEF EmitFinalized, DecisionInv, stepVars
  <2> QED BY <2>1, LifeTerms DEF Life!Release, Life!LifeNext
<1> QED BY <1>2, <1>3, <1>4, <1>5 DEF SaveOutcome, MarkRunFailed

(* A callback closes the step that waits for it, and decides the run with   *)
(* the last one.                                                            *)
LEMMA CallbackImplements ==
    ASSUME RunInv, RunInv', CalmInv, NEW a \in Attempts, HandlerStep(a)
    PROVE  [Life!LifeNext]_(Life!lifeVars)
<1>1. TokenInv
  BY RunInvParts
<1>2. handler[a] # "idle"
  BY DEF HandlerStep, EnqueueNextStep, ResumeAfterCallback, FinalizeAfterCallback,
         RejectCallback, PostponeCallback, AbortCallback
<1>3. run = "RUNNING" /\ step[StepOf(a)] = "RUNNING" /\ StepOf(a) \in Steps
  BY <1>1, <1>2, WorkedOnIsRunning, AttemptParts DEF TokenInv
<1>4. CASE ResumeAfterCallback(a)
  <2>1. step' = [step EXCEPT ![StepOf(a)] = "PASSED"] /\ UNCHANGED <<run, released>>
    BY <1>4 DEF ResumeAfterCallback, Complete, runVars
  <2>2. "PASSED" \in StepTerminal
    BY DEF StepTerminal
  <2> QED BY <1>3, <2>1, <2>2, ClosesInLife DEF Life!LifeNext, Life!CloseStep
<1>5. ASSUME NEW outcome \in StepTerminal, FinalizeAfterCallback(a, outcome)
      PROVE  Life!LifeNext
  <2>1. step' = [step EXCEPT ![StepOf(a)] = outcome] /\ run' = OutcomeOf(outcome)
    BY <1>3, <1>5 DEF FinalizeAfterCallback, Complete, RunActive
  <2>2. run' \in RunTerminal
    BY <2>1 DEF OutcomeOf, StepTerminal, RunTerminal
  <2> QED BY <1>3, <2>1, <2>2, ClosesInLife, DecidesInLife
          DEF Life!LifeNext, Life!CloseAndDecide
<1>6. CASE EnqueueNextStep(a) \/ RejectCallback(a) \/ PostponeCallback(a) \/ AbortCallback(a)
  BY <1>6 DEF EnqueueNextStep, RejectCallback, PostponeCallback, AbortCallback,
              runVars, stepVars, Life!lifeVars
<1> QED BY <1>4, <1>5, <1>6 DEF HandlerStep

LEMMA LifeStep ==
    ASSUME Undisturbed, RunInv, RunInv', CalmInv, [Next]_vars
    PROVE  [Life!LifeNext]_(Life!lifeVars)
<1> USE DEF runVars, stepVars, Life!lifeVars
<1>1. CASE UNCHANGED vars
  BY <1>1 DEF vars
<1>2. ASSUME NEW w \in Workers, BeginInitial(w) PROVE Life!LifeNext
  BY <1>2 DEF BeginInitial, Startable, Life!Begin, Life!LifeNext
<1>3. ASSUME NEW w \in Workers,
             \/ CheckCancelled(w) \/ TaskRaises(w)
             \/ (RaiseInStep(w) /\ worker[w].pc = "loop")
             \/ \E t \in Tasks : BeginResume(w, t)
      PROVE  UNCHANGED Life!lifeVars
  BY <1>3 DEF CheckCancelled, TaskRaises, RaiseInStep, BeginResume
<1>7. ASSUME NEW w \in Workers, WorkerStep(w),
             \/ StartStep(w) \/ RunLocalStep(w) \/ AllocateAttempt(w)
             \/ (RaiseInStep(w) /\ worker[w].pc # "loop")
             \/ PrepareLaunch(w) \/ ClaimAttempt(w) \/ CallProvider(w)
             \/ RecordDispatch(w) \/ RecordPending(w) \/ ValidatorRaises(w)
             \/ InspectAttempt(w) \/ CloseUnlaunched(w) \/ FinalizeFailedStep(w)
      PROVE  [Life!LifeNext]_(Life!lifeVars)
  <2>1. worker[w].pc \in {"start"} \cup InStep /\ UNCHANGED <<run, released>>
    BY <1>7 DEF StartStep, RunLocalStep, AllocateAttempt, RaiseInStep, PrepareLaunch,
           ClaimAttempt, CallProvider, RecordDispatch, RecordPending, ValidatorRaises,
           InspectAttempt, CloseUnlaunched, FinalizeFailedStep, InStep, InLauncher
  <2> QED BY <1>7, <2>1, WorkingImplements
<1>4. ASSUME NEW w \in Workers, WorkerStep(w) PROVE [Life!LifeNext]_(Life!lifeVars)
  BY <1>2, <1>3, <1>4, <1>7, FinishingImplements DEF WorkerStep
<1>5. ASSUME \/ EnqueueRun \/ \E t \in Tasks : SkipDelivery(t)
             \/ \E a \in Attempts : ProviderEnds(a) \/ ReceiveCallback(a)
      PROVE  UNCHANGED Life!lifeVars
  BY <1>5 DEF EnqueueRun, SkipDelivery, ProviderEnds, ReceiveCallback
<1>6. \A w \in Workers : ~CrashWorker(w)
  BY DEF CrashWorker, Undisturbed
<1> QED BY <1>1, <1>4, <1>5, <1>6, HandsStayIdle, CallbackImplements DEF Next

(* The engine implements the life of a run that its users are promised:     *)
(* steps opened in order and closed once, the run decided once and with its *)
(* steps, and released after the decision for good.                         *)
THEOREM UndisturbedLifecycle == ASSUME Undisturbed PROVE Spec => ImplementsLifecycle
<1>1. Init => Life!LifeInit
  BY LifeTerms DEF Init, Life!LifeInit
<1>2. RunInv /\ RunInv' /\ CalmInv /\ [Next]_vars => [Life!LifeNext]_(Life!lifeVars)
  BY LifeStep
<1> QED BY <1>1, <1>2, CalmSafe, PTL DEF Spec, ImplementsLifecycle, Life!LifeSpec

=============================================================================
