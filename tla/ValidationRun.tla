---------------------------- MODULE ValidationRun ----------------------------
(***************************************************************************)
(* The life of one validation run: a workflow of ordered steps executed by *)
(* queue workers, container steps handed to an asynchronous provider whose *)
(* callback completes them, user cancellation, and the stuck-run watchdog. *)
(*                                                                         *)
(* Every action is one database transaction or one call to the outside, so *)
(* whatever the code reads in one and uses in the next can be stale.       *)
(* Tasks and callbacks are delivered at least once and in any order.  Time *)
(* is abstracted: a deadline may have passed whenever the watchdog looks.  *)
(*                                                                         *)
(* Not represented: findings, outputs, summaries, evidence and tracking    *)
(* events (they follow the status writes and never feed back into them).   *)
(* Two undelivered copies of the same resume task are one element of       *)
(* queue; "duplicate" delivery covers what the second copy could do.       *)
(***************************************************************************)
EXTENDS ExecutionAttempts

CONSTANTS
    NumSteps,       \* steps of the workflow, in order
    Kind,           \* what each step is
    Workers,        \* concurrent task deliveries
    MaxCrashes,     \* bound on worker and handler crashes
    Environment     \* which of the outside events below may happen

Kinds == {"container", "local", "advisory", "credential"}

(* "duplicate"      a task is delivered again although it was acknowledged, *)
(*                  or while another worker still holds it                  *)
(* "crash"          a worker or a callback request dies                     *)
(* "cancel"         the user cancels the run                                *)
(* "timeout"        the watchdog runs after the deadline                    *)
(* "early_callback" the provider answers while its launcher is still        *)
(*                  recording the launch                                    *)
(* "dispatch_error" the provider call raises; the work may be accepted      *)
(* "enqueue_error"  enqueueing a task raises; the run's may be queued       *)
(* "bad_callback"   the callback is permanently rejected (4xx)              *)
(* "early_resume"   the resume task leaves before its callback's            *)
(*                  transaction commits (Cloud Tasks; Celery waits)         *)
(* "task_error"     an error escapes the orchestrator and ends the task     *)
(*                  for good (Celery; Cloud Tasks delivers it again)        *)
(* "pending_error"  the same, after the worker has left the step to the     *)
(*                  provider: its last look at the run fails                *)
Events == {"duplicate", "crash", "cancel", "timeout", "early_callback",
           "dispatch_error", "enqueue_error", "bad_callback", "early_resume",
           "task_error", "pending_error"}

ASSUME StepsAssumption == NumSteps \in Nat /\ Steps = 1 .. NumSteps
ASSUME KindAssumption == Kind \in [Steps -> Kinds]
(* WorkflowStep._validate_credential_step_placement *)
CredentialsLast ==
    \A s, r \in Steps : Kind[s] = "credential" /\ s < r => Kind[r] = "advisory"

ASSUME CredentialAssumption == CredentialsLast
ASSUME EnvironmentAssumption == Environment \subseteq Events
ASSUME MaxCrashesAssumption == MaxCrashes \in Nat

NoAttempt == <<0, 0>>

ASSUME NoAttemptAssumption == NoAttempt \notin Attempts

VARIABLES
    run,            \* ValidationRun.status
    released,       \* definition_released_at is set: finalization was emitted
    step,           \* ValidationStepRun.status of every step
    jobName,        \* the step run's output names a launched job
    queue,          \* task deliveries the transport still owes
    launch,         \* the web request that created the run
    worker,         \* local state of every task delivery
    launches,       \* external: executions the provider started, per attempt
    ended,          \* external: how each execution ended at the provider
    receipt,        \* CallbackReceipt.status of every attempt
    handler,        \* the callback request holding the attempt's receipt
    canceller,      \* the cancel request
    watchdog,       \* the stuck-run command
    crashes         \* crashes so far

runVars == <<run, released>>
stepVars == <<step, jobName>>
providerVars == <<launches, ended>>
callbackVars == <<receipt, handler>>
stopVars == <<canceller, watchdog>>
vars == <<run, released, step, jobName, queue, launch, worker, launches,
          ended, receipt, handler, canceller, watchdog, crashes,
          attempt, credential, identity>>

RunActive == {"PENDING", "RUNNING"}
RunTerminal == {"SUCCEEDED", "FAILED", "CANCELED", "TIMED_OUT"}
StepTerminal == {"PASSED", "FAILED", "SKIPPED"}
StepStates == {"ABSENT", "RUNNING"} \cup StepTerminal
Tasks == 0 .. NumSteps

(* ValidationRun.current_step_run: the first step run that is active *)
Current(s) == step[s] = "RUNNING" /\ \A r \in Steps : r < s => step[r] # "RUNNING"

IdleWorker == [pc |-> "idle", task |-> 0, at |-> 1, own |-> 0,
               target |-> NoAttempt, job |-> FALSE, result |-> "none"]

Init ==
    /\ AttemptsInit
    /\ run = "PENDING" /\ released = FALSE
    /\ step = [s \in Steps |-> "ABSENT"]
    /\ jobName = [s \in Steps |-> FALSE]
    /\ queue = {}
    /\ launch = "enqueue"
    /\ worker = [w \in Workers |-> IdleWorker]
    /\ launches = [a \in Attempts |-> 0]
    /\ ended = [a \in Attempts |-> "none"]
    /\ receipt = [a \in Attempts |-> "NONE"]
    /\ handler = [a \in Attempts |-> "idle"]
    /\ canceller = "idle"
    /\ watchdog = [pc |-> "idle", of |-> NoAttempt]
    /\ crashes = 0

-----------------------------------------------------------------------------
(* ValidationRunService.launch, after admission has committed *)

EnqueueRun ==
    /\ launch = "enqueue"
    /\ launch' = "done"
    /\ queue' = queue \cup {0}
    /\ UNCHANGED <<runVars, stepVars, worker, providerVars, callbackVars,
                   stopVars, crashes, attemptVars>>

EnqueueRaises ==
    /\ launch = "enqueue"
    /\ "enqueue_error" \in Environment
    /\ launch' = "failed"
    /\ queue' \in {queue, queue \cup {0}}
    /\ UNCHANGED <<runVars, stepVars, worker, providerVars, callbackVars,
                   stopVars, crashes, attemptVars>>

FailLaunch ==
    /\ launch = "failed"
    /\ launch' = "done"
    /\ run' = "FAILED" /\ released' = TRUE
    /\ UNCHANGED <<stepVars, queue, worker, providerVars, callbackVars,
                   stopVars, crashes, attemptVars>>

-----------------------------------------------------------------------------
(* StepOrchestrator.execute_workflow_steps: one worker per delivery *)

Deliverable(t) ==
    /\ t \in queue
    /\ \/ "duplicate" \in Environment
       \/ \A w \in Workers : worker[w].pc = "idle" \/ worker[w].task # t

(* The delivery is over: 200, or the Celery task returns *)
Acknowledge(w) ==
    /\ worker' = [worker EXCEPT ![w] = IdleWorker]
    /\ \/ queue' = queue \ {worker[w].task}
       \/ "duplicate" \in Environment /\ UNCHANGED queue

(* Faulty: a pending verdict does not stop the loop *)
LoopIgnoringPending(w, s, verdict) ==
    worker' = [worker EXCEPT ![w] = [IdleWorker EXCEPT
                   !.pc = "loop", !.task = worker[w].task, !.at = s,
                   !.result = IF verdict = "pending" THEN "none" ELSE verdict]]

(* Next check of the step loop, at step s with the loop's verdict so far *)
Loop(w, s, verdict) ==
    worker' = [worker EXCEPT ![w] = [IdleWorker EXCEPT
                   !.pc = "loop", !.task = worker[w].task,
                   !.at = s, !.result = verdict]]

Goto(w, pc) == worker' = [worker EXCEPT ![w].pc = pc]

(* The step loop is over: only the task, and what it launched, matter now *)
Leave(w, pc) ==
    worker' = [worker EXCEPT ![w] = [IdleWorker EXCEPT
                   !.pc = pc, !.task = worker[w].task,
                   !.target = worker[w].target]]

(* Faulty: any run that is not being executed is started (again) *)
StartableUnlessRunning(t) == IF t = 0 THEN run # "RUNNING" ELSE run = "RUNNING"

(* What either entry point expects of the run *)
Startable(t) == IF t = 0 THEN run = "PENDING" ELSE run = "RUNNING"

BeginInitial(w) ==
    /\ worker[w].pc = "idle" /\ Deliverable(0) /\ Startable(0)
    /\ run' = "RUNNING"
    /\ worker' = [worker EXCEPT ![w] = [IdleWorker EXCEPT !.pc = "loop"]]
    /\ UNCHANGED <<released, stepVars, queue, launch, providerVars,
                   callbackVars, stopVars, crashes, attemptVars>>

(* Faulty: an off-by-one in the order filter *)
ResumePast(t) == IF t + 1 < NumSteps THEN t + 2 ELSE t + 1

(* The task names the last completed step: execution restarts after it *)
ResumeAt(t) == t + 1

BeginResume(w, t) ==
    /\ worker[w].pc = "idle" /\ Deliverable(t) /\ t > 0 /\ Startable(t)
    /\ worker' = [worker EXCEPT ![w] = [IdleWorker EXCEPT
                      !.pc = "loop", !.task = t, !.at = ResumeAt(t)]]
    /\ UNCHANGED <<runVars, stepVars, queue, launch, providerVars,
                   callbackVars, stopVars, crashes, attemptVars>>

(* The run is not in the state this entry point expects: nothing is done *)
SkipDelivery(t) ==
    /\ Deliverable(t)
    /\ \E w \in Workers : worker[w].pc = "idle"
    /\ ~Startable(t)
    /\ queue' = queue \ {t}
    /\ UNCHANGED <<runVars, stepVars, launch, worker, providerVars,
                   callbackVars, stopVars, crashes, attemptVars>>

(* _was_cancelled, read before every step and after the loop.  Only a       *)
(* CANCELED run stops the worker: any other terminal status is not noticed. *)
CheckCancelled(w) ==
    /\ worker[w].pc = "loop"
    /\ IF run = "CANCELED"
       THEN Leave(w, "canceled") /\ UNCHANGED queue
       ELSE \/ worker[w].result = "pending" /\ Acknowledge(w)
            \/ /\ worker[w].result = "failed" \/ worker[w].at > NumSteps
               /\ worker[w].result # "pending"
               /\ Goto(w, "save") /\ UNCHANGED queue
            \/ /\ worker[w].result = "none" /\ worker[w].at <= NumSteps
               /\ Goto(w, "start") /\ UNCHANGED queue
    /\ UNCHANGED <<runVars, stepVars, launch, providerVars, callbackVars,
                   stopVars, crashes, attemptVars>>

(* _start_step_run.  A step that is not to be executed is skipped unless it *)
(* FAILED, also when it is still RUNNING at the provider.                   *)
StartStep(w) ==
    LET s == worker[w].at IN
    /\ worker[w].pc = "start"
    /\ \/ /\ step[s] = "ABSENT" \/ (step[s] = "RUNNING" /\ ~HasHistory(s))
          /\ step' = [step EXCEPT ![s] = "RUNNING"]
          /\ Goto(w, "execute")
       \/ /\ step[s] \in {"PASSED", "SKIPPED"}
             \/ (step[s] = "RUNNING" /\ HasHistory(s))
          /\ Loop(w, s + 1, "none")
          /\ UNCHANGED step
       \/ /\ step[s] = "FAILED"
          /\ Loop(w, s, "failed")
          /\ UNCHANGED step
    /\ UNCHANGED <<runVars, jobName, queue, launch, providerVars,
                   callbackVars, stopVars, crashes, attemptVars>>

(* Simple validators and actions finalize the step themselves; signed       *)
(* credentials are recorded as passed and issued when the run is final.  A  *)
(* container step ends here when its validator is not registered.           *)
LocalOutcomes(s) ==
    CASE Kind[s] = "credential" -> {"PASSED"}
      [] Kind[s] = "container"  -> {"FAILED"}
      [] OTHER                  -> {"PASSED", "FAILED"}

Validators == {"local", "container"}

RunLocalStep(w) ==
    LET s == worker[w].at IN
    /\ worker[w].pc = "execute"
    /\ \E outcome \in LocalOutcomes(s) :
        /\ step' = [step EXCEPT ![s] = outcome]
        /\ IF outcome = "FAILED" /\ Kind[s] \in Validators
           THEN Loop(w, s, "failed")
           ELSE Loop(w, s + 1, "none")
    /\ UNCHANGED <<runVars, jobName, queue, launch, providerVars,
                   callbackVars, stopVars, crashes, attemptVars>>

(* Inside the loop every exception reaches the handler of the run: of the   *)
(* check for cancellation, of the step's lookup, of its processor (which    *)
(* may have launched an attempt by then) and of the recording of its        *)
(* result.  A validator's step is FAILED on the way, if that can be saved.  *)
RaiseInStep(w) ==
    LET s == worker[w].at IN
    /\ \/ worker[w].pc = "loop" /\ worker[w].result = "none"
       \/ worker[w].pc \in {"start", "execute", "prepare", "fail", "close",
                            "finalize", "record"}
    /\ \/ UNCHANGED stepVars
       \/ /\ worker[w].pc \notin {"loop", "start"} /\ Kind[s] \in Validators
          /\ step' = [step EXCEPT ![s] = "FAILED"]
          /\ jobName' = [jobName EXCEPT ![s] = FALSE]
    /\ Leave(w, "raised")
    /\ UNCHANGED <<runVars, queue, launch, providerVars,
                   callbackVars, stopVars, crashes, attemptVars>>

-----------------------------------------------------------------------------
(* AdvancedValidationProcessor.execute and the Cloud Run launcher *)

Own(w) == <<worker[w].at, worker[w].own>>

(* get_or_create_execution_attempt; a claimed attempt is left to whoever    *)
(* claimed it                                                               *)
AllocateAttempt(w) ==
    LET s == worker[w].at IN
    /\ worker[w].pc = "execute" /\ Kind[s] = "container"
    /\ \/ \E a \in ActiveAttempts(s) :
            /\ IF attempt[a] = "PENDING"
               THEN worker' = [worker EXCEPT ![w].pc = "prepare",
                                             ![w].own = NumberOf(a)]
               ELSE Loop(w, s, "pending")
            /\ UNCHANGED attemptVars
       \/ \E a \in Attempts :
            /\ StepOf(a) = s
            /\ CreateAttempt(a)
            /\ worker' = [worker EXCEPT ![w].pc = "prepare",
                                        ![w].own = NumberOf(a)]
    /\ UNCHANGED <<runVars, stepVars, queue, launch, providerVars,
                   callbackVars, stopVars, crashes>>

(* passed is False, or the validator raised: three transactions follow *)
FailStep(w) == Goto(w, "fail") /\ UNCHANGED <<attempt, step>>

(* passed is None: the provider may hold work for this step *)
Pend(w, job) ==
    /\ worker' = [worker EXCEPT ![w].pc = "record", ![w].job = job]
    /\ UNCHANGED <<attempt, step>>

(* The launcher's last except clause, for the step it looked up: a claimed  *)
(* attempt is preserved, unless looking for it raises as well.              *)
LauncherRaises(w, s) ==
    \/ FailStep(w)
    \/ /\ \E a \in ActiveAttempts(s) : attempt[a] \in ClaimedStates
       /\ Pend(w, FALSE)

(* Input gate, uploads, credentials.  The launcher works on the run's       *)
(* current step run, which need not be the step this worker is executing.   *)
PrepareLaunch(w) ==
    /\ worker[w].pc = "prepare"
    /\ \/ FailStep(w) /\ UNCHANGED credential
       \/ \E s \in Steps :
            /\ Current(s)
            /\ \/ jobName[s] /\ Pend(w, TRUE) /\ UNCHANGED credential
               \/ ~jobName[s] /\ LauncherRaises(w, s) /\ UNCHANGED credential
               \/ /\ ~jobName[s]
                  /\ \E a \in ActiveAttempts(s) :
                        /\ IssueCredentials(a)
                        /\ worker' = [worker EXCEPT ![w].pc = "claim",
                                                    ![w].target = a]
                  /\ UNCHANGED step
    /\ UNCHANGED <<runVars, jobName, queue, launch, providerVars,
                   callbackVars, stopVars, crashes, identity>>

(* _run_validator_job_safely: claim the active attempt before the call *)
ClaimAttempt(w) ==
    LET s == StepOf(worker[w].target) IN
    /\ worker[w].pc = "claim"
    /\ \/ LauncherRaises(w, s)
       \/ /\ \E a \in ActiveAttempts(s) : attempt[a] = "RUNNING" /\ identity[a]
          /\ Pend(w, TRUE)
       \/ \E a \in ActiveAttempts(s) :
            /\ attempt[a] = "PENDING"
            /\ attempt' = Moved(a, "DISPATCHING")
            /\ worker' = [worker EXCEPT ![w].pc = "call", ![w].target = a]
            /\ UNCHANGED step
    /\ UNCHANGED <<runVars, jobName, queue, launch, providerVars, callbackVars,
                   stopVars, crashes, credential, identity>>

(* Faulty: an ambiguous error is answered by calling again *)
CallProviderAgain(w) ==
    LET a == worker[w].target IN
    /\ worker[w].pc = "call"
    /\ launches' = [launches EXCEPT ![a] = @ + 1]
    /\ Goto(w, "accepted") \/ UNCHANGED worker
    /\ UNCHANGED <<runVars, stepVars, queue, launch, ended, callbackVars,
                   stopVars, crashes, attemptVars>>

CallProvider(w) ==
    LET a == worker[w].target IN
    /\ worker[w].pc = "call"
    /\ \/ /\ launches' = [launches EXCEPT ![a] = @ + 1]
          /\ Goto(w, "accepted")
       \/ /\ "dispatch_error" \in Environment
          /\ launches' \in {launches, [launches EXCEPT ![a] = @ + 1]}
          /\ Goto(w, "unknown")
    /\ UNCHANGED <<runVars, stepVars, queue, launch, ended, callbackVars,
                   stopVars, crashes, attemptVars>>

(* Faulty: an ambiguous error is recorded as a failure *)
FailedUnlessAccepted(w) == IF worker[w].pc = "accepted" THEN "RUNNING" ELSE "FAILED"

DispatchState(w) == IF worker[w].pc = "accepted" THEN "RUNNING" ELSE "UNKNOWN"

(* Faulty: an ambiguous error is answered with a new attempt *)
RecordOrRetry(w) ==
    LET a == worker[w].target IN
    /\ \/ /\ worker[w].pc = "accepted"
          /\ attempt' = Moved(a, "RUNNING")
          /\ worker' = [worker EXCEPT ![w].pc = "record", ![w].job = TRUE]
       \/ /\ worker[w].pc = "unknown"
          /\ attempt' = Moved(a, "FAILED")
          /\ Goto(w, "execute")
    /\ UNCHANGED <<runVars, stepVars, queue, launch, providerVars, callbackVars,
                   stopVars, crashes, credential, identity>>

(* The answer to the call is stored.  That raises when cancel or the        *)
(* watchdog has fenced the attempt, or cannot be saved; what follows it in  *)
(* the launcher may raise too, and then the job's name is lost.             *)
RecordDispatch(w) ==
    LET a == worker[w].target
        target == DispatchState(w)
    IN
    /\ worker[w].pc \in {"accepted", "unknown"}
    /\ \/ /\ MayTransition(a, target)
          /\ attempt' = Moved(a, target)
          /\ identity' = IF target = "RUNNING" /\ attempt[a] # "RUNNING"
                         THEN [identity EXCEPT ![a] = TRUE] ELSE identity
          /\ \E job \in {target = "RUNNING", FALSE} :
                worker' = [worker EXCEPT ![w].pc = "record", ![w].job = job]
          /\ UNCHANGED step
       \/ LauncherRaises(w, StepOf(a)) /\ UNCHANGED identity
    /\ UNCHANGED <<runVars, jobName, queue, launch, providerVars, callbackVars,
                   stopVars, crashes, credential>>

(* The validator raises after its launcher has returned *)
ValidatorRaises(w) ==
    /\ worker[w].pc = "record"
    /\ FailStep(w)
    /\ UNCHANGED <<runVars, jobName, queue, launch, providerVars, callbackVars,
                   stopVars, crashes, credential, identity>>

(* A failed step looks at its attempt: one that was claimed is left alone *)
InspectAttempt(w) ==
    /\ worker[w].pc = "fail"
    /\ Goto(w, IF attempt[Own(w)] = "PENDING" THEN "close" ELSE "finalize")
    /\ UNCHANGED <<runVars, stepVars, queue, launch, providerVars, callbackVars,
                   stopVars, crashes, attemptVars>>

(* The attempt it saw PENDING is closed; by now it may be fenced *)
CloseUnlaunched(w) ==
    /\ worker[w].pc = "close"
    /\ \E target \in {"FAILED", "CANCELED"} :
          /\ MayTransition(Own(w), target)
          /\ attempt' = Moved(Own(w), target)
    /\ Goto(w, "finalize")
    /\ UNCHANGED <<runVars, stepVars, queue, launch, providerVars, callbackVars,
                   stopVars, crashes, credential, identity>>

FinalizeFailedStep(w) ==
    /\ worker[w].pc = "finalize"
    /\ step' = [step EXCEPT ![worker[w].at] = "FAILED"]
    /\ Loop(w, worker[w].at, "failed")
    /\ UNCHANGED <<runVars, jobName, queue, launch, providerVars, callbackVars,
                   stopVars, crashes, attemptVars>>

(* _mark_step_run_running and _record_pending_state: saves of step runs     *)
(* read before the provider was called                                      *)
RecordPending(w) ==
    LET r == worker[w]
        marked == {r.at} \cup (IF r.job /\ r.target # NoAttempt
                               THEN {StepOf(r.target)} ELSE {})
    IN
    /\ r.pc = "record"
    /\ step' = [s \in Steps |-> IF s \in marked THEN "RUNNING" ELSE step[s]]
    /\ jobName' = [jobName EXCEPT ![r.at] = r.job]
    /\ Loop(w, r.at, "pending")
    /\ UNCHANGED <<runVars, queue, launch, providerVars, callbackVars,
                   stopVars, crashes, attemptVars>>

-----------------------------------------------------------------------------
(* The worker's status writes: plain saves of the run it read at the start *)

IssuesCredential(s) == Kind[s] = "credential" /\ step[s] # "ABSENT"

(* Faulty: released together with the verdict, before credentials *)
SaveAndRelease(w) ==
    /\ worker[w].pc = "save"
    /\ run' = IF worker[w].result = "failed" THEN "FAILED" ELSE "SUCCEEDED"
    /\ released' = TRUE
    /\ IF run' = "SUCCEEDED" THEN Goto(w, "issue") ELSE Goto(w, "emit")
    /\ UNCHANGED <<stepVars, queue, launch, providerVars, callbackVars,
                   stopVars, crashes, attemptVars>>

SaveOutcome(w) ==
    /\ \/ /\ worker[w].pc = "save"
          /\ run' = IF worker[w].result = "failed" THEN "FAILED" ELSE "SUCCEEDED"
          /\ IF /\ run' = "SUCCEEDED"
                /\ \E s \in Steps : IssuesCredential(s)
             THEN Leave(w, "issue")
             ELSE Leave(w, "emit")
       \/ worker[w].pc = "raised" /\ run' = "FAILED" /\ Leave(w, "emit")
       \/ worker[w].pc = "canceled" /\ run' = "CANCELED" /\ Leave(w, "emit")
    /\ UNCHANGED <<released, stepVars, queue, launch, providerVars,
                   callbackVars, stopVars, crashes, attemptVars>>

(* _finalize_deferred_signed_credentials: where issuance fails, the step    *)
(* does, and if it blocks also the run that was just saved as succeeded.    *)
IssueSignedCredential(w) ==
    /\ worker[w].pc = "issue"
    /\ \/ UNCHANGED <<run, step>>
       \/ \E s \in Steps :
            /\ IssuesCredential(s)
            /\ step' = [step EXCEPT ![s] = "FAILED"]
            /\ run' \in {run, "FAILED"}
    /\ Goto(w, "emit")
    /\ UNCHANGED <<released, jobName, queue, launch, providerVars,
                   callbackVars, stopVars, crashes, attemptVars>>

(* emit_validation_run_finalized, then the task returns *)
EmitFinalized(w) ==
    /\ worker[w].pc = "emit"
    /\ released' = TRUE
    /\ Acknowledge(w)
    /\ UNCHANGED <<run, stepVars, launch, providerVars, callbackVars,
                   stopVars, crashes, attemptVars>>

(* Where no handler of execute_workflow_steps is around the worker: before  *)
(* the loop, at the check that follows it, and from there to the end.       *)
Unguarded(w) ==
    \/ /\ "task_error" \in Environment
       /\ \/ /\ worker[w].pc = "loop"
             /\ \/ worker[w].result = "failed"
                \/ /\ worker[w].result = "none"
                   /\ worker[w].at \in {ResumeAt(worker[w].task), NumSteps + 1}
          \/ worker[w].pc \in {"save", "raised", "canceled", "issue", "emit"}
    \/ /\ "pending_error" \in Environment
       /\ worker[w].pc = "loop" /\ worker[w].result = "pending"

(* The task ends with a permanent error, and the last-resort handler looks  *)
(* whether the run was decided.  Whatever is left undone stays undone.      *)
TaskRaises(w) ==
    /\ Unguarded(w)
    /\ IF run \in RunTerminal
       THEN Acknowledge(w)
       ELSE Goto(w, "mark") /\ UNCHANGED queue
    /\ UNCHANGED <<runVars, stepVars, launch, providerVars, callbackVars,
                   stopVars, crashes, attemptVars>>

(* _mark_validation_run_failed saves what it read, and emits nothing *)
MarkRunFailed(w) ==
    /\ worker[w].pc = "mark"
    /\ run' = "FAILED"
    /\ Acknowledge(w)
    /\ UNCHANGED <<released, stepVars, launch, providerVars, callbackVars,
                   stopVars, crashes, attemptVars>>

(* Faulty: the task was acknowledged when it was taken *)
CrashAfterAcknowledging(w) ==
    /\ "crash" \in Environment /\ crashes < MaxCrashes
    /\ worker[w].pc # "idle"
    /\ crashes' = crashes + 1
    /\ worker' = [worker EXCEPT ![w] = IdleWorker]
    /\ queue' = queue \ {worker[w].task}
    /\ UNCHANGED <<runVars, stepVars, launch, providerVars,
                   callbackVars, stopVars, attemptVars>>

(* The process dies; the task was not acknowledged and comes again *)
CrashWorker(w) ==
    /\ "crash" \in Environment /\ crashes < MaxCrashes
    /\ worker[w].pc # "idle"
    /\ crashes' = crashes + 1
    /\ worker' = [worker EXCEPT ![w] = IdleWorker]
    /\ UNCHANGED <<runVars, stepVars, queue, launch, providerVars,
                   callbackVars, stopVars, attemptVars>>

-----------------------------------------------------------------------------
(* The provider *)

(* An execution ends with an output, which it reports, or fails silently *)
ProviderEnds(a) ==
    /\ launches[a] > 0 /\ ended[a] = "none"
    /\ \/ "early_callback" \in Environment
       \/ \A w \in Workers : worker[w].target # a
    /\ \E end \in {"output", "failed"} : ended' = [ended EXCEPT ![a] = end]
    /\ UNCHANGED <<runVars, stepVars, queue, launch, worker, launches,
                   callbackVars, stopVars, crashes, attemptVars>>

-----------------------------------------------------------------------------
(* ValidationCallbackService._process_with_idempotency_guard *)

(* Faulty: the receipt is closed before the output is applied *)
AdmitAndClose(a) ==
    /\ ended[a] = "output"
    /\ handler[a] = "idle"
    /\ receipt[a] \in {"NONE", "PROCESSING"}
    /\ receipt' = [receipt EXCEPT ![a] = "COMPLETED"]
    /\ handler' = [handler EXCEPT ![a] = "processing"]

(* Admission of a delivery whose receipt is new or still PROCESSING: late   *)
(* output only closes the receipt, everything else is processed under it.   *)
AdmitCallback(a) ==
    /\ ended[a] = "output"
    /\ handler[a] = "idle"
    /\ receipt[a] \in {"NONE", "PROCESSING"}
    /\ IF IsTerminal(a) \/ ~Current(StepOf(a)) \/ run \in RunTerminal
       THEN /\ receipt' = [receipt EXCEPT ![a] = "COMPLETED"]
            /\ UNCHANGED handler
       ELSE /\ handler' = [handler EXCEPT ![a] = "processing"]
            /\ UNCHANGED receipt

(* The provider's delivery proves that it holds the attempt's nonce *)
ReceiveCallback(a) ==
    /\ credential[a]
    /\ AdmitCallback(a)
    /\ UNCHANGED <<runVars, stepVars, queue, launch, worker, providerVars,
                   stopVars, crashes, attemptVars>>

(* _enqueue_next_step, when the queue does not wait for the commit.  The    *)
(* completed step is still RUNNING for every other transaction.             *)
EnqueueNextStep(a) ==
    /\ "early_resume" \in Environment
    /\ handler[a] = "processing" /\ StepOf(a) < NumSteps /\ run \in RunActive
    /\ handler' = [handler EXCEPT ![a] = "resuming"]
    /\ queue' = queue \cup {StepOf(a)}
    /\ UNCHANGED <<runVars, stepVars, launch, worker, providerVars, receipt,
                   stopVars, crashes, attemptVars>>

(* Faulty: the receipt stays as it was *)
LeaveReceipt(a, status) ==
    /\ handler' = [handler EXCEPT ![a] = "idle"]
    /\ UNCHANGED receipt

CloseReceipt(a, status) ==
    /\ handler' = [handler EXCEPT ![a] = "idle"]
    /\ receipt' = [receipt EXCEPT ![a] = status]

(* Faulty: whatever happened to the row in the meantime is overwritten *)
OverwriteAttempt(a, target) == attempt' = Moved(a, target)

CloseAttempt(a, target) ==
    /\ MayTransition(a, target)
    /\ attempt' = Moved(a, target)

(* The step is closed, the attempt and the receipt are COMPLETED *)
Complete(a, outcome) ==
    /\ CloseAttempt(a, "COMPLETED")
    /\ step' = [step EXCEPT ![StepOf(a)] = outcome]
    /\ CloseReceipt(a, "COMPLETED")
    /\ UNCHANGED <<jobName, launch, worker, providerVars, stopVars, crashes,
                   credential, identity>>

(* _finalize_or_resume: another step follows a PASSED one ... *)
ResumeAfterCallback(a) ==
    /\ StepOf(a) < NumSteps
    /\ \/ handler[a] = "resuming" /\ UNCHANGED queue
       \/ /\ handler[a] = "processing"
          /\ queue' = IF run \in RunActive THEN queue \cup {StepOf(a)} ELSE queue
    /\ Complete(a, "PASSED")
    /\ UNCHANGED runVars

(* Faulty: the step's status is copied; a skipped step counts as a success *)
StatusAsOutcome(status) == status
SuccessUnlessFailed(status) == IF status = "FAILED" THEN "FAILED" ELSE "SUCCEEDED"

OutcomeOf(status) ==
    CASE status = "PASSED"  -> "SUCCEEDED"
      [] status = "FAILED"  -> "FAILED"
      [] status = "SKIPPED" -> "CANCELED"

(* ... otherwise the run is over, unless another decision came first *)
FinalizeAfterCallback(a, outcome) ==
    /\ handler[a] = "processing"
    /\ StepOf(a) = NumSteps \/ outcome # "PASSED"
    /\ IF run \in RunActive
       THEN run' = OutcomeOf(outcome) /\ released' = TRUE
       ELSE UNCHANGED runVars
    /\ Complete(a, outcome)
    /\ UNCHANGED queue

(* A 4xx error is permanent: the attempt fails, run and step are left alone *)
RejectCallback(a) ==
    /\ "bad_callback" \in Environment
    /\ handler[a] = "processing"
    /\ CloseReceipt(a, "REJECTED")
    /\ CloseAttempt(a, "FAILED")
    /\ UNCHANGED <<runVars, stepVars, queue, launch, worker, providerVars,
                   stopVars, crashes, credential, identity>>

(* A 5xx error commits the PROCESSING receipt and waits for the retry *)
PostponeCallback(a) ==
    /\ handler[a] = "processing"
    /\ CloseReceipt(a, "PROCESSING")
    /\ UNCHANGED <<runVars, stepVars, queue, launch, worker, providerVars,
                   stopVars, crashes, attemptVars>>

(* The transaction rolls back: the attempt cannot complete (it was fenced,  *)
(* or its launcher has not recorded it yet), the next step could not be     *)
(* enqueued, or the request dies.                                           *)
AbortCallback(a) ==
    /\ handler[a] # "idle"
    /\ \/ ~MayTransition(a, "COMPLETED") /\ UNCHANGED crashes
       \/ /\ "enqueue_error" \in Environment /\ StepOf(a) < NumSteps
          /\ UNCHANGED crashes
       \/ /\ "crash" \in Environment /\ crashes < MaxCrashes
          /\ crashes' = crashes + 1
    /\ handler' = [handler EXCEPT ![a] = "idle"]
    /\ UNCHANGED <<runVars, stepVars, queue, launch, worker, providerVars,
                   receipt, stopVars, attemptVars>>

-----------------------------------------------------------------------------
(* Terminal decisions taken elsewhere *)

(* The attempt fence_active_execution_attempt and cancel_active_execution   *)
(* move: the active one of the current step, if there is one                *)
Fenced == {a \in Attempts : IsActive(a) /\ Current(StepOf(a))}

Fence(target) ==
    /\ \A a \in Fenced : MayTransition(a, target)
    /\ attempt' = [a \in Attempts |-> IF a \in Fenced THEN target ELSE attempt[a]]

(* cancel_run, the transaction *)
CancelRun ==
    /\ "cancel" \in Environment /\ canceller = "idle"
    /\ run \in RunActive
    /\ run' = "CANCELED"
    /\ Fence("CANCELED")
    /\ canceller' = "follow"
    /\ UNCHANGED <<released, stepVars, queue, launch, worker, providerVars,
                   callbackVars, watchdog, crashes, credential, identity>>

(* cancel_run after the commit: fence again, ask the provider to stop, emit *)
FollowCancel ==
    /\ canceller = "follow"
    /\ canceller' = "done"
    /\ Fence("CANCELED")
    /\ released' = TRUE
    /\ UNCHANGED <<run, stepVars, queue, launch, worker, providerVars,
                   callbackVars, watchdog, crashes, credential, identity>>

(* Faulty: the selection is trusted *)
WasRunning == watchdog.pc = "decide"

(* The run is read again, locked, before the watchdog decides about it *)
StillRunning == run = "RUNNING"

Watchdog(pc, a) == watchdog' = [pc |-> pc, of |-> a]

(* resolve_provider_execution_identity of the current step: the active      *)
(* attempt, else the newest, if the provider's name for it is known         *)
Addressed(a) ==
    /\ identity[a] /\ Current(StepOf(a))
    /\ \A b \in Attempts : StepOf(b) = StepOf(a) /\ NumberOf(b) > NumberOf(a)
                                => ~Exists(b)

(* cleanup_stuck_runs selects a RUNNING run past its deadline *)
SelectStuckRun ==
    /\ "timeout" \in Environment /\ watchdog.pc = "idle"
    /\ run = "RUNNING"
    /\ \/ \E a \in Attempts : Addressed(a) /\ Watchdog("decide", a)
       \/ /\ \A a \in Attempts : ~Addressed(a)
          /\ Watchdog("decide", NoAttempt)
    /\ UNCHANGED <<runVars, stepVars, queue, launch, worker, providerVars,
                   callbackVars, canceller, crashes, attemptVars>>

(* The provider succeeded: hand its output to the callback pipeline.  A     *)
(* receipt that is already closed answers 200 as well.                      *)
RecoverCallback ==
    LET a == watchdog.of IN
    /\ watchdog.pc = "decide" /\ a # NoAttempt
    /\ ended[a] = "output" /\ handler[a] = "idle"
    /\ IF receipt[a] \in {"NONE", "PROCESSING"}
       THEN AdmitCallback(a) /\ Watchdog("recover", a)
       ELSE Watchdog("idle", NoAttempt) /\ UNCHANGED callbackVars
    /\ UNCHANGED <<runVars, stepVars, queue, launch, worker, providerVars,
                   canceller, crashes, attemptVars>>

(* Its response: anything but 200 falls through to the timeout *)
RecoverReturns ==
    LET a == watchdog.of IN
    /\ watchdog.pc = "recover" /\ handler[a] = "idle"
    /\ IF receipt[a] = "COMPLETED"
       THEN Watchdog("idle", NoAttempt) ELSE Watchdog("decide", NoAttempt)
    /\ UNCHANGED <<runVars, stepVars, queue, launch, worker, providerVars,
                   callbackVars, canceller, crashes, attemptVars>>

(* _mark_run_failed_from_gcp: the run in one transaction ... *)
ReconcileFailed ==
    LET a == watchdog.of IN
    /\ watchdog.pc = "decide" /\ a # NoAttempt
    /\ ended[a] = "failed"
    /\ IF StillRunning
       THEN run' = "FAILED" /\ Watchdog("fail", a)
       ELSE UNCHANGED run /\ Watchdog("idle", NoAttempt)
    /\ UNCHANGED <<released, stepVars, queue, launch, worker, providerVars,
                   callbackVars, canceller, crashes, attemptVars>>

(* ... and its attempt in the next, which raises if it ended otherwise *)
ReconcileFailedAttempt ==
    LET a == watchdog.of IN
    /\ watchdog.pc = "fail"
    /\ IF MayTransition(a, "FAILED")
       THEN attempt' = Moved(a, "FAILED") /\ released' = TRUE
       ELSE UNCHANGED <<attempt, released>>
    /\ Watchdog("idle", NoAttempt)
    /\ UNCHANGED <<run, stepVars, queue, launch, worker, providerVars,
                   callbackVars, canceller, crashes, credential, identity>>

(* No recovery: time the run out, unless it is over or the fence raises     *)
(* (a PENDING attempt cannot become TIMED_OUT) and everything rolls back.   *)
TimeOutRun ==
    /\ watchdog.pc = "decide"
    /\ IF StillRunning /\ (\A a \in Fenced : MayTransition(a, "TIMED_OUT"))
       THEN /\ run' = "TIMED_OUT"
            /\ Fence("TIMED_OUT")
            /\ Watchdog("follow", NoAttempt)
       ELSE UNCHANGED <<run, attempt>> /\ Watchdog("idle", NoAttempt)
    /\ UNCHANGED <<released, stepVars, queue, launch, worker, providerVars,
                   callbackVars, canceller, crashes, credential, identity>>

(* Faulty: the provider is dealt with first, and a raise skips the emission *)
CancelThenEmit ==
    /\ watchdog.pc = "follow"
    /\ IF \A a \in Fenced : MayTransition(a, "TIMED_OUT")
       THEN Fence("TIMED_OUT") /\ released' = TRUE
       ELSE UNCHANGED <<attempt, released>>
    /\ Watchdog("idle", NoAttempt)
    /\ UNCHANGED <<run, stepVars, queue, launch, worker, providerVars,
                   callbackVars, canceller, crashes, credential, identity>>

(* Emit, then cancel_active_execution, which may raise after the emission *)
FollowTimeout ==
    /\ watchdog.pc = "follow"
    /\ released' = TRUE
    /\ IF \A a \in Fenced : MayTransition(a, "TIMED_OUT")
       THEN Fence("TIMED_OUT") ELSE UNCHANGED attempt
    /\ Watchdog("idle", NoAttempt)
    /\ UNCHANGED <<run, stepVars, queue, launch, worker, providerVars,
                   callbackVars, canceller, crashes, credential, identity>>

-----------------------------------------------------------------------------

WorkerStep(w) ==
    \/ BeginInitial(w) \/ CheckCancelled(w) \/ StartStep(w)
    \/ RunLocalStep(w) \/ RaiseInStep(w)
    \/ AllocateAttempt(w) \/ PrepareLaunch(w) \/ ClaimAttempt(w)
    \/ CallProvider(w) \/ RecordDispatch(w) \/ RecordPending(w)
    \/ ValidatorRaises(w) \/ InspectAttempt(w) \/ CloseUnlaunched(w)
    \/ FinalizeFailedStep(w)
    \/ SaveOutcome(w) \/ IssueSignedCredential(w) \/ EmitFinalized(w)
    \/ TaskRaises(w) \/ MarkRunFailed(w)
    \/ \E t \in Tasks : BeginResume(w, t)

HandlerStep(a) ==
    \/ EnqueueNextStep(a) \/ ResumeAfterCallback(a)
    \/ \E outcome \in StepTerminal : FinalizeAfterCallback(a, outcome)
    \/ RejectCallback(a) \/ PostponeCallback(a) \/ AbortCallback(a)

WatchdogStep ==
    \/ SelectStuckRun \/ RecoverCallback \/ RecoverReturns
    \/ ReconcileFailed \/ ReconcileFailedAttempt
    \/ TimeOutRun \/ FollowTimeout

LaunchStep == EnqueueRun \/ EnqueueRaises \/ FailLaunch

Next ==
    \/ LaunchStep
    \/ \E w \in Workers : WorkerStep(w) \/ CrashWorker(w)
    \/ \E t \in Tasks : SkipDelivery(t)
    \/ \E a \in Attempts : ProviderEnds(a) \/ ReceiveCallback(a) \/ HandlerStep(a)
    \/ CancelRun \/ FollowCancel
    \/ WatchdogStep

Spec == Init /\ [][Next]_vars

(* What the deployment schedules: the request that launches, every worker   *)
(* that took a task, every callback request that was admitted, the rest of  *)
(* a cancellation, and the periodic watchdog.  Nothing forces the provider  *)
(* to answer or to deliver, the user to cancel, or a process to crash.      *)
Fairness ==
    /\ WF_vars(LaunchStep) /\ WF_vars(FollowCancel)
    /\ WF_vars(WatchdogStep) /\ SF_vars(RecoverReturns)
    /\ \A w \in Workers : WF_vars(WorkerStep(w))
    /\ \A a \in Attempts : WF_vars(HandlerStep(a))

FairSpec == Spec /\ Fairness

-----------------------------------------------------------------------------
(* The values of the variables *)

WorkerStates == [pc : {"idle", "loop", "start", "execute", "prepare", "claim",
                       "call", "accepted", "unknown", "record", "fail", "close",
                       "finalize", "save", "raised", "canceled", "issue",
                       "emit", "mark"},
                 task : Tasks, at : 1 .. (NumSteps + 1), own : 0 .. MaxAttempts,
                 target : Attempts \cup {NoAttempt}, job : BOOLEAN,
                 result : {"none", "failed", "pending"}]

TypeOK ==
    /\ AttemptsTypeOK
    /\ run \in RunActive \cup RunTerminal
    /\ released \in BOOLEAN
    /\ step \in [Steps -> StepStates]
    /\ jobName \in [Steps -> BOOLEAN]
    /\ queue \subseteq Tasks
    /\ launch \in {"enqueue", "failed", "done"}
    /\ worker \in [Workers -> WorkerStates]
    /\ launches \in [Attempts -> Nat]
    /\ ended \in [Attempts -> {"none", "output", "failed"}]
    /\ receipt \in [Attempts -> {"NONE", "PROCESSING", "COMPLETED", "REJECTED"}]
    /\ handler \in [Attempts -> {"idle", "processing", "resuming"}]
    /\ canceller \in {"idle", "follow", "done"}
    /\ watchdog \in [pc : {"idle", "decide", "recover", "fail", "follow"},
                     of : Attempts \cup {NoAttempt}]
    /\ crashes \in 0 .. MaxCrashes
=============================================================================
