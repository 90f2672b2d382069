# Verification of the Validibot execution engine

Validibot runs *workflows* of validation steps over submitted files. A run is
executed by queue workers; container steps are handed to an asynchronous
execution provider (Cloud Run), whose callback completes them and resumes the
run; users cancel runs, and a periodic watchdog ends the ones that got stuck.
All of it meets in a few database rows, written by processes that die, are
delivered twice and overtake each other. This directory models those rows and
everybody who writes them, in TLA+, checks the model with TLC and proves the
most important safety properties with TLAPS. Three further models cover what
surrounds a run: idempotent requests, the deployments that attempts are sent
to, and the editing and purging of what runs read.

Source paths below are relative to `src/validibot/`, `docs/` paths to `src/`.

## 1. The system

| Component | Source | State it keeps | Operations |
|---|---|---|---|
| Attempt ledger | `validations/services/execution_attempts.py`, `ExecutionAttempt` in `validations/models.py` | one row per hand-over of a step to a provider: number, state, nonce hash, provider identity | create, issue credentials, transition, look up |
| Launch and cancel | `validations/services/validation_run.py` | `ValidationRun.status` | `launch`, `cancel_run`, `fence_active_execution_attempt`, `cancel_active_execution` |
| Step orchestrator | `validations/services/step_orchestrator.py` | run status, one `ValidationStepRun` per step | `execute_workflow_steps` (initial and resumed), deferred signed credentials |
| Step processors | `validations/services/step_processor/` | step status and output, attempt | `execute`, `complete_from_callback` |
| Cloud Run launcher | `validations/services/cloud_run/launcher.py` | attempt, step output | idempotency check, claim, call, record |
| Callback service | `validations/services/validation_callback.py` | `CallbackReceipt` | `process`, `process_reconciliation` |
| Watchdog | `validations/management/commands/cleanup_stuck_runs.py` | nothing of its own | select, reconcile, recover, time out |
| Admission and release | `validations/services/run_admission.py` | `definition_released_at` | `admit_validation_run`, `emit_validation_run_finalized` |
| Task queues | `core/tasks/` | owed deliveries (Celery or Cloud Tasks) | `enqueue_validation_run`, `execute_validation_run_task` |
| Backends and deployments | `validations/services/execution/` | deployment records | routing, readiness, service dispatch, Docker Compose |
| Submission purge, retention | `submissions/models.py`, `validations/services/retention.py` | `PurgeRetry`, `content_purged_at` | purge, retry, queue |
| API idempotency | `core/idempotency.py` | one record per key | `idempotent` |
| Workflows | `workflows/` | definitions and versions | edit, version, validate placement |

The rest of the repository (accounts, projects, identity provider,
integrations, dashboard, help, notifications, audit, tracking, MCP and web
views, the individual validators, deployment scripts) has no protocol between
processes that feeds back into a run; `PROJECT.json` lists it with reasons.

**How they interact.** `launch` commits a PENDING run and enqueues task 0. A
worker moves the run to RUNNING and loops over the steps. Local steps are
decided in place. A container step gets an attempt row (PENDING), credentials,
is claimed (DISPATCHING) and given to the provider; the answer is stored
(RUNNING, or UNKNOWN when the call raised) and the worker returns, leaving run
and step RUNNING. The provider calls back; the callback transaction closes
step, attempt and receipt and either enqueues task *t* (resume after step *t*)
or decides the run. Whoever decides the run emits the finalization, which
releases the workflow definition for editing and the data for retention.
Cancel and watchdog decide the run in one transaction together with the fence
of the active attempt, and talk to the provider afterwards.

The request that launches a run is wrapped by the idempotency decorator. The
admission locks the workflow and the submission, which authors change and
purges delete under the same locks, and the finalization tells the retention
receiver to schedule those purges. A new attempt is pinned to the deployment
that the routing slots of its validator name at that moment.

**What is hard.** Nothing is locked across these steps: every check is made in
an earlier transaction than the write it protects; tasks and callbacks come
twice, early or late; a provider call may raise although it was accepted; any
process may die between two writes; and six places publish a decision. Around
the runs, concurrent requests share an idempotency key; operators deploy,
route, block and delete releases while attempts are dispatched to them; and
purges select submissions that are used again meanwhile. `PROJECT.json` lists
these hazards line by line.

## 2. The modules

| Module | What it is |
|---|---|
| `ExecutionAttempts` | The attempt ledger, as an arbitrary caller may use it. The abstract specification of how the engine may touch attempt rows. |
| `ValidationRun` | The engine: launch, queue, workers, launcher, provider, callbacks, cancel, watchdog. Extends the ledger. |
| `RunLifecycle` | What a run promises its readers: ordered steps, one verdict each, one decision, release afterwards. Knows no worker, queue, attempt or callback. |
| `RunProperties` | The properties of `ValidationRun`, the refinement of `RunLifecycle` (`Life`, `INSTANCE ... WITH`) among them. |
| `IdempotentCalls` | What an idempotency key promises to its callers: a claim for one request at a time, true replays, refusals. |
| `Idempotency` | The decorator, query by query, and the command that deletes expired keys. Implements `IdempotentCalls`. |
| `Deployments` | Deployment rows and routing slots of one backend: import, routing, certification, emergency blocks, allocation and claim of attempts, cleanup, retirement. |
| `EditingPolicy` | The definition-use fence of one workflow row: admissions, releases, and the changes it refuses. |
| `Retention` | What is kept of runs and submissions: the finalization's receiver, deadlines, `purge_content`, the three scheduled commands. Extends `EditingPolicy`. |
| `MCValidationRun`, `MCIdempotency`, `MCDeployments`, `MCRetention` | Constants and symmetry for TLC. |
| `ExecutionAttemptsProofs` | Theorems about the ledger. |
| `ValidationRunProofs`, `CallbackProofs` | Theorems about the engine in every environment; `CallbackProofs` extends `ValidationRunProofs`. |
| `OrderlyProofs`, `LifecycleProofs` | Theorems about the engine under a named assumption on its environment (`Orderly`, `Undisturbed`); each extends the one before. |
| `IdempotencyProofs`, `DeploymentsProofs`, `RetentionProofs` | Theorems about the other modules. |

The four models (`ValidationRun`, `Idempotency`, `Deployments`, `Retention`)
are separate because they meet in few places, and each takes the others as a
choice: `Retention` lets a run end at any time, whoever is at work for it, and
those at work go on as long as they like; `Idempotency` lets the view create a run or not; `Deployments` lets
an attempt end at any time.

### State

Of the engine: `run`, `released`, `step`, `attempt`, `credential`, `identity`
and `receipt` are the database columns (`released` is `definition_released_at`,
`identity` is `provider_execution_id`, `credential` the nonce hash).
`jobName[s]` says that the step's output names a launched job. `queue` holds
the tasks the transport still owes: 0 is the initial task, *t* > 0 resumes
after step *t*. `worker[w]` is what a task delivery holds in local variables:
the program point `pc`, its task, the step `at` of the loop, the number of its
`own` attempt, the `target` attempt the launcher works on (the code looks it up
through the run's *current* step, so the two can differ), `job` and the loop's
`result`. `handler[a]` is a callback request that holds the receipt of *a*
locked; `canceller`, `watchdog` and `launch` are the program points of the
other actors. `launches` and `ended` belong to the provider, which is external.

Of a key (`Idempotency`): `row` is the `IdempotencyKey` row or none, identified
by the request that created it; `expired` are the rows whose 24 hours are over,
`seen[r]` those a request found expired at its own `now`; `pc` and `answer` are
each request's progress and reply; `runs` are the requests whose view created
a run.

Of deployments: one row for each Validator, kind (Service, Job) and release,
with the columns `readiness`, `role` (the routing slot), `accepted`, `blocked`,
`quiet` (time since `deactivated_at`), `deleted`; `provider` is the Cloud Run
resource; `attempt` and `pinned` are unfinished attempts; `certifier` and
`cleaner` hold the progress of the two recipes of several transactions.
`exposed` and `unparked` are history variables that name the exemptions of two
properties; no guard reads them.

Of retention: `status`, `input`, `ended` of each run; `atWork` (a worker, a
callback's handler or a provider's job that may still write for it); `outputs`
(rows and files that exist) against the columns `outDeadline` and `outPurged`; `purged`,
`expires` and the `PurgeRetry` row `retry` of each submission. `finalizer` and
`plan` are where the emission of a run's finalization is, and the deadline it
has computed; `sweep` and `selected` belong to `purge_expired_submissions`,
`batch` and `task` to each `process_purge_retries`. `passed` is the clock, and
`settled` and `overlapped` are history variables: runs whose deadlines the
sweep has repaired, and runs that were at work when their outputs were purged. The
workflow row is `policy`, `contract`, `steps` (bits that flip when they
change), `admitted` and `released`.

### Actions

An action is one database transaction or one call to the outside.

| Actions | Code |
|---|---|
| `EnqueueRun`, `EnqueueRaises`, `FailLaunch` | `launch` after the admission commit |
| `BeginInitial`, `BeginResume`, `SkipDelivery` | the entry of `execute_workflow_steps`: compare-and-set for task 0, a status check for a resume |
| `CheckCancelled`, `StartStep`, `RunLocalStep` | the step loop, `_start_step_run`, simple processors, a container step whose validator is not registered |
| `RaiseInStep` | an exception anywhere inside the loop reaches the handlers at `step_orchestrator.py:254-281` and 365: run and usually step become FAILED, also when an attempt was claimed or launched before (`persist_findings`, `_record_pending_state`), and the step stays as it is when the lookup, the recording or the nested save raises |
| `AllocateAttempt`, `PrepareLaunch`, `ClaimAttempt`, `CallProvider`, `RecordDispatch`, `RecordPending` | `AdvancedValidationProcessor.execute` and the launcher |
| `ValidatorRaises`, `InspectAttempt`, `CloseUnlaunched`, `FinalizeFailedStep` | a step that fails in `execute`: its attempt is read, closed if it was PENDING, and the step finalized, in three transactions (`pc` "fail", "close", "finalize"); a claimed attempt stays as it is |
| `SaveOutcome`, `IssueSignedCredential`, `EmitFinalized` | the end of `execute_workflow_steps` |
| `CrashWorker` | the worker dies; its task is not acknowledged |
| `TaskRaises`, `MarkRunFailed` | an error outside every handler of `execute_workflow_steps` (`Unguarded`: before the loop, at the check for cancellation that follows it, and behind it) reaches the task: Celery's last-resort handler reads the run, and saves FAILED in a second step (`pc` "mark") without emitting anything |
| `ReceiveCallback`, `EnqueueNextStep`, `ResumeAfterCallback`, `FinalizeAfterCallback`, `RejectCallback`, `PostponeCallback`, `AbortCallback` | the callback service; everything after admission is one transaction, `EnqueueNextStep` is the call in it that may become visible earlier |
| `CancelRun`, `FollowCancel` | `cancel_run`, its transaction and the rest |
| `SelectStuckRun`, `RecoverCallback`, `RecoverReturns`, `ReconcileFailed`, `ReconcileFailedAttempt`, `TimeOutRun`, `FollowTimeout` | `cleanup_stuck_runs` |
| `Idempotency`: `Begin`, `Find`, `DeleteExpired`, `Create`, `Refetch`, `Execute`, `ExecuteUnprotected`, `Complete`, `Release`; `CleanUp` | `core/idempotency.py`, one query each (there is no transaction around them); `cleanup_idempotency_keys` |
| `Deployments`: `Deploy`, `Import`, `Route`, `SetBlock` | the deployment tool, the sync commands, `activate_backend_release`, the emergency block |
| `CertifyService`, `CertifyJob`, `Accept`, `RoundTrip`, `Return`, `Settle`, `FailCertification`, `Park`, `CertifierDies` | the certification recipe |
| `Allocate`, `Claim`, `End` | attempts against routes and blocks |
| `Drain`, `PlanCleanup`, `PlanLatestOnly`, `DeleteProvider`, `RecordDeleted`, `RecordingEnds`, `Retire`, `CleanerDies` | `validator-cleanup`, `validator-latest-only` |
| `EditingPolicy`: `AdmitRun`, `ReleaseDefinition`, `ChangeContract`, `ChangeSteps`, `ChangePolicy` | `run_admission.py`, `editing_policy.py` |
| `Retention`: `Admit`, `Begin`, `WriteOutput`, `Leave`, `Finish`, `Cancel` | admissions, whoever works for a run and what it writes, and the ends of runs, which wait for nobody |
| `Schedule`, `WriteDeadline`, `QueuePurge`, `Release`, `MissSignal`, `FinalizerDies` | the emission of the finalization |
| `RepairDeadlines`, `Select`, `PurgeExpired`, `SweepDies` | `purge_expired_submissions` |
| `ListRetries`, `ProcessRetry`, `FailRetry`, `SaveRetry`, `RetryDue`, `WorkerDies` | `process_purge_retries` |
| `RepairOutputs`, `PurgeOutputs` | `purge_expired_outputs` |

`Environment` says which outside events may happen (duplicate delivery, crash,
cancel, timeout, early callback, failed provider call, failed enqueue,
permanently rejected callback, a resume task that overtakes its transaction, a
task that ends with an error, and, as "pending_error", the same after the worker
has left its step to the provider).
The proofs hold for every subset; each run picks the events its question is
about.

Definitions marked "Faulty" directly before the definition they vary
(`LateOutputTransitions`, `SaveAndRelease`, ...) are not used by the
specification. They are plausible mistakes in the code, kept to show for each
property that it depends on the code being right: put in place of the correct
definition, TLC finds the property violated.

### Abstractions

- Time: a deadline may have passed whenever the watchdog looks. The bounded
  grace window for status lookups is a later look.
- What a validator, an action or an envelope check computes is a choice.
- The EnergyPlus launcher stands for the five launchers of `launcher.py`,
  whose control is the same.
- A failure between two transactions that the code does not handle (the
  database is gone) is a crash.
- Two undelivered copies of one resume task are one element of `queue`;
  duplicate delivery covers what the second copy could do.
- `_mark_step_run_running` and `_record_pending_state` are consecutive saves of
  the same worker and form one action.
- A transient error that Celery retries is a crash with its redelivery; retries
  that are exhausted are not modelled.
- `Idempotency`: the requests share one (org, key, endpoint), so the table is
  one row; a body is its hash.
- `Deployments`: a command's transaction is one action. Digests, images, specs
  and capabilities are left out: a pair either verifies or was never imported.
- `Retention`: a deadline is the number of the run end it counts from, and has
  passed when the counter `passed` is above it; deadlines of outputs and
  retries may pass at any time. Which of the workflow's parts an edit changes
  is one bit for the contract and one for the steps. Outputs are findings,
  artifacts, values and files; error texts and the locations in receipts and
  attempts, which a late answer stores again after a purge, are left out.
- `EditingPolicy`: the check whether a version is in use is made below the lock
  of the workflow. `Ruleset.save` (`validations/models.py:503`) takes the lock
  without that check; the editors of steps (`workflows/views/steps.py:1240`) and
  of assertions (`assertion_mutations.py:64`, 91) call `full_clean` below it,
  and the model depends on their doing so.
- Signed credentials come last and are tolerated (the placement rule of
  `workflows/models.py`, `CredentialsLast`).

## 3. The runs

Every passing property has a mutant in `PROJECT.json` that breaks it. Deadlock
checking is off everywhere: a finished run leaves nothing to do.

| Run | Environment | What it shows | Distinct states |
|---|---|---|---|
| `lifecycle` | failed provider calls, rejected callbacks, tasks that end with an error; four steps, one of each kind | The engine implements `RunLifecycle` (`ImplementsLifecycle`). A run is released only when no worker reads the definition any more (`ReleasedMeansDone`); while the run waits for a step, a callback of it that was answered 200 has a verdict in the ledger (`OutputNotDropped`). | 1,642 |
| `redelivery` | duplicates, one crash, failed provider calls | One provider execution per attempt (`LaunchOnce`), one active attempt (`OneActive`), retries in order (`NumbersInOrder`), an output is applied once, attempt and receipt together (`ProcessedOnce`). | 851,342 (up to symmetry) |
| `early_answers` | early callbacks and resume tasks, one crash, rejected callbacks, cancel | The engine implements the ledger (`ImplementsLedger`); a completed step is followed up (`NoLostResume`). | 1,435,115 (up to symmetry) |
| `stop_races` | cancel, timeout, duplicates, failed calls and enqueue, early callbacks, tasks that end with an error at any point | A run is released only when decided (`ReleasedMeansTerminal`); a decision is only overwritten by an unlocked save of a worker (its last-resort handler included) or the launching request (`OverwrittenOnlyByWorker`); terminal attempts stay (`NeverReopens`). | 397,566 (up to symmetry) |
| `watchdog` | timeout, failed provider calls, failed enqueue, cancel; fair | Every running run ends (`RunEnds`), every decision is published (`RunReleased`); success means that every step passed (`SuccessMeansPassed`), at most one step is waited for (`OneActiveStep`), each step is given to the provider once (`OneLaunchPerStep`), a running run is somebody's (`NotStranded`). | 34,595 |
| `idempotency` | crash at any query, expiry at any moment; fair | Of two requests that created a run and hold the key, or were answered under it, one had its 24 hours before (`OneRunPerKey`); replays are responses of the same body (`ReplaysAreTrue`); no key is blocked for ever by a dead process (`KeyIsFreed`); the decorator implements `IdempotentCalls` (`ImplementsCalls`). | 250,604 |
| `deployments` | one mishap: a block, a command cut off, or a route to a release that is being cleaned up | All Validators run one release in one mode at every moment (`RoutesUniform`); what is retired is in no use (`RetiredIsUnused`); what is routed or pinned exists at the provider (`ServedIsPresent`); live work goes to accepted releases (`LiveWorkIsAccepted`); a blocked Service is not contacted for a pending attempt (`NoContactAfterBlock`). | 429,368 (up to symmetry) |
| `retention` | one mishap: a missed signal, a process that dies, a deletion that fails; fair | Nothing is purged in use, nothing purged is used (`NoActiveRunOnPurged`); what was purged when nobody was at work for the run stays purged (`PurgedIsEmpty`); review windows are kept although signals are missed (`KeptForReview`); a definition holds still while it is read (`DefinitionIsStable`); what is not kept for ever is purged in the end (`ContentIsDeleted`, `OutputsAreDeleted`). | 516,784 |

The remaining runs show where the code and its documentation disagree; each
checks one sentence of the repository, which TLC refutes.

| Run | Sentence | What happens |
|---|---|---|
| `crash_then_success` | "Processes steps sequentially, stopping on failure or when an async validator returns pending." (`docs/dev_docs/overview/service_architecture.md:108`), "A RUNNING step is treated as a crashed prior attempt: its findings are cleared and it is re-executed." (`step_orchestrator.py:553`) | A worker that resumed the last step dies after allocating its attempt. The redelivered task skips the step because it has history, reaches the end of the loop and saves SUCCEEDED. |
| `cancel_overwritten` | "The terminal decision is authoritative even if the provider is unavailable." (`validation_run.py:570`) | A step raises, a cancellation commits, and the worker's unconditional save turns CANCELED into FAILED; the saves after a last check are exposed in the same way. |
| `second_launch` | "Never reinterpret it as a crashed task and launch a second provider execution." (`step_orchestrator.py:607`), "Transport retries never authorize a second provider launch ..." (`docs/dev_docs/deployment/environment-configuration.md:480`) | Two deliveries pass the history check before either allocates; one launches, a cancellation fences its attempt, the other creates a second attempt and launches again. |
| `stuck_pending` | "the command marks them as `TIMED_OUT` after the configured `VALIDATOR_TIMEOUT_SECONDS` threshold" (`docs/dev_docs/overview/execution_backends.md:516`) | A worker dies between allocating and claiming. PENDING cannot become TIMED_OUT, the fence raises, the timeout rolls back, at every visit. |

### Bounds, and why they are enough

- **Steps**: 2, a container step and the step that is resumed into. All
  protocols concern a step and its successor. In `stop_races` and `watchdog`
  the second step is local, which keeps the deciders, the errors and the
  launch of the first within reach; in `redelivery` and `early_answers` both
  are container steps, because there the launch after a resume matters.
  `lifecycle` has one step of each
  kind, because there the loop itself is the subject.
- **Workers**: 2. Every race in the list is between two deliveries, or between
  a delivery and an actor of another kind; those are always present. What holds
  of two deliveries or two steps only is not claimed: with three concurrent
  deliveries of one task (and a failed provider call) TLC finds
  `OneLaunchPerStep` violated, and with duplicates and three container steps
  `NotStranded`; neither is a property of a run with duplicates.
- **`MaxAttempts` = 2**: a step with history is not executed again, and each
  worker that passed the history check creates at most one row, so two workers
  create at most two rows.
- **`MaxCrashes` = 1**: properties about recovery concern one loss and the
  redelivery after it.
- **Environments** are split by question: all events together exceed what can
  be explored, and some properties hold only without an event that is known to
  break them (see below). `stop_races` has both deciders, duplicates and a
  failed launch at once.
- **Symmetry** of workers is used for safety runs only.

- **`idempotency`**: three requests, two of one body. Two contend for a row,
  and the third finds what they left.
- **`deployments`**: two Validators (uniformity needs two), two releases (one
  routed, one to replace or clean up), one attempt, `MaxMishaps` = 1.
- **`retention`**: one submission of each policy in turn, two runs that use it
  (the second one may be admitted at any point of a purge of the first), two
  overlapping retry workers, `MaxMishaps` = 1. One run may be cancelled
  (`Cancelable`). The workflow is edited only where the submission is kept for
  ever (`Edited`): edits and purges share no variable, and the theorem
  `StableDefinition` covers the other policies. Who is at work is followed
  under the same policy (`Followed`): outputs and submissions are purged by
  different commands, and `PurgedOutputsGone` covers the others.

The proofs are for arbitrary values of all of these constants.

Properties that are checked in fewer environments than one may expect, because
the code does not provide them: `SuccessMeansPassed`, `OneActiveStep` and
`NotStranded` not under crashes, duplicates or early callbacks (a delivery that
finds its step at the provider skips it, and opens or decides what is behind;
a late save of RUNNING reopens a completed step), `OneActiveStep` and
`NotStranded` not under early resume tasks either (two steps are RUNNING until
the callback commits),
`NotStranded` not under rejected callbacks (step and run wait for an answer
that was refused), `OneLaunchPerStep` not under duplicates (`second_launch`), `RunEnds` not under crashes (`stuck_pending`) nor rejected
callbacks (the closed receipt answers 200 and the watchdog takes the run for
reconciled), `RunReleased` not under crashes (the emission is lost) nor under
"task_error" (the last-resort handler emits none),
`OutputNotDropped` not under duplicates nor early callbacks (a late save of RUNNING reopens a
completed step, and the output of the next one is then closed as late),
`ReleasedMeansDone` not under cancel, timeout or a failed launch (the worker
notices a cancellation after the step, and the others not at all),
`ImplementsLifecycle` not under "pending_error" (the last-resort handler decides
a run whose callback may decide it, too).
`OutputNotDropped` speaks of active runs only: once a run is decided, by
anybody, outputs that still arrive are closed with 200 whatever their attempt
is, and the attempt may stay RUNNING for good. A worker alone can bring that
about: an error after the launch fails step and run (`RaiseInStep`) and leaves
the job to itself.
`PurgedIsEmpty` excepts runs for which somebody was at work when they were
purged. The code does not prevent that: `purge_expired_outputs` takes a run
that is not stored from a minute after `ended_at` on, emitted or not
(lines 102-105), while the comment at `step_orchestrator.py:503` relies on the
emission ("The retention receiver makes the run immediately eligible for
deletion, so emitting earlier would race the purge worker"); a run is ended by
a callback while its launching worker still records, by the launching request
while a queued worker executes, by cancel and watchdog, and by a worker that
has summary, hash and evidence left to write. What is written then is not
purged again, because `output_purged_at` is set.
These are listed as hazards.

### Fairness

`Fairness` is weak fairness of the processes the deployment keeps running: the
launching request, every worker that has a task, every callback request that
was admitted, the rest of a cancellation, and the watchdog, which a scheduler
starts periodically. `RecoverReturns` is strongly fair, because its guard (the
receipt's lock is free) can be interrupted by redelivered callbacks: a lock
that is released again and again is eventually obtained. Nothing makes the
provider answer or deliver, the user cancel, or a process crash: `RunEnds`
holds although the provider may stay silent.

`Idempotency` is fair to a request that was accepted and did not die, to time,
and to the scheduled clean-up. `Retention` is fair to runs (they end, by
`RunEnds`), to time, and to the three scheduled commands. Nothing is assumed of
finalizers: signals may be missed and the deletions still happen. `Deployments`
has no liveness property: operators owe nothing.

## 4. The proofs

| Theorem | States |
|---|---|
| `LedgerSafe`, `LedgerOneActive`, `LedgerInOrder`, `LedgerNeverReopens` | the ledger alone, for arbitrary callers |
| `TypeCorrect` | `Spec => []TypeOK` |
| `EngineImplementsLedger` | `Spec => ImplementsLedger`: initial states and steps of the engine are those of the ledger |
| `EngineOneActive`, `EngineNumbersInOrder`, `EngineNeverReopens` | the ledger's properties, inherited through that refinement |
| `ReleasedAfterDecision` | `Spec => []ReleasedMeansTerminal` |
| `WorkersAloneOverwrite` | `Spec => OverwrittenOnlyByWorker` |
| `LaunchedOnce` | `Spec => []LaunchOnce` |
| `OutputAppliedOnce`, `ResumeNeverLost` | `Spec => []ProcessedOnce`, `Spec => []NoLostResume` |
| `OrderlyOneActiveStep`, `OrderlySuccess`, `OrderlyOneLaunch` | under `Orderly`: `Spec => []OneActiveStep`, `[]SuccessMeansPassed`, `[]OneLaunchPerStep` |
| `OrderlyOutput` | under `Orderly`: `Spec => []OutputNotDropped` |
| `OrderlyNotStranded` | under `Orderly` and without rejected callbacks: `Spec => []NotStranded` |
| `UndisturbedRelease` | under `Undisturbed`: `Spec => []ReleasedMeansDone` |
| `UndisturbedLifecycle` | under `Undisturbed`: `Spec => ImplementsLifecycle`, initial states and steps of the engine are those of `RunLifecycle` |
| `IdempotencyProofs`: `TypeCorrect`, `OneRun`, `TrueReplays`, `Implements` | the safety of a key, and that the decorator implements `IdempotentCalls` |
| `DeploymentsProofs`: `TypeCorrect`, `UniformRoutes`, `RetiredUnused`, `PresentWhenServed`, `AcceptedWork`, `BlockedStaysPending` | every property of `Deployments` |
| `RetentionProofs`: `TypeCorrect`, `NoRunOnPurged`, `PurgedOutputsGone`, `ReviewWindow`, `StableDefinition` | every safety property of `Retention` |

Those of the engine hold for every number of steps, workers, attempts and
crashes, every assignment of kinds and every `Environment` (the seven under
`Orderly` or `Undisturbed`: every one that these allow), from the named
assumptions of `ExecutionAttempts` and `ValidationRun` (steps are `1 ..
NumSteps`, kinds are kinds, credentials come last, `NoAttempt` is no attempt).
Those of the other modules hold for every set of requests, Validators,
attempts, runs, submissions and workers, every policy and every number of
releases and mishaps.

**Argument.** `TypeOK` is not inductive: whether `attempt' = Moved(Own(w), ..)`
keeps the type depends on where the worker is. `TypeInv` adds `WorkerInv`
(where a worker is determines which step, row and target it holds) and
`WatchdogInv`. `EngineStep` shows that under `TypeInv` every action is a ledger
step or a stutter; so the ledger's invariant is the engine's, and both together
are `EngineInv`, on which everything else rests. `ReleasedMeansTerminal` needs
`DecisionInv`: everybody who is about to publish has seen a decision, and a
terminal run never becomes active again (`EveryRunMoves` lists the ways the
status moves). `LaunchOnce` needs `LaunchInv`: nothing is launched for an
unclaimed row, a worker about to call holds a claimed row for which nothing was
launched, and no two such workers share a row; the claim is what makes it
inductive, since a claimed row never becomes unclaimed (`ClaimsAreKept`).

`ProcessedOnce` is inductive under `EngineInv`: only the callback of an attempt
completes it (`OnlyCallbacksComplete`), and only callbacks touch receipts
(`OnlyCallbacksReceive`). `NoLostResume` is not: the resume task may be taken
by a worker that dies, or left by a callback that has not committed.
`ResumeInv` adds what keeps the follow-up alive: a completed or completing step
has its task in the queue or its successor opened, and a worker that could
acknowledge that task has opened the successor, or will (`Ahead`, `Fresh`).
`UntouchedInv` (nobody works for a PENDING run) is what makes it hold when the
run begins.

Seven theorems depend on the environment, because the code's promises do. Both
assumptions are about `Environment`, a constant, and never about a state.
`Orderly` leaves out duplicate deliveries, crashes, early callbacks and early
resume tasks; failed calls and enqueues, rejected callbacks, errors of tasks at
any point, cancel and timeout remain. `Undisturbed` leaves out, in addition, everybody who
decides about a run beside its workers and callbacks: cancel, timeout, the
failed launch, and the last-resort handler of a worker that has left its step
to the provider. None of these can be spared: on three container steps and two
workers, TLC refutes `OneActiveStep` and `NotStranded` in the environment of
each of the first four events alone, and on two steps `ReleasedMeansDone` in
that of cancel, timeout and a failed launch, and on the four steps of
`lifecycle` `ImplementsLifecycle` in that of "pending_error". `lifecycle` runs in the largest environment that
`Undisturbed` allows; `watchdog` in an `Orderly` one with both deciders.

Under `Orderly` the run is a *token* that one actor holds. `TokenInv` says so:
at most one worker is `Driving` (it has not left its step to the provider, seen
a cancellation, or come to the emission); while a resume task is `Waiting` to
be taken, or a callback request holds a receipt, there is none. What the holder
may rely on depends on where it is (`Placed`): before a step, the workflow has
come exactly there (`Front`: everything earlier cleared, everything later
absent); inside a step, it is RUNNING and, while the run is undecided, the row
the worker launches is in the state the worker left it in, and nothing else was
launched for an open step (`Held`); behind the loop, no step is RUNNING, or all
are cleared; a worker that has raised may leave its step RUNNING, but decides
the run. `ShapeInv` is the same from the side of
the rows: steps are opened in order, a step has one row, and claimed rows of an
undecided run belong to the RUNNING step. Each worker action passes the token
on (`DriverMoves`) or happens beside it (`BesideToken`); `TakesToken` and
`RequestCompletes` are where it changes hands. `OneActiveStep`,
`SuccessMeansPassed` and `OneLaunchPerStep` are read off. `OutputNotDropped`
is `ReceiptInv`: while the run waits for a step, a receipt of it is closed only
by the request that moves its attempt, since `Held` and `ShapeInv` leave no
other step that could be current. `NotStranded` needs
that the token is never dropped (`CarriedInv`: of a running run some worker
drives, some resume task waits, or some claimed row is awaited), for which the
receipts must not be closed without a verdict either, and a task in
progress must be behind the run (`ResumedInv`), or its acknowledgement could
remove the next one.

Under `Undisturbed`, `CalmInv` adds what happens after the decision: only a
worker at the issuance still drives, no callback request holds a receipt, and
where the run is released, or about to be, nobody drives: this is
`ReleasedMeansDone`. Rows may still be claimed (their run failed after the
launch); their answers are closed without being applied. With both invariants every step of the engine is one of
`RunLifecycle` or a stutter (`WorkingImplements`, `FinishingImplements`,
`CallbackImplements`): `Placed` gives the guard of `Open` and `Close`,
`SuccessMeansPassed` that of `Decide`, `CalmInv` that of `Revoke`.

Of a key: `HolderKeepsKey` (who executes under the key, or was answered under
it, has the row until its 24 hours are over) gives `OneRunPerKey`, because the
table has one row; `StoredIsTrue` gives `ReplaysAreTrue`; both together make
every query a step of `IdempotentCalls` or a stutter.

Of deployments: `RoutesUniform` and `RetiredIsUnused` are inductive with
`UsedExist` (only imported rows are used, only READY ones routed).
`RiskIsExposed` strengthens `ServedIsPresent` to releases that are *about* to
lose a resource, and `RoutesKnown` says whose routes lead to unaccepted
releases, from which `LiveWorkIsAccepted` follows.

Of retention: `Uses` ties runs, submissions, finalizers and the workflow's
counts together; `OnlyUnstored` keeps `PurgeRetry` away from review windows;
`Settling` says that since a repair no deadline lies before the window of a
repaired run, and what is selected is past it: with them `KeptForReview` is a
property of one step. `Quiet` says that whoever may write what was purged was
at work at the purge; it holds because only final runs are purged and nobody
begins to work for a final run, and gives `PurgedIsEmpty`.

**Only model-checked**: liveness (`RunEnds`, `RunReleased`, `KeyIsFreed`,
`ContentIsDeleted`, `OutputsAreDeleted`; fairness and ENABLED are out of the
prover's reach). Every invariant, action property and refinement that a passing
run checks is also proved.

## 5. Not modelled

Of the engine: steps that complete synchronously in the Docker Compose
backend; the Service dispatch beyond its claim; a watchdog batch of several
runs; crashes of the watchdog or of the cancel request; a Celery task whose
retries are exhausted; a PENDING run whose first task the broker loses; errors
in summaries and evidence after the final save on Cloud Tasks, which answers
them by delivering the task again. Findings, outputs, evidence and tracking
follow the statuses and never feed back.

Of deployments: the immutable identity of a row, capacity, retained release
records, other backends, Validators that are enabled or disabled meanwhile.
Of retention: batch sizes, policies that change, the bytes. Of workflows:
versions (another row each), publishing, access, safe widenings of a contract.

Most of the repository is none of this: forms, views, settings, validators and
assertion engines, envelope building, accounts, integrations, operations
scripts. They compute a value within one request or one task and have no state
that two processes change, so a model of them would restate their assignments.
`PROJECT.json` names them with the status not_modelled.

## 6. Plan

Done: ledger, engine with its last-resort handler, lifecycle, idempotency
keys, deployments, editing and retention, their properties and refinements,
and the proofs above. Left, in this order:

1. `ValidationRun`: the synchronous (Docker Compose) backend, and the Service
   dispatch next to the Job launch.
2. `WatchdogBatch`: several runs and a raising fence.
3. Proofs: which of the theorems under `Orderly` survive single excluded events
   (a crash without duplicates, for instance, and `OneLaunchPerStep`).
