------------------------------ MODULE Retention ------------------------------
(***************************************************************************)
(* What is kept of a run and of its submission, and for how long:          *)
(* validations/services/retention.py, the purge of submissions/models.py,  *)
(* the receiver of validation_run_finalized, and the three scheduled       *)
(* commands (purge_expired_submissions, process_purge_retries,             *)
(* purge_expired_outputs), beside admissions (run_admission.py), runs that *)
(* end, and authors who change the workflow (EditingPolicy).               *)
(*                                                                         *)
(* Transactions that lock the submission or the run are one action; the    *)
(* receiver and the commands have none around them, and are one action for *)
(* each query whose result they use later.                                 *)
(*                                                                         *)
(* Time: runs end in an order, the k-th has ended[r] = k, and all finite   *)
(* windows of submissions have the same length, so that a deadline is the  *)
(* number of the end it counts from (0: the receipt), and it has passed    *)
(* when it is below the counter "passed".  Deadlines of outputs and of     *)
(* retries may pass at any time.                                           *)
(*                                                                         *)
(* Left out: what the run does (ValidationRun), several finalizations of   *)
(* one run (they compute the same deadlines), policies that change or are  *)
(* unknown, batch sizes and limits, the bytes (a failed deletion rolls     *)
(* back and leaves every mark as it was), evidence; the repair of a        *)
(* deadline is one step.  Of the outputs, findings, artifacts, values and   *)
(* files count; error texts and the locations in receipts and attempts,     *)
(* which a late answer stores again, are left out.                          *)
(***************************************************************************)
EXTENDS EditingPolicy, FiniteSets

CONSTANTS
    Submissions,
    NoSubmission,
    InputPolicies,      \* retention_policy a submission may have
    OutputPolicies,     \* output_retention_policy each run may have
    Cancelable,         \* bound: runs that are cancelled or time out
    Edited,             \* bound: input policies under which the workflow is
                        \* edited; editing and purging share no state
    Followed,           \* bound: input policies under which it is followed
                        \* who is at work; submissions and outputs are
                        \* purged apart
    RetryWorkers,       \* process_purge_retries that may overlap
    MaxMishaps          \* bound on failed deletions, missed signals and
                        \* processes that die

Retentions == {"DO_NOT_STORE", "STORE_DAYS", "STORE_PERMANENTLY"}

ASSUME RetentionAssumption ==
    /\ IsFiniteSet(Runs)
    /\ NoSubmission \notin Submissions
    /\ InputPolicies \in [Submissions -> SUBSET Retentions]
    /\ OutputPolicies \in [Runs -> SUBSET Retentions]
    /\ MaxMishaps \in Nat

VARIABLES
    inputPolicy,    \* retention_policy of each submission, never changed
    outputPolicy,   \* output_retention_policy of each run, never changed
    status,         \* of each run: ABSENT, ACTIVE, ENDED or CANCELED
    input,          \* the submission of each run that was admitted
    ended,          \* ended_at; 0 before
    atWork,         \* a worker, a callback's handler or a provider's job of
                    \* the run is at work and may write
    outputs,        \* detailed outputs of the run may exist
    outDeadline,    \* output_expires_at is set
    outPurged,      \* output_purged_at is set
    overlapped,     \* history: runs that were at work when they were purged
    finalizer,      \* where the emission of validation_run_finalized is
    plan,           \* the deadline it has computed
    purged,         \* content_purged_at is set
    expires,        \* expires_at of each submission
    retry,          \* its PurgeRetry row: none, due, later
    sweep,          \* purge_expired_submissions: idle, select, purge
    selected,       \* submissions it has selected
    settled,        \* history: runs whose deadlines it has repaired
    batch,          \* submissions each process_purge_retries has listed
    task,           \* the row it has yet to write
    passed,         \* deadlines that are over
    mishaps

policies == <<inputPolicy, outputPolicy>>
workVars == <<atWork, overlapped>>
runVars == <<policies, status, input, ended, outputs, outDeadline, outPurged,
             workVars>>
finalVars == <<finalizer, plan>>
subVars == <<purged, expires, retry>>
sweepVars == <<sweep, selected, settled>>
retryVars == <<batch, task>>
useVars == <<policy, contract, steps, admitted, released>>
vars == <<runVars, finalVars, subVars, sweepVars, retryVars, useVars, passed,
          mishaps>>

NoDeadline == -1
NoTask == <<>>
Deadlines == 0 .. Cardinality(Runs)

Init ==
    /\ InitDefinition
    /\ inputPolicy \in {f \in [Submissions -> Retentions] :
                           \A s \in Submissions : f[s] \in InputPolicies[s]}
    /\ outputPolicy \in {f \in [Runs -> Retentions] :
                            \A r \in Runs : f[r] \in OutputPolicies[r]}
    /\ status = [r \in Runs |-> "ABSENT"]
    /\ input = [r \in Runs |-> NoSubmission]
    /\ ended = [r \in Runs |-> 0]
    /\ atWork = [r \in Runs |-> FALSE]
    /\ outputs = [r \in Runs |-> FALSE]
    /\ outDeadline = [r \in Runs |-> FALSE]
    /\ outPurged = [r \in Runs |-> FALSE]
    /\ overlapped = {}
    /\ finalizer = [r \in Runs |-> "none"]
    /\ plan = [r \in Runs |-> NoDeadline]
    /\ purged = [s \in Submissions |-> FALSE]
    \* _sync_retention_expiry, when the submission is created
    /\ expires = [s \in Submissions |->
                      IF inputPolicy[s] = "STORE_DAYS" THEN 0 ELSE NoDeadline]
    /\ retry = [s \in Submissions |-> "none"]
    /\ sweep = "idle" /\ selected = {} /\ settled = {}
    /\ batch = [p \in RetryWorkers |-> {}]
    /\ task = [p \in RetryWorkers |-> NoTask]
    /\ passed = 0
    /\ mishaps = 0

Terminal(r) == status[r] \in {"ENDED", "CANCELED"}
NumberEnded == Cardinality({r \in Runs : Terminal(r)})
RunsOf(s) == {r \in Runs : input[r] = s}
InUse(s) == \E r \in RunsOf(s) : ~Terminal(r)
Ends(s) == {ended[r] : r \in RunsOf(s)} \cup {0}
LatestEnd(s) == CHOOSE k \in Ends(s) : \A j \in Ends(s) : j <= k
Over(deadline) == deadline # NoDeadline /\ deadline < passed

Mishap == mishaps < MaxMishaps /\ mishaps' = mishaps + 1

-----------------------------------------------------------------------------
(* Runs *)

(* admit_validation_run; submissions are used again *)
Admit(r, s) ==
    /\ AdmitRun(r)
    /\ ~purged[s]
    /\ input' = [input EXCEPT ![r] = s]
    /\ status' = [status EXCEPT ![r] = "ACTIVE"]
    /\ UNCHANGED <<policies, ended, outputs, outDeadline, outPurged, workVars,
                   finalVars, subVars, sweepVars, retryVars, passed, mishaps>>

(* A worker begins when the run is not final: a task of a run that has      *)
(* ended is skipped, a callback of it closed without being applied          *)
Begin(r) ==
    /\ status[r] = "ACTIVE" /\ inputPolicy[input[r]] \in Followed
    /\ ~atWork[r]
    /\ atWork' = [atWork EXCEPT ![r] = TRUE]
    /\ outputs' = [outputs EXCEPT ![r] = TRUE]
    /\ UNCHANGED <<policies, status, input, ended, outDeadline, outPurged,
                   overlapped, finalVars, subVars, sweepVars,
                   retryVars, useVars, passed, mishaps>>

(* Findings, artifacts, step outputs, the summary.  No write looks at the   *)
(* run again: it may have been ended meanwhile by a callback, the           *)
(* launching request, a cancellation or the watchdog, and a worker stores   *)
(* summary, output hash and evidence after its own final save.              *)
WriteOutput(r) ==
    /\ atWork[r]
    /\ outputs' = [outputs EXCEPT ![r] = TRUE]
    /\ UNCHANGED <<policies, status, input, ended, outDeadline, outPurged,
                   workVars, finalVars, subVars, sweepVars, retryVars, useVars,
                   passed, mishaps>>

(* It returns, waits for the provider, or dies *)
Leave(r) ==
    /\ atWork[r]
    /\ atWork' = [atWork EXCEPT ![r] = FALSE]
    /\ UNCHANGED <<policies, status, input, ended, outputs, outDeadline,
                   outPurged, overlapped, finalVars, subVars, sweepVars,
                   retryVars, useVars, passed, mishaps>>

End(r, final) ==
    /\ status[r] = "ACTIVE"
    /\ status' = [status EXCEPT ![r] = final]
    /\ ended' = [ended EXCEPT ![r] = NumberEnded + 1]
    /\ finalizer' = [finalizer EXCEPT ![r] = "schedule"]
    /\ UNCHANGED <<policies, input, outputs, outDeadline, outPurged, workVars,
                   plan, subVars, sweepVars, retryVars, useVars, passed,
                   mishaps>>

(* A worker, a callback or the launching request saves the final status;    *)
(* nobody waits for the others that are at work.  What a worker still       *)
(* writes before it emits (it may take any time, or die), it writes at      *)
(* "schedule".                                                              *)
Finish(r) == End(r, "ENDED")

(* cancel_run and the watchdog *)
Cancel(r) == r \in Cancelable /\ End(r, "CANCELED")

-----------------------------------------------------------------------------
(* emit_validation_run_finalized: the receiver, then the release *)

Finalizer(r, from, to) ==
    /\ finalizer[r] = from
    /\ finalizer' = [finalizer EXCEPT ![r] = to]

SetsDeadline(r) == ~outPurged[r] /\ outputPolicy[r] # "STORE_PERMANENTLY"

(* schedule_terminal_retention writes the deadline of the outputs, then     *)
(* schedule_submission_retention reads; it does not write a deadline that   *)
(* is right already.                                                        *)
Schedule(r) ==
    LET s == input[r]
        skip == purged[s] \/ InUse(s)
    IN  /\ finalizer[r] = "schedule"
        /\ outDeadline' = [outDeadline EXCEPT ![r] = @ \/ SetsDeadline(r)]
        /\ \/ /\ ~skip /\ inputPolicy[s] = "DO_NOT_STORE"
              /\ Finalizer(r, "schedule", "queue") /\ UNCHANGED plan
           \/ /\ ~skip /\ inputPolicy[s] = "STORE_DAYS"
              /\ LatestEnd(s) # expires[s]
              /\ Finalizer(r, "schedule", "deadline")
              /\ plan' = [plan EXCEPT ![r] = LatestEnd(s)]
           \/ /\ \/ skip
                 \/ inputPolicy[s] = "STORE_PERMANENTLY"
                 \/ inputPolicy[s] = "STORE_DAYS" /\ LatestEnd(s) = expires[s]
              /\ Finalizer(r, "schedule", "release") /\ UNCHANGED plan
        /\ UNCHANGED <<policies, status, input, ended, outputs, outPurged,
                       workVars, subVars, sweepVars, retryVars, useVars,
                       passed, mishaps>>

(* A deadline computed before the command repaired it is written after that *)
Overtakes(s) ==
    settled' = IF s \in selected THEN settled ELSE settled \ RunsOf(s)

(* Faulty: the deadline is written whatever happened since it was computed *)
WriteDeadlineAnyway(r) ==
    /\ Finalizer(r, "deadline", "release")
    /\ expires' = [expires EXCEPT ![input[r]] = plan[r]]
    /\ plan' = [plan EXCEPT ![r] = NoDeadline]
    /\ Overtakes(input[r])
    /\ UNCHANGED <<runVars, purged, retry, sweep, selected, retryVars,
                   useVars, passed, mishaps>>

(* filter(content_purged_at__isnull=True).update(...) *)
WriteDeadline(r) ==
    /\ Finalizer(r, "deadline", "release")
    /\ expires' = IF purged[input[r]] THEN expires
                  ELSE [expires EXCEPT ![input[r]] = plan[r]]
    /\ plan' = [plan EXCEPT ![r] = NoDeadline]
    /\ Overtakes(input[r])
    /\ UNCHANGED <<runVars, purged, retry, sweep, selected, retryVars,
                   useVars, passed, mishaps>>

(* queue_submission_purge, with a submission that was read before: it may   *)
(* have been purged since                                                   *)
QueuePurge(r) ==
    /\ Finalizer(r, "queue", "release")
    /\ retry' = IF InUse(input[r]) THEN retry
                ELSE [retry EXCEPT ![input[r]] = "due"]
    /\ UNCHANGED <<runVars, plan, purged, expires, sweepVars, retryVars,
                   useVars, passed, mishaps>>

(* finally: release_validation_run_definition *)
Release(r) ==
    /\ Finalizer(r, "release", "done")
    /\ ReleaseDefinition(r)
    /\ UNCHANGED <<runVars, plan, subVars, sweepVars, retryVars, passed,
                   mishaps>>

(* An exception of the receiver, caught by send_robust: the evidence could  *)
(* not be stamped, or a query failed                                        *)
MissSignal(r) ==
    /\ finalizer[r] \in {"schedule", "deadline", "queue"}
    /\ finalizer' = [finalizer EXCEPT ![r] = "release"]
    /\ plan' = [plan EXCEPT ![r] = NoDeadline]
    /\ Mishap
    /\ UNCHANGED <<runVars, subVars, sweepVars, retryVars, useVars, passed>>

(* The process dies: nothing more is scheduled, and nothing is released *)
FinalizerDies(r) ==
    /\ finalizer[r] \in {"schedule", "deadline", "queue", "release"}
    /\ finalizer' = [finalizer EXCEPT ![r] = "crashed"]
    /\ plan' = [plan EXCEPT ![r] = NoDeadline]
    /\ Mishap
    /\ UNCHANGED <<runVars, subVars, sweepVars, retryVars, useVars, passed>>

-----------------------------------------------------------------------------
(* Submission.purge_content, below the lock of the submission *)

(* Faulty: only the submission itself is looked at *)
MayPurgeInUse(s) == ~purged[s]

MayPurge(s) == ~purged[s] /\ ~InUse(s)

Purge(s) ==
    /\ MayPurge(s)
    /\ purged' = [purged EXCEPT ![s] = TRUE]
    /\ expires' = [expires EXCEPT ![s] = NoDeadline]

-----------------------------------------------------------------------------
(* purge_expired_submissions *)

Candidates == {s \in Submissions : ~purged[s] /\ Over(expires[s])}
Expired == {s \in Candidates : ~InUse(s)}

(* Faulty: the deadlines that were set at receipt are taken as they are *)
NeverRepaired(s) == FALSE

Repaired(s) == s \in Expired

(* _repair_completion_based_deadlines; a sweep that finds nothing is left   *)
(* out                                                                      *)
RepairDeadlines ==
    /\ sweep = "idle"
    /\ Candidates # {}
    /\ expires' = [s \in Submissions |->
                       IF Repaired(s) THEN LatestEnd(s) ELSE expires[s]]
    /\ sweep' = "select"
    /\ settled' = {r \in Runs : input[r] \in Expired}
    /\ UNCHANGED <<runVars, finalVars, purged, retry, selected, retryVars,
                   useVars, passed, mishaps>>

Select ==
    /\ sweep = "select"
    /\ selected' = Expired
    /\ sweep' = IF Expired = {} THEN "idle" ELSE "purge"
    /\ settled' = IF Expired = {} THEN {} ELSE settled
    /\ UNCHANGED <<runVars, finalVars, subVars, retryVars, useVars, passed,
                   mishaps>>

(* purge_content does not look at expires_at again.  After the batch the    *)
(* next one is selected, without a repair.                                  *)
PurgeExpired(s) ==
    /\ s \in selected
    /\ \/ Purge(s) /\ UNCHANGED mishaps
       \/ ~MayPurge(s) /\ UNCHANGED <<purged, expires, mishaps>>
       \/ MayPurge(s) /\ Mishap /\ UNCHANGED <<purged, expires>>
    /\ selected' = selected \ {s}
    /\ sweep' = IF selected = {s} THEN "select" ELSE "purge"
    /\ UNCHANGED <<runVars, finalVars, retry, settled, retryVars, useVars,
                   passed>>

SweepDies ==
    /\ sweep # "idle"
    /\ sweep' = "idle" /\ selected' = {} /\ settled' = {}
    /\ Mishap
    /\ UNCHANGED <<runVars, finalVars, subVars, retryVars, useVars, passed>>

-----------------------------------------------------------------------------
(* process_purge_retries *)

(* Faulty: only failed purges are processed *)
NoneMissing == {}

(* _discover_missing_do_not_store_work: also submissions without a run,     *)
(* which may be old enough by now                                           *)
Missing == {s \in Submissions :
                /\ inputPolicy[s] = "DO_NOT_STORE"
                /\ ~purged[s] /\ retry[s] = "none" /\ ~InUse(s)}

Idle(p) == batch[p] = {} /\ task[p] = NoTask

ListRetries(p) ==
    LET due == Missing \cup {s \in Submissions : retry[s] = "due"} IN
    /\ Idle(p)
    /\ due # {}
    /\ retry' = [s \in Submissions |-> IF s \in due THEN "due" ELSE retry[s]]
    /\ batch' = [batch EXCEPT ![p] = due]
    /\ UNCHANGED <<runVars, finalVars, purged, expires, sweepVars, task,
                   useVars, passed, mishaps>>

(* The row is deleted with the purge, or because the purge has been done *)
ProcessRetry(p, s) ==
    /\ s \in batch[p] /\ task[p] = NoTask
    /\ batch' = [batch EXCEPT ![p] = @ \ {s}]
    /\ retry' = [retry EXCEPT ![s] = "none"]
    /\ Purge(s) \/ (purged[s] /\ UNCHANGED <<purged, expires>>)
    /\ UNCHANGED <<runVars, finalVars, sweepVars, task, useVars, passed,
                   mishaps>>

(* The purge raised: the row is yet to be written *)
FailRetry(p, s) ==
    /\ s \in batch[p] /\ task[p] = NoTask
    /\ batch' = [batch EXCEPT ![p] = @ \ {s}]
    /\ ~purged[s]
    /\ \/ InUse(s) /\ task' = [task EXCEPT ![p] = <<"defer", s>>]
                   /\ UNCHANGED mishaps
       \/ ~InUse(s) /\ task' = [task EXCEPT ![p] = <<"failed", s>>] /\ Mishap
    /\ UNCHANGED <<runVars, finalVars, subVars, sweepVars, useVars, passed>>

(* Deferral updates the row, and raises when another worker has deleted it: *)
(* the rest of the batch is left.  record_failure inserts a deleted row     *)
(* again.                                                                   *)
SaveRetry(p) ==
    LET s == task[p][2]
        gone == task[p][1] = "defer" /\ retry[s] = "none"
    IN  /\ task[p] # NoTask
        /\ task' = [task EXCEPT ![p] = NoTask]
        /\ retry' = IF gone THEN retry ELSE [retry EXCEPT ![s] = "later"]
        /\ batch' = IF gone THEN [batch EXCEPT ![p] = {}] ELSE batch
        /\ UNCHANGED <<runVars, finalVars, purged, expires, sweepVars,
                       useVars, passed, mishaps>>

WorkerDies(p) ==
    /\ ~Idle(p)
    /\ batch' = [batch EXCEPT ![p] = {}]
    /\ task' = [task EXCEPT ![p] = NoTask]
    /\ Mishap
    /\ UNCHANGED <<runVars, finalVars, subVars, sweepVars, useVars, passed>>

-----------------------------------------------------------------------------
(* purge_expired_outputs *)

(* Faulty: only runs that ended by themselves are looked for *)
MissedIfFinished(r) ==
    status[r] = "ENDED" /\ SetsDeadline(r) /\ ~outDeadline[r]

MissedOutputs(r) == Terminal(r) /\ SetsDeadline(r) /\ ~outDeadline[r]

(* _repair_missing_expiries, which schedules the submission again, too *)
RepairOutputs(r) ==
    LET s == input[r]
        free == ~purged[s] /\ ~InUse(s)
    IN  /\ MissedOutputs(r)
        /\ outDeadline' = [outDeadline EXCEPT ![r] = TRUE]
        /\ expires' = IF free /\ inputPolicy[s] = "STORE_DAYS"
                      THEN [expires EXCEPT ![s] = LatestEnd(s)] ELSE expires
        /\ retry' = IF free /\ inputPolicy[s] = "DO_NOT_STORE"
                    THEN [retry EXCEPT ![s] = "due"] ELSE retry
        /\ UNCHANGED <<policies, status, input, ended, outputs, outPurged,
                       workVars, finalVars, purged, sweepVars, retryVars,
                       useVars, passed, mishaps>>

(* Faulty: the deadline is reason enough *)
OutputsDueAnytime(r) ==
    input[r] # NoSubmission /\ ~outPurged[r] /\
        (outDeadline[r] \/ outputPolicy[r] = "DO_NOT_STORE")

(* Selected, and checked again below the lock of the run; the deadline may  *)
(* have passed                                                              *)
OutputsDue(r) ==
    /\ Terminal(r) /\ ~outPurged[r]
    /\ outDeadline[r] \/ outputPolicy[r] = "DO_NOT_STORE"

(* purge_run_outputs: all or nothing.  It waits for no one: a run that is   *)
(* not stored is due a minute after ended_at, emitted or not.               *)
PurgeOutputs(r) ==
    /\ OutputsDue(r)
    /\ \/ /\ outputs' = [outputs EXCEPT ![r] = FALSE]
          /\ outPurged' = [outPurged EXCEPT ![r] = TRUE]
          /\ outDeadline' = [outDeadline EXCEPT ![r] = FALSE]
          /\ overlapped' = IF atWork[r] THEN overlapped \cup {r}
                           ELSE overlapped
          /\ UNCHANGED mishaps
       \/ Mishap /\ UNCHANGED <<outputs, outPurged, outDeadline, overlapped>>
    /\ UNCHANGED <<policies, status, input, ended, atWork, finalVars, subVars,
                   sweepVars, retryVars, useVars, passed>>

-----------------------------------------------------------------------------
(* Authors and time *)

Edit ==
    /\ \E s \in Submissions : inputPolicy[s] \in Edited
    /\ ChangeDefinition
    /\ UNCHANGED <<runVars, finalVars, subVars, sweepVars, retryVars, passed,
                   mishaps>>

(* A window is over *)
Pass ==
    /\ passed <= NumberEnded
    /\ passed' = passed + 1
    /\ UNCHANGED <<runVars, finalVars, subVars, sweepVars, retryVars, useVars,
                   mishaps>>

(* next_retry_at has come *)
RetryDue(s) ==
    /\ retry[s] = "later"
    /\ retry' = [retry EXCEPT ![s] = "due"]
    /\ UNCHANGED <<runVars, finalVars, purged, expires, sweepVars, retryVars,
                   useVars, passed, mishaps>>

-----------------------------------------------------------------------------
Run(r) ==
    Begin(r) \/ WriteOutput(r) \/ Leave(r) \/ Finish(r) \/ Cancel(r)

Finalize(r) ==
    Schedule(r) \/ WriteDeadline(r) \/ QueuePurge(r) \/ Release(r)

PurgeSubmissions ==
    RepairDeadlines \/ Select \/ \E s \in Submissions : PurgeExpired(s)

PurgeRetries(p) ==
    \/ ListRetries(p) \/ SaveRetry(p)
    \/ \E s \in Submissions : ProcessRetry(p, s) \/ FailRetry(p, s)

SweepOutputs(r) == RepairOutputs(r) \/ PurgeOutputs(r)

Dies ==
    \/ \E r \in Runs : MissSignal(r) \/ FinalizerDies(r)
    \/ SweepDies
    \/ \E p \in RetryWorkers : WorkerDies(p)

Next ==
    \/ \E r \in Runs, s \in Submissions : Admit(r, s)
    \/ \E r \in Runs : Run(r) \/ Finalize(r) \/ SweepOutputs(r)
    \/ PurgeSubmissions
    \/ \E p \in RetryWorkers : PurgeRetries(p)
    \/ Dies
    \/ Edit
    \/ Pass
    \/ \E s \in Submissions : RetryDue(s)

(* Runs end (ValidationRun), time passes, the commands are scheduled again  *)
(* and again.  Nothing is assumed of finalizers.                            *)
Fairness ==
    /\ WF_vars(\E r \in Runs : Finish(r))
    /\ WF_vars(\E r \in Runs : SweepOutputs(r))
    /\ WF_vars(PurgeSubmissions)
    /\ WF_vars(\E p \in RetryWorkers : PurgeRetries(p))
    /\ WF_vars(Pass \/ \E s \in Submissions : RetryDue(s))

Spec == Init /\ [][Next]_vars /\ Fairness

-----------------------------------------------------------------------------
Finalizing == {"none", "schedule", "deadline", "queue", "release",
               "done", "crashed"}

(* The types; in particular a purged submission has no deadline any more,   *)
(* whichever process computed one for it before the purge.                  *)
TypeOK ==
    /\ DefinitionTypeOK
    /\ inputPolicy \in [Submissions -> Retentions]
    /\ outputPolicy \in [Runs -> Retentions]
    /\ status \in [Runs -> {"ABSENT", "ACTIVE", "ENDED", "CANCELED"}]
    /\ input \in [Runs -> Submissions \cup {NoSubmission}]
    /\ ended \in [Runs -> Deadlines]
    /\ atWork \in [Runs -> BOOLEAN]
    /\ outputs \in [Runs -> BOOLEAN]
    /\ outDeadline \in [Runs -> BOOLEAN]
    /\ outPurged \in [Runs -> BOOLEAN]
    /\ overlapped \in SUBSET Runs
    /\ finalizer \in [Runs -> Finalizing]
    /\ plan \in [Runs -> Deadlines \cup {NoDeadline}]
    /\ purged \in [Submissions -> BOOLEAN]
    /\ expires \in [Submissions -> Deadlines \cup {NoDeadline}]
    /\ \A s \in Submissions : purged[s] => expires[s] = NoDeadline
    /\ retry \in [Submissions -> {"none", "due", "later"}]
    /\ sweep \in {"idle", "select", "purge"}
    /\ selected \in SUBSET Submissions
    /\ settled \in SUBSET Runs
    /\ batch \in [RetryWorkers -> SUBSET Submissions]
    /\ task \in [RetryWorkers ->
                    ({"defer", "failed"} \X Submissions) \cup {NoTask}]
    /\ passed \in Nat
    /\ mishaps \in Nat

(* No run is executing whose submission has been purged: admissions, which  *)
(* may use a submission again while a command has it on its list, and       *)
(* purges see each other.                                                   *)
NoActiveRunOnPurged ==
    \A r \in Runs : status[r] = "ACTIVE" => ~purged[input[r]]

(* What was purged stays purged when nobody was at work for the run at the  *)
(* purge: it is purged only when it is final, and nobody begins any more,   *)
(* whichever tasks and callbacks are still delivered.  Somebody who was at  *)
(* work may write afterwards, and nothing purges that again.                *)
PurgedIsEmpty ==
    \A r \in Runs : outPurged[r] /\ outputs[r] => r \in overlapped

(* A submission with a review window is purged when the window of its last  *)
(* run is over, even if that run's signal was missed: the command has       *)
(* repaired its deadline before.  Excepted are submissions that expire      *)
(* after that repair or whose deadline a slow finalizer writes after it,    *)
(* and runs admitted or ended later: no later step looks again.             *)
KeptForReview ==
    [][\A s \in Submissions :
           inputPolicy[s] = "STORE_DAYS" /\ ~purged[s] /\ purged'[s] =>
               \A r \in RunsOf(s) \cap settled : ended[r] < passed]_vars

(* While a run executes or its receivers run, its contract stays as it is,  *)
(* and its steps do unless the workflow is versioned.  Not so for a worker  *)
(* that outlived its run, nor for the safe widenings of a versioned         *)
(* contract, which EditingPolicy leaves out: they are made beside runs.     *)
Reads(r) ==
    \/ status[r] = "ACTIVE"
    \/ finalizer[r] \in {"schedule", "deadline", "queue"}

DefinitionIsStable ==
    [][\/ contract' = contract /\ (steps' = steps \/ policy = "VERSIONED")
       \/ \A r \in Runs : ~Reads(r)]_vars

(* Every submission that is not kept for ever is purged in the end, and its *)
(* PurgeRetry row is gone: after missed signals, failed deletions, dead     *)
(* workers and abandoned launches, and although finalizers and overlapping  *)
(* workers may insert the row of a purged submission again.                 *)
ContentIsDeleted ==
    <>[](\A s \in Submissions :
             inputPolicy[s] # "STORE_PERMANENTLY" =>
                 purged[s] /\ retry[s] = "none")

(* The outputs of every run that ends are purged, too, unless they are kept *)
(* for ever.                                                                *)
OutputsAreDeleted ==
    <>[](\A r \in Runs :
             Terminal(r) /\ outputPolicy[r] # "STORE_PERMANENTLY" =>
                 outPurged[r])
=============================================================================
