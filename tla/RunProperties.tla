---------------------------- MODULE RunProperties ----------------------------
(***************************************************************************)
(* The correctness properties of ValidationRun.                            *)
(***************************************************************************)
EXTENDS ValidationRun

(* Steps whose failure lets the workflow go on: advisory actions, and the   *)
(* signed credentials, which are decided after the run.                     *)
Tolerant == {s \in Steps : Kind[s] \in {"advisory", "credential"}}

Cleared(s) == step[s] = "PASSED" \/ (s \in Tolerant /\ step[s] = "FAILED")

Busy(w) == worker[w].pc # "idle"

-----------------------------------------------------------------------------
(* Providers and attempts *)

(* One attempt is one execution: however often the task is delivered and    *)
(* wherever a worker dies, the provider is never called twice for the same  *)
(* attempt row, because the row is claimed before the call and a claimed    *)
(* row is never called for again (launcher._run_validator_job_safely).      *)
LaunchOnce == \A a \in Attempts : launches[a] <= 1

(* "Never reinterpret it as a crashed task and launch a second provider     *)
(* execution" (step_orchestrator._start_step_run): a step whose earlier     *)
(* attempt reached the provider is not given to the provider again.         *)
OneLaunchPerStep ==
    \A a, b \in Attempts :
        StepOf(a) = StepOf(b) /\ launches[a] > 0 /\ launches[b] > 0 => a = b

(* The engine touches attempt rows only the way the ledger allows, in every *)
(* interleaving of workers, callbacks, cancel and watchdog: it implements   *)
(* ExecutionAttempts!AttemptsSpec.                                          *)
ImplementsLedger == AttemptsSpec

-----------------------------------------------------------------------------
(* Callbacks *)

(* An output is applied at most once: while a request processes an attempt  *)
(* nobody else has completed it or closed its receipt, and an attempt is    *)
(* completed only together with its receipt (the idempotency guard, the     *)
(* watchdog's reconciliation and the handler share one row).                *)
ProcessedOnce ==
    \A a \in Attempts :
        /\ handler[a] # "idle" =>
               attempt[a] # "COMPLETED" /\ receipt[a] \in {"NONE", "PROCESSING"}
        /\ attempt[a] = "COMPLETED" => receipt[a] = "COMPLETED"

(* Closing a receipt tells the provider to stop delivering.  As long as the *)
(* run waits for the step, that happens only when the ledger has a verdict  *)
(* for the attempt: an output dropped as late is one nobody waits for.      *)
OutputNotDropped ==
    \A a \in Attempts :
        /\ run \in RunActive /\ step[StepOf(a)] = "RUNNING"
        /\ receipt[a] \in {"COMPLETED", "REJECTED"}
        => IsTerminal(a)

(* A completed attempt of an inner step is followed up: the resume task is  *)
(* queued, or the next step has been opened, while the run is running.      *)
NoLostResume ==
    \A a \in Attempts :
        run = "RUNNING" /\ attempt[a] = "COMPLETED" /\ StepOf(a) < NumSteps =>
            StepOf(a) \in queue \/ step[StepOf(a) + 1] # "ABSENT"

-----------------------------------------------------------------------------
(* The run *)

(* "Processes steps sequentially, stopping on failure": a run is recorded   *)
(* as succeeded only if every step was executed and no blocking one failed. *)
SuccessMeansPassed == run = "SUCCEEDED" => \A s \in Steps : Cleared(s)

(* Two steps of a run are never waited for at the same time: callbacks,     *)
(* cancel and the watchdog all address "the" current step run.              *)
OneActiveStep ==
    \A s, r \in Steps : step[s] = "RUNNING" /\ step[r] = "RUNNING" => s = r

(* "The terminal decision is authoritative": a run that was succeeded,      *)
(* failed, canceled or timed out keeps that status.                         *)
TerminalIsFinal == [][(run \in RunTerminal) => run' = run]_vars

(* Where that is broken, it is broken by a worker's unlocked save of the    *)
(* run it loaded (its task's last-resort handler included, or the launching *)
(* request's), and by nothing else: a callback, a cancel or the watchdog    *)
(* never overwrite a decision, and nobody reopens the run.                  *)
OverwrittenOnlyByWorker ==
    [][(run \in RunTerminal /\ run' # run) =>
          /\ run' \in RunTerminal
          /\ \/ launch = "failed"
             \/ \E w \in Workers :
                    \/ /\ worker[w].pc \in {"save", "raised", "canceled", "issue"}
                       /\ worker'[w].pc \in {"issue", "emit"}
                    \/ worker[w].pc = "mark" /\ worker'[w].pc = "idle"]_vars

(* Releasing the workflow definition (release_run_definition) follows the   *)
(* decision: a released run is terminal and stays so, whichever of the six  *)
(* places that emit the finalization came first.                            *)
ReleasedMeansTerminal == released => run \in RunTerminal

(* A run is released when it is "no longer reading its workflow definition" *)
(* (run_admission.release_run_definition), and the retention receiver may   *)
(* then delete its data: no worker is inside a step, about to enter one, or *)
(* still issuing credentials.                                               *)
ReleasedMeansDone ==
    released => \A w \in Workers :
        worker[w].pc \notin {"start", "execute", "prepare", "claim", "call",
                             "accepted", "unknown", "record", "fail", "close",
                             "finalize", "save", "issue"}

(* A running run is somebody's: a task is queued, a worker holds it, the    *)
(* watchdog does, or the current step has an attempt that was claimed and   *)
(* whose callback is still awaited.                                         *)
NotStranded ==
    run = "RUNNING" =>
        \/ queue # {}
        \/ \E w \in Workers : Busy(w)
        \/ watchdog.pc # "idle"
        \/ \E a \in Attempts : /\ attempt[a] \in ClaimedStates
                               /\ Current(StepOf(a))
                               /\ receipt[a] \in {"NONE", "PROCESSING"}

(* The whole of RunLifecycle: order of steps, one verdict per step, one     *)
(* decision per run, success only when cleared, release after decision.     *)
Life == INSTANCE RunLifecycle
            WITH NumSteps <- NumSteps, Tolerant <- Tolerant,
                 run <- run, released <- released, step <- step
ImplementsLifecycle == Life!LifeSpec

-----------------------------------------------------------------------------
(* Liveness *)

(* "The absolute attempt deadline wins": whatever provider and callbacks    *)
(* do, the watchdog brings every running run to a decision.                 *)
RunEnds == run = "RUNNING" ~> run \in RunTerminal

(* Every decision is published: the finalization is emitted, so that the    *)
(* workflow's definition is released for editing.                           *)
RunReleased == run \in RunTerminal ~> released
=============================================================================
