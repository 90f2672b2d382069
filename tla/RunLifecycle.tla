---------------------------- MODULE RunLifecycle ----------------------------
(***************************************************************************)
(* What a validation run promises the people who read it, without workers, *)
(* queues, attempts or callbacks: the steps of the workflow are opened one *)
(* after the other, each is decided once, the run is decided once, success *)
(* means that no blocking step failed, and the run is released for good    *)
(* after its decision.                                                     *)
(*                                                                         *)
(* ValidationRun.tla is shown to implement this module in environments     *)
(* without concurrent decisions; RunProperties.tla names the mapping.      *)
(***************************************************************************)
EXTENDS Integers

CONSTANTS
    NumSteps,       \* steps of the workflow, in order
    Tolerant        \* steps whose failure does not stop the workflow

VARIABLES run, released, step

lifeVars == <<run, released, step>>

LifeSteps == 1 .. NumSteps
Decided == {"SUCCEEDED", "FAILED", "CANCELED", "TIMED_OUT"}
StepDecided == {"PASSED", "FAILED", "SKIPPED"}

Cleared(s) == step[s] = "PASSED" \/ (s \in Tolerant /\ step[s] = "FAILED")

LifeInit ==
    /\ run = "PENDING"
    /\ released = FALSE
    /\ step = [s \in LifeSteps |-> "ABSENT"]

Begin ==
    /\ run = "PENDING"
    /\ run' = "RUNNING"
    /\ UNCHANGED <<released, step>>

(* Strict order: a step is opened when every earlier one is cleared *)
Open(s) ==
    /\ run = "RUNNING"
    /\ step[s] = "ABSENT"
    /\ \A r \in LifeSteps : r < s => Cleared(r)
    /\ step' = [step EXCEPT ![s] = "RUNNING"]
    /\ UNCHANGED <<run, released>>

Close(s) ==
    /\ step[s] = "RUNNING"
    /\ \E d \in StepDecided : step' = [step EXCEPT ![s] = d]

(* Any decision may be taken on a running run, success only when every step *)
(* is cleared by then.  It may be published in the same transaction.        *)
Decide ==
    /\ run = "RUNNING"
    /\ run' \in Decided
    /\ run' = "SUCCEEDED" => \A s \in LifeSteps : Cleared(s)'
    /\ released' \in BOOLEAN

CloseStep == run = "RUNNING" /\ (\E s \in LifeSteps : Close(s)) /\ UNCHANGED <<run, released>>
DecideRun == Decide /\ UNCHANGED step
CloseAndDecide == Decide /\ \E s \in LifeSteps : Close(s)

(* Credentials are issued after success and before release, and a failed    *)
(* issuance takes the step, and the run where it blocks, back.              *)
Revoke ==
    /\ run = "SUCCEEDED" /\ ~released
    /\ run' \in {"SUCCEEDED", "FAILED"}
    /\ \E s \in Tolerant :
        step[s] = "PASSED" /\ step' = [step EXCEPT ![s] = "FAILED"]
    /\ UNCHANGED released

Release ==
    /\ run \in Decided
    /\ released' = TRUE
    /\ UNCHANGED <<run, step>>

LifeNext ==
    \/ Begin \/ CloseStep \/ DecideRun \/ CloseAndDecide \/ Revoke \/ Release
    \/ \E s \in LifeSteps : Open(s)

LifeSpec == LifeInit /\ [][LifeNext]_lifeVars
=============================================================================
