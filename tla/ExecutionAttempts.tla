-------------------------- MODULE ExecutionAttempts --------------------------
(***************************************************************************)
(* The ledger of provider execution attempts:                              *)
(* validibot/validations/services/execution_attempts.py.                   *)
(*                                                                         *)
(* A logical step of a run may be given to an execution provider.  Every   *)
(* concrete hand-over is a durable row, numbered from 1 within its step,   *)
(* and every writer (worker, callback handler, cancel, watchdog) changes   *)
(* it through the operations below, each of them one database transaction  *)
(* that holds the row (or the step's row) locked.                          *)
(*                                                                         *)
(* Abstracted: the diagnostics, timings and URIs a transition may record;  *)
(* of the provider identity and of the callback nonce only whether they    *)
(* are set.  A row that does not exist yet is ABSENT.                      *)
(***************************************************************************)
EXTENDS Integers, FiniteSets

CONSTANTS
    Steps,          \* the logical steps of one validation run
    MaxAttempts     \* bound on the attempt rows of one step

ASSUME MaxAttemptsAssumption == MaxAttempts \in Nat

VARIABLES
    attempt,        \* state of every attempt row
    credential,     \* callback_nonce_hash has been set
    identity        \* provider_execution_id has been recorded

attemptVars == <<attempt, credential, identity>>

Attempts == Steps \X (1 .. MaxAttempts)
StepOf(a) == a[1]
NumberOf(a) == a[2]

ActiveStates == {"PENDING", "DISPATCHING", "RUNNING", "UNKNOWN"}
TerminalStates == {"COMPLETED", "FAILED", "CANCELED", "TIMED_OUT"}
States == ActiveStates \cup TerminalStates
ClaimedStates == {"DISPATCHING", "RUNNING", "UNKNOWN"}

(* Two faulty tables, kept to show what the properties depend on: late      *)
(* output reopens a row, and no deadline for rows that the provider has     *)
(* accepted or may have accepted.                                           *)
LateOutputTransitions ==
    [s \in States |->
        CASE s \in ActiveStates -> States \ {"PENDING", "DISPATCHING"}
          [] s = "TIMED_OUT" -> {"COMPLETED"}
          [] OTHER -> {}]

NoDeadlineTransitions ==
    [s \in States |->
        CASE s = "PENDING" -> {"DISPATCHING", "FAILED", "CANCELED"}
          [] s \in ClaimedStates ->
                {"RUNNING", "UNKNOWN", "COMPLETED", "FAILED", "CANCELED"}
          [] OTHER -> {}]

AllowedTransitions ==
    [s \in States |->
        CASE s = "PENDING"     -> {"DISPATCHING", "FAILED", "CANCELED"}
          [] s = "DISPATCHING" -> {"RUNNING", "UNKNOWN", "FAILED", "CANCELED",
                                   "TIMED_OUT"}
          [] s = "RUNNING"     -> TerminalStates
          [] s = "UNKNOWN"     -> {"RUNNING"} \cup TerminalStates
          [] OTHER             -> {}]

Exists(a) == attempt[a] # "ABSENT"
IsActive(a) == attempt[a] \in ActiveStates
IsTerminal(a) == attempt[a] \in TerminalStates

(* get_active_execution_attempt: the active rows of a step.  OneActive says *)
(* that there is never more than one.                                       *)
ActiveAttempts(s) == {a \in Attempts : StepOf(a) = s /\ IsActive(a)}

HasHistory(s) == \E a \in Attempts : StepOf(a) = s /\ Exists(a)

(* is_attempt_transition_allowed: replaying the current state is legal *)
MayTransition(a, target) ==
    /\ Exists(a)
    /\ target = attempt[a] \/ target \in AllowedTransitions[attempt[a]]

(* The ledger after a legal transition; an illegal one raises and is never  *)
(* written, which is why every caller conjoins MayTransition.               *)
Moved(a, target) == [attempt EXCEPT ![a] = target]

(* Faulty: the active row is not looked for *)
NextNumberOnly(a) ==
    /\ ~Exists(a)
    /\ \A b \in Attempts : StepOf(b) = StepOf(a) =>
            (NumberOf(b) < NumberOf(a) <=> Exists(b))

(* The row get_or_create_execution_attempt would insert: one past the       *)
(* largest number in use, and only while the step has no active row.        *)
IsNextAttempt(a) ==
    /\ ActiveAttempts(StepOf(a)) = {}
    /\ ~Exists(a)
    /\ \A b \in Attempts : StepOf(b) = StepOf(a) =>
            (NumberOf(b) < NumberOf(a) <=> Exists(b))

-----------------------------------------------------------------------------
(* The operations, as an arbitrary caller may use them. *)

AttemptsInit ==
    /\ attempt = [a \in Attempts |-> "ABSENT"]
    /\ credential = [a \in Attempts |-> FALSE]
    /\ identity = [a \in Attempts |-> FALSE]

(* get_or_create_execution_attempt, when it creates *)
CreateAttempt(a) ==
    /\ IsNextAttempt(a)
    /\ attempt' = Moved(a, "PENDING")
    /\ UNCHANGED <<credential, identity>>

(* transition_execution_attempt; only acceptance records the identity *)
TransitionAttempt(a, target) ==
    /\ MayTransition(a, target)
    /\ attempt' = Moved(a, target)
    /\ \/ UNCHANGED identity
       \/ /\ target = "RUNNING" /\ attempt[a] # "RUNNING"
          /\ identity' = [identity EXCEPT ![a] = TRUE]
    /\ UNCHANGED credential

(* issue_attempt_callback_credentials: one compare-and-set on the row *)
IssueCredentials(a) ==
    /\ Exists(a)
    /\ ~credential[a]
    /\ credential' = [credential EXCEPT ![a] = TRUE]
    /\ UNCHANGED <<attempt, identity>>

AttemptsNext ==
    \E a \in Attempts :
        \/ CreateAttempt(a)
        \/ IssueCredentials(a)
        \/ \E target \in States : TransitionAttempt(a, target)

AttemptsSpec == AttemptsInit /\ [][AttemptsNext]_attemptVars

-----------------------------------------------------------------------------

AttemptsTypeOK ==
    /\ attempt \in [Attempts -> States \cup {"ABSENT"}]
    /\ credential \in [Attempts -> BOOLEAN]
    /\ identity \in [Attempts -> BOOLEAN]

(* A step never has two rows through which a provider could be reached      *)
(* (models.py: uq_attempt_one_active_per_step).                             *)
OneActive ==
    \A a, b \in Attempts :
        StepOf(a) = StepOf(b) /\ IsActive(a) /\ IsActive(b) => a = b

(* Rows are numbered without gaps, and every row but the newest is over:    *)
(* a retry starts only after its predecessor was decided.                   *)
NumbersInOrder ==
    \A a, b \in Attempts :
        StepOf(a) = StepOf(b) /\ NumberOf(a) < NumberOf(b) /\ Exists(b)
            => IsTerminal(a)

(* "Terminal attempts never reopen." *)
NeverReopens ==
    [][\A a \in Attempts : IsTerminal(a) => attempt'[a] = attempt[a]]_attemptVars
=============================================================================
