---------------------------- MODULE EditingPolicy ----------------------------
(***************************************************************************)
(* The definition-use fence of one workflow row:                           *)
(* validations/services/run_admission.py admits and releases runs, and     *)
(* workflows/services/editing_policy.py refuses changes of the definition. *)
(*                                                                         *)
(* Admission and every change hold the lock of the workflow row for their  *)
(* whole transaction, so each is one action.  The definition is one bit    *)
(* for its contract (file types, retention, input schema, rulesets and     *)
(* assertions, signal mappings, constants) and one for its steps (rows,    *)
(* configuration, resources, bindings); a semantic change flips the bit.   *)
(*                                                                         *)
(* Left out: cosmetic changes, the safe widenings of a contract (an added  *)
(* file type, a longer retention), new versions (another row), is_locked   *)
(* (it only refuses more).                                                 *)
(***************************************************************************)
EXTENDS Integers

CONSTANT Runs       \* runs the workflow may get

VARIABLES
    policy,         \* history_policy
    contract,       \* flips with every change of the contract
    steps,          \* flips with every change of the steps
    admitted,       \* runs of the workflow
    released        \* runs whose definition_released_at is set

definition == <<policy, contract, steps>>

InitDefinition ==
    /\ policy = "VERSIONED"
    /\ contract = 0 /\ steps = 0
    /\ admitted = {}
    /\ released = {}

DefinitionTypeOK ==
    /\ policy \in {"MUTABLE", "VERSIONED"}
    /\ contract \in {0, 1} /\ steps \in {0, 1}
    /\ admitted \subseteq Runs
    /\ released \subseteq admitted

(* admit_validation_run, below the lock of the workflow *)
AdmitRun(r) ==
    /\ r \notin admitted
    /\ admitted' = admitted \cup {r}
    /\ UNCHANGED <<policy, contract, steps, released>>

(* release_validation_run_definition *)
ReleaseDefinition(r) ==
    /\ released' = released \cup {r}
    /\ UNCHANGED <<policy, contract, steps, admitted>>

HasRuns == admitted # {}
Unreleased == admitted \ released

(* Faulty: an audited repair of a version is no live change *)
MayChangeVersioned(versionedToo) ==
    policy = "MUTABLE" => Unreleased = {}

(* guard_workflow_definition_mutation *)
MayChange(versionedToo) ==
    policy = "MUTABLE" \/ versionedToo => Unreleased = {}

(* The settings form, and full_clean of the contract's members, both below  *)
(* the lock: Ruleset.save takes the lock and asks no more than the guard    *)
(* does, and it is the editors of steps and assertions that clean below     *)
(* it; an editor that cleaned earlier would not be this action.  A          *)
(* superuser overrides the contract of a version in use, which then counts  *)
(* as a change of a mutable definition does.                                *)
ChangeContract(superuser) ==
    LET inUse == policy = "VERSIONED" /\ HasRuns IN
    /\ inUse => superuser
    /\ MayChange(inUse)
    /\ contract' = 1 - contract
    /\ UNCHANGED <<policy, steps, admitted, released>>

(* Steps pass the guard only: no gate asks whether a version has runs *)
ChangeSteps ==
    /\ MayChange(FALSE)
    /\ steps' = 1 - steps
    /\ UNCHANGED <<policy, contract, admitted, released>>

(* change_editing_policy and the settings form; the policy is no definition *)
(* field, so that the guard lets it pass                                    *)
ChangePolicy(superuser) ==
    /\ superuser \/ ~HasRuns
    /\ policy' = IF policy = "MUTABLE" THEN "VERSIONED" ELSE "MUTABLE"
    /\ UNCHANGED <<contract, steps, admitted, released>>

ChangeDefinition ==
    \E superuser \in BOOLEAN :
        ChangeContract(superuser) \/ ChangeSteps \/ ChangePolicy(superuser)
=============================================================================
