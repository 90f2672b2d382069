\* The periodic watchdog against provider and queue failures.
\* Liveness: no symmetry.
SPECIFICATION FairSpec

CONSTANTS
    w1 = w1
    w2 = w2
    Workers = {w1, w2}
    NumSteps = 2
    Steps <- MCSteps
    Kind <- ContainerThenLocal
    MaxAttempts = 2
    MaxCrashes = 0
    Environment = {"timeout", "dispatch_error", "enqueue_error", "cancel"}

INVARIANTS
    NotStranded
    OneLaunchPerStep
    SuccessMeansPassed
    OneActiveStep

PROPERTIES
    RunEnds
    RunReleased

\* A finished run leaves nothing to do.
CHECK_DEADLOCK FALSE
