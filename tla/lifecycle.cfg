\* Every kind of step; provider calls may fail, callbacks be rejected and tasks
\* end with an error, but nobody else decides about the run.
SPECIFICATION Spec

CONSTANTS
    w1 = w1
    w2 = w2
    Workers = {w1, w2}
    NumSteps = 4
    Steps <- MCSteps
    Kind <- AllKinds
    MaxAttempts = 2
    MaxCrashes = 0
    Environment = {"dispatch_error", "bad_callback", "task_error"}

INVARIANTS
    TypeOK
    ReleasedMeansDone
    OutputNotDropped

PROPERTIES
    ImplementsLifecycle

\* A finished run leaves nothing to do.
CHECK_DEADLOCK FALSE
