\* At-least-once tasks, one crash, ambiguous provider calls.
SPECIFICATION Spec

CONSTANTS
    w1 = w1
    w2 = w2
    Workers = {w1, w2}
    NumSteps = 2
    Steps <- MCSteps
    Kind <- TwoContainers
    MaxAttempts = 2
    MaxCrashes = 1
    Environment = {"duplicate", "crash", "dispatch_error"}

SYMMETRY WorkerSymmetry

INVARIANTS
    LaunchOnce
    OneActive
    NumbersInOrder
    ProcessedOnce

\* A finished run leaves nothing to do.
CHECK_DEADLOCK FALSE
