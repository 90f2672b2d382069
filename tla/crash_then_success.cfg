\* One crash, no other event.
SPECIFICATION Spec

CONSTANTS
    w1 = w1
    w2 = w2
    Workers = {w1, w2}
    NumSteps = 2
    Steps <- MCSteps
    Kind <- TwoContainers
    MaxAttempts = 2
    MaxCrashes = 1
    Environment = {"crash"}

SYMMETRY WorkerSymmetry

INVARIANTS
    SuccessMeansPassed

\* A finished run leaves nothing to do.
CHECK_DEADLOCK FALSE
