\* Callbacks and resume tasks overtake the transactions that caused them.
SPECIFICATION Spec

CONSTANTS
    w1 = w1
    w2 = w2
    Workers = {w1, w2}
    NumSteps = 2
    Steps <- MCSteps
    Kind <- TwoContainers
    MaxAttempts = 2
    MaxCrashes = 1
    Environment = {"crash", "early_resume", "early_callback", "bad_callback", "cancel"}

SYMMETRY WorkerSymmetry

INVARIANTS
    NoLostResume

PROPERTIES
    ImplementsLedger

\* A finished run leaves nothing to do.
CHECK_DEADLOCK FALSE
