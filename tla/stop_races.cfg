\* Cancel, watchdog and redelivered tasks decide about one run at once.
SPECIFICATION Spec

CONSTANTS
    w1 = w1
    w2 = w2
    Workers = {w1, w2}
    NumSteps = 2
    Steps <- MCSteps
    Kind <- ContainerThenLocal
    MaxAttempts = 2
    MaxCrashes = 0
    Environment = {"cancel", "timeout", "duplicate", "dispatch_error", "enqueue_error",
                   "early_callback", "task_error", "pending_error"}

SYMMETRY WorkerSymmetry

INVARIANTS
    ReleasedMeansTerminal

PROPERTIES
    OverwrittenOnlyByWorker
    NeverReopens

\* A finished run leaves nothing to do.
CHECK_DEADLOCK FALSE
