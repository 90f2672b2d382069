\* The watchdog runs, one worker crashes.
SPECIFICATION FairSpec

CONSTANTS
    w1 = w1
    w2 = w2
    Workers = {w1, w2}
    NumSteps = 2
    Steps <- MCSteps
    Kind <- TwoContainers
    MaxAttempts = 2
    MaxCrashes = 1
    Environment = {"timeout", "crash"}

PROPERTIES
    RunEnds

\* A finished run leaves nothing to do.
CHECK_DEADLOCK FALSE
