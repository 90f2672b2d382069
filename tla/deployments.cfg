\* Two Validators of one backend and two releases, the first one accepted;
\* one attempt at a time, and one mishap: a block, a command cut off, or a
\* route to a release that is being cleaned up.
\* The system may stop: when every release is retired.
SPECIFICATION Spec
CONSTANTS
    v1 = v1
    v2 = v2
    a1 = a1
    NoRow = NoRow
    Validators <- MCValidators
    Attempts <- MCAttempts
    NumReleases = 2
    Installed = {1}
    MaxMishaps = 1
SYMMETRY Symmetry
INVARIANTS TypeOK RoutesUniform RetiredIsUnused ServedIsPresent
PROPERTIES LiveWorkIsAccepted NoContactAfterBlock
CHECK_DEADLOCK FALSE
