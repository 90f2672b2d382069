\* One submission of each policy, used by two runs, with one failure: a
\* missed signal, a process that dies or a deletion that fails.
\* The system may stop: when everything that is not kept has been purged.
SPECIFICATION Spec
CONSTANTS
    r1 = r1
    r2 = r2
    s1 = s1
    p1 = p1
    p2 = p2
    NoSubmission = none
    Runs <- MCRuns
    Submissions <- MCSubmissions
    RetryWorkers <- MCWorkers
    InputPolicies <- MCInput
    OutputPolicies <- MCOutput
    Cancelable = {r1}
    Followed = {"STORE_PERMANENTLY"}
    Edited = {"STORE_PERMANENTLY"}
    MaxMishaps = 1
INVARIANTS TypeOK NoActiveRunOnPurged PurgedIsEmpty
PROPERTIES KeptForReview DefinitionIsStable ContentIsDeleted OutputsAreDeleted
CHECK_DEADLOCK FALSE
