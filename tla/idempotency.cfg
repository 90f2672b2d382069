\* Three requests with one key, one of them with another body.  Any of them
\* may die at any query, and a row may expire at any moment.
\* The system may stop: when every request is answered and no row is left.
SPECIFICATION Spec
CONSTANTS
    r1 = r1
    r2 = r2
    r3 = r3
    NoRequest = none
    Requests <- MCRequests
    Body <- MCBody
INVARIANTS TypeOK OneRunPerKey ReplaysAreTrue
PROPERTIES KeyIsFreed ImplementsCalls
CHECK_DEADLOCK FALSE
