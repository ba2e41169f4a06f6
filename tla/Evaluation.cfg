SPECIFICATION Spec
CONSTANTS
    j1 = j1
    j2 = j2
    c1 = c1
    c2 = c2
    Jobs = {j1, j2}
    Cases = {c1, c2}
    StopOnError = TRUE
    MaxRetries = 2
    MaxFaults = 1
INVARIANTS
    OneResultPerCase
    CompletedIsComplete
PROPERTIES
    ImplementsContract
CHECK_DEADLOCK FALSE
