SPECIFICATION FairSpec
CONSTANTS
    j1 = j1
    j2 = j2
    c1 = c1
    c2 = c2
    Jobs = {j1, j2}
    Cases = {c1, c2}
    StopOnError = FALSE
    MaxRetries = 2
    MaxFaults = 0
PROPERTIES
    EndsUnlessJobLost
CHECK_DEADLOCK FALSE
