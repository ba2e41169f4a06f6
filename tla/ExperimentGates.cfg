SPECIFICATION RunsSpec
CONSTANTS
    r1 = r1
    r2 = r2
    key = key
    Runs = {r1, r2}
    IdemKey <- SameKey
    Scenarios <- SmallScenarios
    Slots = 2
    MaxAttempts = 2
    Clients = {r1}
    BenchRuns = {b1}
    Edits = {b1, e1}
    Datasets = {d1}
    Candidates = {m1, m2}
    Pipelines = {b1, e1}
    BenchAttempts = 2
    BenchFaults = 1
INVARIANT
    CIGateBlocks
CHECK_DEADLOCK FALSE
