SPECIFICATION DataSpec
CONSTANTS
    i1 = i1
    i2 = i2
    i3 = i3
    i4 = i4
    a = a
    b = b
    c1 = c1
    c2 = c2
    r1 = r1
    r2 = r2
    f1 = f1
    f2 = f2
    Imports = {i1, i2, i3, i4}
    Contents = {a, b}
    Content <- MCContent
    MaxAttempts = 2
    Candidates = {c1, c2}
    Reviewers = {r1, r2}
    Payload <- MCPayload
    Fingerprints = {f1, f2}
    MaxItems = 3
    MaxRetries = 3
    MaxFaults = 2
INVARIANTS
    UncontendedArtifact
    ConsumptionIsTruthful
    OneBatch
PROPERTIES
    ImplementsHistory
    ImportsEnd
    NeverStuckRunning
CHECK_DEADLOCK FALSE
