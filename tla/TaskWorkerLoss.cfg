SPECIFICATION Spec
CONSTANTS
    t1 = t1
    t2 = t2
    t3 = t3
    w1 = w1
    w2 = w2
    k1 = k1
    NoKey = NoKey
    Tasks = {t1, t2}
    Workers = {w1}
    Keys = {k1}
    KeyOf <- MixedTasks
    Unknown = {}
    Slots = 2
    MaxRetries = 2
    ProcessedCap = 2
    MaxFaults = 0
INVARIANTS
    NoSilentTaskLoss
