SPECIFICATION FairSpec
CONSTANTS
    t1 = t1
    t2 = t2
    t3 = t3
    w1 = w1
    w2 = w2
    k1 = k1
    NoKey = NoKey
    Tasks = {t1, t2, t3}
    Workers = {w1, w2}
    Keys = {k1}
    KeyOf <- KeylessTasks
    Unknown = {t3}
    Slots = 1
    MaxRetries = 2
    ProcessedCap = 2
    MaxFaults = 0
PROPERTIES
    EventuallySettled
