CONSTANTS
    t1 = t1
    t2 = t2
    t3 = t3
    p1 = p1
    Partitions = {p1}
    Txns = {t1, t2, t3}
    PartsOf <- OneByOne
    WithOffsets = {t2, t3}
    None = None
    MaxFaults = 2
    MaxEndFaults = 1
SPECIFICATION FairSpec
INVARIANTS
    AbortedHidden
    CommittedVisible
    
PROPERTIES
    EndedUnlessItFails
