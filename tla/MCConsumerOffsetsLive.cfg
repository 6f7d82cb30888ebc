CONSTANTS
    p = p
    q = q
    Partitions = {p, q}
    Control <- ControlInQ
    LogLen = 2
    MaxBatch = 2
    Steered = {p}
    SeekTargets = {0, 1}
    Assignments = {{p, q}, {q}}
    Runner = Runner
    None = None
    MaxDisturbances = 1
SPECIFICATION FairSpec
PROPERTIES
    EveryMessageHandled
