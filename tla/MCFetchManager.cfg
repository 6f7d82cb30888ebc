CONSTANTS
    n1 = n1
    n2 = n2
    p1 = p1
    p2 = p2
    p3 = p3
    Nodes = {n1, n2}
    Partitions = {p1, p2, p3}
    Concurrency = 2
    None = None
    MaxGenerations = 4
    MaxNodeChanges = 1
    MaxErrors = 2
SPECIFICATION FairSpec
INVARIANTS
    PartitionExclusive
    DrainedBeforeRestart
    StoppedIsQuiet
PROPERTIES
    StopTerminates
