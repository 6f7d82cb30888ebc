SPECIFICATION FairClusterSpec
CONSTANTS
    c1 = c1
    c2 = c2
    a1 = a1
    a2 = a2
    a3 = a3
    t1 = t1
    bad = bad
    None = None
    Callers = {c1, c2}
    Calls <- MCCalls
    Nodes = {1, 2}
    Start <- MCStart
    Moves <- MCMoves
    Seeds <- MCSeeds
    Topics = {t1, bad}
    Bad = {bad}
    MaxRetries = 1
    MaxFaults = 1
INVARIANTS
    RoutedToNode
    NoLeakedBroker
    RefusedTopicsRemoved
PROPERTY ClusterCallsSettle
CHECK_DEADLOCK FALSE
