CONSTANTS
    r1 = r1
    r2 = r2
    r3 = r3
    r4 = r4
    w1 = w1
    w2 = w2
    Requests <- MCRequests
    OneWay <- MCOneWay
    MaxInFlight = 2
    NoLimit = NoLimit
    EnforceTimeout = TRUE
    Waiters <- MCWaiters
SPECIFICATION RequestQueueSpec
SYMMETRY MCSymmetry
INVARIANTS
    NoLostWakeup
PROPERTIES
    SettledOnce
    FirstInFirstOut
