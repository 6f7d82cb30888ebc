CONSTANTS
    r1 = r1
    r2 = r2
    w1 = w1
    w2 = w2
    Calls <- MCCalls
    Requests <- MCRequests
    OneWay <- MCOneWay
    MaxInFlight = 1
    NoLimit = NoLimit
    EnforceTimeout = TRUE
    Waiters <- MCWaiters
    MaxSockets = 2
    MaxRounds = 2
    MaxDisconnects = 1
    Sasl = TRUE
SPECIFICATION FairConnectionSpec
CHECK_DEADLOCK FALSE
INVARIANTS
    AuthenticatedWrites
    HandlersOwnAnswer
    DrainedBeforeClose
PROPERTIES
    ImplementsRequestQueue
    CallsSettle
