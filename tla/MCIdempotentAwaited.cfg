CONSTANTS
    A = A
    B = B
    p = p
    q = q
    s1 = s1
    s2 = s2
    s3 = s3
    m1 = m1
    m2 = m2
    m3 = m3
    Brokers = {A, B}
    Partitions = {p, q}
    Messages = {m1, m2, m3}
    Sends = {s1, s2, s3}
    MessagesOf <- AwaitedMessages
    Targets <- AwaitedTargets
    Awaited <- AwaitedBefore
    InitialLeader <- MCLeader
    Int32Max = 100
    MaxAttempts = 3
    MaxFaults = 2
SPECIFICATION FairSpec
INVARIANTS
    AtMostOnce
    
    
PROPERTIES
    SendSettles
