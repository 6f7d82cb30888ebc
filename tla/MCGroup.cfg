SPECIFICATION FairSpec
CONSTANTS
    c1 = c1
    c2 = c2
    Consumers = {c1, c2}
    MaxRunners = 3
    First = {0}
    Added = {1}
    MaxOffset = 1
    Retries = 1
    Scenarios <- MCScenarios
    None = None
INVARIANTS StopHolds NoGhostMember
PROPERTIES CommitsByOwner EveryPartitionConsumed
CHECK_DEADLOCK FALSE
