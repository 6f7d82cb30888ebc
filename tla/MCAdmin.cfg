SPECIFICATION FairSpec
CONSTANTS
  n1 = n1
  n2 = n2
  i1 = i1
  i2 = i2
  Nodes = {n1, n2}
  Items = {i1, i2}
  BrokerItems = {i2}
  Operations <- AllOperations
  ServerVersions = {1, 3}
  Retries = 1
  MaxMoves = 2
  MaxFaults = 1
  MaxLog = 2
INVARIANTS
  ResolvedIsDone
  ByTimestampSkipsNothing
  

  
