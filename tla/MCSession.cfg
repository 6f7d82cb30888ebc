CONSTANTS
  Client <- requests
  Broker <- BrokerRequests
  apiKeys <- ApiKeys
  Servers <- MCServers
  Logins <- MCLogins
  Inputs <- MCInputs
  Cuts <- MCCuts
  Words <- MCWords
SPECIFICATION Spec
CHECK_DEADLOCK FALSE
INVARIANTS
  
  FetchedIsProduced
  ServerProven
  ReadsBack
