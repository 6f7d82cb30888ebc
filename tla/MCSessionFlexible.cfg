CONSTANTS
  Client <- requests
  Broker <- BrokerRequests
  apiKeys <- ApiKeys
  Servers <- MCFlexible
  Logins <- MCLogins
  Inputs <- MCInputs
  Cuts <- MCCuts
  Words <- NoWords
SPECIFICATION Spec
CHECK_DEADLOCK FALSE
INVARIANT
  Understood
