SPECIFICATION FairSpec
CONSTANTS
  w1 = w1
  w2 = w2
  Workers <- MCWorkers
  Characters = {"/", "a", "b", "x", "y"}
  Prefixes <- MCPrefixes
  Clients <- MCClients
  Keys <- MCKeys
  Bound <- MCBound
  Paths <- MCPaths
INVARIANTS
  HookOnlyIfAdmissible
  RefusalIsAnswered
  CallReachesItsHandler
  NothingOutlivesRequest
PROPERTIES
  ServeReturns
  LeftoversEnd
