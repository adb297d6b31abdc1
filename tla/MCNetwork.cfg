CONSTANTS
  DCELL_K = 1
  DCELL_N = 2
  LIMIT = 8
  Dpids <- AllDpids
  Route <- TabledRoute
  Pairs <- MCPairs
  Links <- MCLinks
  Early <- AllButOne
  Fragile <- LinkEnds
  MaxConnects = 11
  MaxLosses = 3
  MaxBatch = 2
SPECIFICATION NetworkSpec
CHECK_DEADLOCK FALSE
INVARIANTS RoutesDeliver RoutesRestored BadLinkIsMissing InstalledIsRecorded
PROPERTIES RemovalsEnd 
