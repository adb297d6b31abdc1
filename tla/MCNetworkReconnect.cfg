CONSTANTS
  DCELL_K = 1
  DCELL_N = 2
  LIMIT = 8
  Dpids <- AllDpids
  Route <- TabledRoute
  Pairs <- MCPairs
  Links <- MCLinks
  Early <- AllButOne
  Fragile <- LinkEnds
  MaxConnects = 10
  MaxLosses = 1
  MaxBatch = 1
SPECIFICATION NetworkSpec
CHECK_DEADLOCK FALSE
PROPERTY BuiltAfterAllConnected
