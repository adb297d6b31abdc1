CONSTANTS
  DCELL_K = 2
  DCELL_N = 2
  LIMIT = 8
  Sources <- LastOfFirstCell
  BadSets <- OneFailure
  \* the tree
  Leaves = 2
  Servers = 1
  MaxFrames = 3
  MaxDown = 1
SPECIFICATION DeliverySpec
CHECK_DEADLOCK FALSE
INVARIANTS EntriesLead
PROPERTIES DeliveredInDCell DeliveredInTree
