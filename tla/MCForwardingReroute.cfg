CONSTANTS
  DCELL_K = 1
  DCELL_N = 3
  LIMIT = 8
  Sources <- FirstCell
  BadSets <- AnyCrossLinks
SPECIFICATION Spec
CHECK_DEADLOCK FALSE
INVARIANT ReroutesWhenReachable
