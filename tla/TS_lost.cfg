SPECIFICATION Spec
CONSTANTS
  n = 4
  thread_count = 2
  cluster_count = 1
  cluster_rank = 0
  min_split_sz = 2
  Cost <- Digraph
  INFINITY = 1000
  MaxCosts = 0
  MaxSpurious = 0
INVARIANT NoWorkRemains
CHECK_DEADLOCK FALSE
