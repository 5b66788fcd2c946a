SPECIFICATION Spec
CONSTANTS
  n = 5
  thread_count = 2
  cluster_count = 2
  cluster_rank = 0
  min_split_sz = 2
  Cost <- Digraph
  INFINITY = 1000
  MaxCosts = 1
  MaxSpurious = 1
INVARIANTS
  TypeOK
  SleepersCounted
  AwakenedToWork
  FindsBest
PROPERTIES
  BestOnlyImproves
  Ends
CHECK_DEADLOCK FALSE
