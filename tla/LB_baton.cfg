CONSTANTS
  Main = p0
  Producers = {p0, p1}
  Consumers = {c0, c1}
  N = 2
  D = 3
SPECIFICATION Spec
INVARIANTS MutualExclusion BatonNotLost SleepersCounted
CHECK_DEADLOCK FALSE
