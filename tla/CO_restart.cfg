SPECIFICATION Spec
CONSTANTS
  n = 5
  hosts = 1
  alpha = 1
  MaxRound = 2
  MaxStarts = 1
  MaxHandoffs = 0
  MaxLate = 2
INVARIANT Agreement
CHECK_DEADLOCK FALSE
