CONSTANTS
  n_cores = 4
  Width = 2
SPECIFICATION Spec
CHECK_DEADLOCK FALSE
INVARIANTS NoWorkLost IdleSuffices AvailableFound
PROPERTIES DividesAndSums EndsUnlessShort
