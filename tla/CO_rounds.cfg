SPECIFICATION Spec
CONSTANTS
  n = 5
  hosts = 1
  alpha = 1
  MaxRound = 2
  MaxStarts = 1
  MaxHandoffs = 1
  MaxLate = 1
INVARIANTS
  AgreedUntilRestart
  EstimatesLocked
  DecidesEnough
  OneProposal
  AcksFromDifferent
  DecidedByMajority
PROPERTY AllDecide
CHECK_DEADLOCK FALSE
