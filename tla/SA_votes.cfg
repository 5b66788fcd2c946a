CONSTANTS
  Node <- Everyone
  District <- TheOthers
  MaxRound = 2
  MaxRequests <- Twice
SPECIFICATION Spec
CONSTRAINT UntilLate
CHECK_DEADLOCK FALSE
INVARIANTS MutualExclusion EntrantHoldsVotes VotesConserved
PROPERTIES Granted
