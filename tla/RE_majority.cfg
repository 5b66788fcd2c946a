CONSTANTS
  s1 = s1
  s2 = s2
  s3 = s3
  Nil = Nil
  Server = {s1, s2, s3}
  MaxElections = 4
  MaxCalls = 4
  MaxBeats = 0
SPECIFICATION TestedSpec
CONSTRAINT Parts
CHECK_DEADLOCK FALSE
INVARIANTS VotesFromMajority
