CONSTANTS
  Main = p0
  Producers = {p0}
  Consumers = {c0}
  N = 2
  D = 5
SPECIFICATION FairSpec
INVARIANTS WritesOnlyFree AllDelivered
PROPERTIES PromiseKept Termination
