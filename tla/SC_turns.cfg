CONSTANTS
  Lines = 4
  Arg <- Numbers
  NUMPROCESSOS = 3
SPECIFICATION Spec
INVARIANTS OwnPosition OnlyCurrentRuns CurrentRuns
PROPERTIES AllServed AllReaped
CHECK_DEADLOCK FALSE
