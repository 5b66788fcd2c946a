CONSTANTS
  s1 = s1
  s2 = s2
  s3 = s3
  Nil = Nil
  Server = {s1, s2, s3}
  MaxElections = 3
  MaxCalls = 2
  MaxBeats = 1
SPECIFICATION Spec
SYMMETRY Symmetry
CHECK_DEADLOCK FALSE
INVARIANTS ElectionSafety NoFatalExit VotersStay
PROPERTIES TermsNeverRegress
