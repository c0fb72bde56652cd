SPECIFICATION Spec
CONSTANTS
  Slots = {s1, s2}
  LastGen = 2
INVARIANT GracefulMeansDrained
CHECK_DEADLOCK FALSE
