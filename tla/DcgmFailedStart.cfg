\* A caller after one whose start has failed.
SPECIFICATION Spec
CONSTANTS
  u1 = u1
  u2 = u2
  u3 = u3
  User = {u1, u2}
  Mode <- Modes
  MayFail <- StartFailures
  Bound = 3
INVARIANTS InitStarts
CHECK_DEADLOCK FALSE
