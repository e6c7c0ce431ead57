\* Callers in any order, orderly and stray, with any call failing.
SPECIFICATION Spec
CONSTANTS
  u1 = u1
  u2 = u2
  u3 = u3
  User = {u1, u2, u3}
  Mode <- Modes
  MayFail <- AllFailures
  Bound = 3
INVARIANTS TypeOK CounterMatches CounterDecides
PROPERTIES Leases
\* A call into a library that is not open ends the process; Bound ends the run.
CHECK_DEADLOCK FALSE
