SPECIFICATION Spec
CONSTANTS
  None = None
  Summaries <- MCSummaries
  Wirings <- MCWirings
  Absent = Absent
  Switch = Switch
  Down = Down
  MaxInt64 = 40
  Values = {37, 81}
  NumGPU = 3
  MaxLanes = 3
INVARIANTS BatchComplete LinksCounted
\* Every input is a last state.
CHECK_DEADLOCK FALSE
