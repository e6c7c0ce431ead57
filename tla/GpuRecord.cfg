SPECIFICATION Spec
CONSTANTS
  c1 = c1
  c2 = c2
  c3 = c3
  h1 = h1
  Cycle = {c1, c2, c3}
  Handler = {h1}
  Fields = 3
  MaxRounds = 4
  MaxTurns = 3
SYMMETRY CycleSymmetry
CONSTRAINT OneHalf
INVARIANTS TypeOK NothingLost NothingRepeated ReplyAlmostWhole RecordWhole
\* The bounds end the run.
CHECK_DEADLOCK FALSE
