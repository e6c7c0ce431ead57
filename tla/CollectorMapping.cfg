SPECIFICATION Spec
CONSTANTS
  c1 = c1
  c2 = c2
  k1 = k1
  k2 = k2
  Cycle = {k1}
  NumGPU = 2
  Container <- MCContainers
  Snapshots <- AnySnapshots
  Slots = 2
  MaxTries = 2
  MaxSpawns = 3
INVARIANT MappingCorrect
