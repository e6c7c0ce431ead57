\* Two cycles at once: the period is shorter than a slow cycle.
SPECIFICATION Spec
CONSTANTS
  c1 = c1
  c2 = c2
  k1 = k1
  k2 = k2
  Cycle = {k1, k2}
  NumGPU = 2
  Container <- MCContainers
  Snapshots <- OnePod
  Slots = 2
  MaxTries = 1
  MaxSpawns = 2
INVARIANTS PodmapBounded TotalAgrees
PROPERTY PodmapSettles
SYMMETRY CycleSymmetry
