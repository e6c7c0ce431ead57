------------------------------ MODULE MCGpuRecord ------------------------------
\* Values of GpuRecord's constants for TLC.
EXTENDS GpuRecord, TLC

CONSTANTS c1, c2, c3, h1

CycleSymmetry == Permutations(Cycle)

\* The counters and the fields have no variable in common but the turn: each half
\* is explored with the other at rest.
OneHalf ==
  \/ sampler = "off"
  \/ (\A c \in Cycle : ~Stored(c)) /\ (\A h \in Handler : handler[h] = 0)
=============================================================================
