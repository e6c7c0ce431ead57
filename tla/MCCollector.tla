----------------------------- MODULE MCCollector -----------------------------
\* Values of Collector's constants for TLC.
EXTENDS Collector, TLC

CONSTANTS c1, c2, k1, k2

MCContainers == {c1, c2}

\* Process lists NVML and the cgroups can show, and pod lists the API server
\* can show, read at different moments and so in any combination.
ProcLists == { <<>>, <<c1>>, <<c2>>, <<c1, c2>>, <<Host, c1>>, <<c1, c1>>, <<Shallow, c2>>, <<c1, c2, c1>>,
               <<Depth4>> }
PodLists  == { <<>>, <<c1>>, <<c2, c1>>, <<c1, c1>>, <<c1, c1, c2>>, <<NotRunning>> }
AnySnapshots == ProcLists \X PodLists

\* One process and its pod, for cycles that overlap.
OnePod == { << <<c1>>, <<c1>> >> }

CycleSymmetry == Permutations(Cycle)
=============================================================================
