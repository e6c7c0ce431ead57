\* Two clients, any interleaving of their calls, lost replies and restarts.
SPECIFICATION FairServiceSpec
CONSTANTS
  s1 = s1
  s2 = s2
  Client = {s1, s2}
  Total = {0, 1, 2}
INVARIANT SomebodyKnows
PROPERTIES SoleClientCatchesUp InitRepairs
