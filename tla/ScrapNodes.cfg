SPECIFICATION FairSpec
CONSTANTS
  n1 = n1
  n2 = n2
  n3 = n3
  Node = {n1, n2, n3}
  Outcome = {"full", "partial", "none", "panic"}
INVARIANTS AllSentBeforeClose NobodyLeftWaiting
PROPERTIES Gathers Returns
\* Scrap returns, or the process dies.
CHECK_DEADLOCK FALSE
