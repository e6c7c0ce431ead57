----------------------------- MODULE MCDcgmGroups -----------------------------
\* Values of DcgmGroups' constants for TLC.
EXTENDS DcgmGroups, TLC

CONSTANTS p1, p2, h1, h2, h3, f1, f2

symmetry == Permutations({p1, p2}) \cup Permutations({h1, h2, h3})
              \cup Permutations({f1, f2})
=============================================================================
