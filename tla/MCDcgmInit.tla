------------------------------ MODULE MCDcgmInit ------------------------------
\* Values of DcgmInit's constants for TLC.
EXTENDS DcgmInit, TLC

CONSTANTS u1, u2, u3

AllFailures == StartFailures \cup StopFailures
UserSymmetry == Permutations(User)
=============================================================================
