------------------------------ MODULE MCPolicy ------------------------------
\* Values of Policy's constants for TLC.
EXTENDS Policy

CONSTANTS r1, r2, dbe, xid

\* One condition, and both with the other first.
MCRequests == { <<dbe>>, <<xid, dbe>> }
=============================================================================
