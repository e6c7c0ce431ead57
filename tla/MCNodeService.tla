---------------------------- MODULE MCNodeService ----------------------------
\* Values of NodeService's constants for TLC.
EXTENDS NodeService

CONSTANTS s1, s2
=============================================================================
