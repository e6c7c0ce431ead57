------------------------------- MODULE MCScrap -------------------------------
\* Values of Scrap's constants for TLC.
EXTENDS Scrap

CONSTANTS n1, n2, n3
=============================================================================
