------------------------------ MODULE MCPublisher ------------------------------
\* Values of Publisher's constants for TLC.
EXTENDS Publisher

CONSTANTS s1, s2, s3
=============================================================================
