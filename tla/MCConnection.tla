---------------------------- MODULE MCConnection ----------------------------
\* The instances of Connection that TLC checks; liveness allows no symmetry.
EXTENDS Connection
=============================================================================
