--------------------------- MODULE MCDistribution ---------------------------
EXTENDS Distribution, TLC
=============================================================================
