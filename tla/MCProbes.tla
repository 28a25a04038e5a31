------------------------------ MODULE MCProbes ------------------------------
EXTENDS Probes, TLC
=============================================================================
