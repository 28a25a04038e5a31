---------------------------- MODULE MCNodeRoles ----------------------------
EXTENDS NodeRoles, TLC
=============================================================================
