---------------------------- MODULE MCCoverFleet ----------------------------
(* Small instances of CoverFleet for TLC. *)
EXTENDS CoverFleet, TLC

FleetSymmetry == Permutations(Domain) \cup Permutations(Box)
=============================================================================
