--------------------------- MODULE MCShardRosters ---------------------------
(* Small instances of ShardRosters for TLC. *)
EXTENDS ShardRosters, TLC

RosterSymmetry == Permutations(User) \cup Permutations(Shard \ {DefaultShard})
=============================================================================
