---------------------------- MODULE MCUrdLeaders ----------------------------
(* UrdLeaders on small sets of shards; the bounds are in the .cfg files. *)
EXTENDS UrdLeaders, TLC

CONSTANTS s1, s2, s3
ThreeShards == {s1, s2, s3}
Symmetry    == Permutations(Shard)
=============================================================================
