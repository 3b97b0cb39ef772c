------------------------------ MODULE MCLaneUpload ------------------------------
(* LaneUpload for TLC: two launches, runtimes, destinations and shards.      *)
EXTENDS LaneUpload, TLC

Symmetry == Permutations(Launches) \cup Permutations(Runtimes) \cup Permutations(Destinations)
==============================================================================
