---------------------------- MODULE MCRecordContend ----------------------------
(* RecordCapture for TLC, two launches racing for one output root: two shards,  *)
(* two runtimes, production mode.                                             *)
EXTENDS RecordCapture, TLC

MCShardStart == (0 :> 0) @@ (1 :> 2) @@ (2 :> 3)
MCTokensIn == (0 :> 1) @@ (1 :> 2) @@ (2 :> 3)
Symmetry == Permutations(Launches) \cup Permutations(Runtimes)
==============================================================================
