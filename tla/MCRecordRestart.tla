---------------------------- MODULE MCRecordRestart ----------------------------
(* RecordCapture for TLC, one launch at a time: crashes, restarts, all modes,  *)
(* two runtimes.  Three shards; the first has two records, so that a pilot is *)
(* a proper part of it.  The first two shards have as many tokens, so token   *)
(* totals alone cannot tell a mix-up of them.                                 *)
EXTENDS RecordCapture, TLC

MCShardStart == (0 :> 0) @@ (1 :> 2) @@ (2 :> 3) @@ (3 :> 4)
MCTokensIn == (0 :> 1) @@ (1 :> 2) @@ (2 :> 3) @@ (3 :> 1)
==============================================================================
