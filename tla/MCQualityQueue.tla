----------------------------- MODULE MCQualityQueue -----------------------------
(* QualityQueue for TLC: two launches of the queue, symmetric.              *)
EXTENDS QualityQueue, TLC

Symmetry == Permutations(Queues)
==============================================================================
