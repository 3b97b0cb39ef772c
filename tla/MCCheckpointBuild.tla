--------------------------- MODULE MCCheckpointBuild ---------------------------
(* CheckpointBuild for TLC: two builders, three files, two contracts, of which  *)
(* one keeps nothing of the second file.                                       *)
EXTENDS CheckpointBuild, TLC

CONSTANTS k176, k192

MCOmitted == (k176 :> {2}) @@ (k192 :> {})
MCOneOmitted == k176 :> {2}
Symmetry == Permutations(Builders)
==============================================================================
