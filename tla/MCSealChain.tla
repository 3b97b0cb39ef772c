------------------------------ MODULE MCSealChain ------------------------------
(* SealChain for TLC: three shards, the first of one domain, the second mixed,  *)
(* the third of another domain; the completion root starts at the second.      *)
EXTENDS SealChain, TLC

MCDomainsOf == (0 :> {"code"}) @@ (1 :> {"code", "prose"}) @@ (2 :> {"prose"})
Symmetry == Permutations(Runtimes)
==============================================================================
