---------------------------- MODULE MCObserverReplay ----------------------------
(* ObserverReplay for TLC. *)
EXTENDS ObserverReplay, TLC

Symmetry == Permutations(Observers) \cup Permutations(Runtimes)
==============================================================================
