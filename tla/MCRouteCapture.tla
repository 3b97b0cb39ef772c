----------------------------- MODULE MCRouteCapture -----------------------------
(* RouteCapture for TLC: two controllers, two GPUs, one with two rows.     *)
EXTENDS RouteCapture, TLC

Symmetry == Permutations(Controllers)
==============================================================================
