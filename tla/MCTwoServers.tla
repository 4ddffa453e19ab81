---------------------------- MODULE MCTwoServers ----------------------------
(* TwoServers on a small instance. *)
EXTENDS TwoServers, TLC

Symmetry == Permutations(Token)
=============================================================================
