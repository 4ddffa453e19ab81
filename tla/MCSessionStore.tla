--------------------------- MODULE MCSessionStore ---------------------------
(***************************************************************************)
(* SessionStore on small instances.                                        *)
(***************************************************************************)
EXTENDS SessionStore, TLC

(* Bearers, users and pairs are compared for equality only. *)
Symmetry == Permutations(Token) \cup Permutations(User) \cup Permutations(Pair)
=============================================================================
