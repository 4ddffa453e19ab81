-------------------------- MODULE MCChainKeepAlive --------------------------
(* ChainKeepAlive on small instances. *)
EXTENDS ChainKeepAlive, TLC

(* Bearers, users, pairs and requests are compared for equality only. *)
Symmetry ==
  Permutations(Token) \cup Permutations(User) \cup Permutations(Pair) \cup Permutations(Request)

(* What a forgotten pair was makes no difference to what can happen next. *)
Known == PairsHeld \cap Pair

View ==
  <<phase, rows, writes, tasks, job, sweep, requests, ending, current,
    [p \in Known |-> root[p]], near \cap StoredPairs, excused \cap Known, { s \in idle : Alive(s) }>>
=============================================================================
