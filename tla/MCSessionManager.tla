-------------------------- MODULE MCSessionManager --------------------------
(* SessionManager on small instances. *)
EXTENDS SessionManager, TLC

Symmetry == Permutations(Speaker)

(* A generation is compared with the current one only, and lastWritten is  *)
(* read during a session only.                                             *)
View ==
  <<session, IF session = NoSession THEN 0 ELSE lastWritten,
    { g = generation : g \in timers },
    [i \in 1..Len(ops) |->
      IF ops[i].kind = "tick" THEN ops[i].generation = generation ELSE ops[i]],
    run, speakers, progress, orphaned>>
=============================================================================
