--------------------------- MODULE MCSonosClient ---------------------------
(* SonosClient on small instances. *)
EXTENDS SonosClient, TLC

Symmetry == Permutations(Manager) \cup Permutations(Reader \ {Probe})
=============================================================================
