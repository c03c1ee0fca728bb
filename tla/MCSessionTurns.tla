--------------------------- MODULE MCSessionTurns ---------------------------
(* SessionTurns for TLC. *)
EXTENDS SessionTurns, TLC

Symmetry == Permutations(Workers) \cup Permutations(Posts) \cup Permutations(Triggers)
=============================================================================
