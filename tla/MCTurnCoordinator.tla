------------------------- MODULE MCTurnCoordinator --------------------------
(* TurnCoordinator for TLC: the regular messages are interchangeable. *)
EXTENDS TurnCoordinator, TLC

Symmetry == Permutations(Inbound \ Scheduled)
=============================================================================
