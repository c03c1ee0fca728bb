----------------------------- MODULE MCProjector -----------------------------
(* Projector for TLC: two workers and one shard of two sessions. *)
EXTENDS Projector
=============================================================================
