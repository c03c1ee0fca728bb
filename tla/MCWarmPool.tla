----------------------------- MODULE MCWarmPool -----------------------------
(* WarmPool for TLC: two sandboxes, two health checkers and one profile. *)
EXTENDS WarmPool
=============================================================================
