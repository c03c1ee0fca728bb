--------------------------- MODULE MCRuntimeStream ---------------------------
(* RuntimeStream for TLC: one session that lives in two sandboxes, with one fault of
   each kind. *)
EXTENDS RuntimeStream
=============================================================================
