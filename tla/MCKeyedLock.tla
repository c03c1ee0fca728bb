---------------------------- MODULE MCKeyedLock -----------------------------
(* KeyedLock with three goroutines, two keys and one address more than keys, *)
(* so that a fresh entry can differ from the one just dropped.               *)
EXTENDS KeyedLock

=============================================================================
