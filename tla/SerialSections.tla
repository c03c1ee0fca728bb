--------------------------- MODULE SerialSections ---------------------------
(***************************************************************************)
(* What keyedlock.Locker promises its callers                              *)
(* (src/internal/keyedlock/keyedlock.go:5): work for one key is            *)
(* serialized, work for different keys may overlap.  The specification     *)
(* knows nothing of mutexes, reference counts or the map of entries.       *)
(***************************************************************************)
CONSTANTS Procs, Keys, NoKey

VARIABLE inside     \* the key whose section a process is in, or NoKey

Init == inside = [p \in Procs |-> NoKey]

Enter(p, k) ==
    /\ inside[p] = NoKey
    /\ \A q \in Procs : inside[q] # k
    /\ inside' = [inside EXCEPT ![p] = k]

Leave(p) ==
    /\ inside[p] # NoKey
    /\ inside' = [inside EXCEPT ![p] = NoKey]

Next == \E p \in Procs : Leave(p) \/ \E k \in Keys : Enter(p, k)

Spec == Init /\ [][Next]_inside
=============================================================================
