------------------------------ MODULE EventLog ------------------------------
(***************************************************************************)
(* What the store of runtime events promises the two sides of it: the      *)
(* events of a session are numbered 1, 2, 3, ..., each number is taken     *)
(* once and by one event, and nothing that was accepted is taken back.     *)
(* The store forgets where a session was when the session has been silent  *)
(* for a week, and numbers its events from 1 again.                        *)
(* (internal/runtimestream/store.go)                                       *)
(***************************************************************************)
EXTENDS Integers, Sequences

CONSTANTS Sources,   \* the sandboxes the session lives in, one after the other
          MaxEvents  \* events one sandbox emits

VARIABLES log,       \* the events accepted, in order
          base       \* how many of them were accepted before the session was forgotten

Event == [box : Sources, seq : 1..MaxEvents]

Init == log = <<>> /\ base = 0

\* The event carries the next number.
Accept(e) == /\ e.seq = Len(log) - base + 1
             /\ log' = Append(log, e)
             /\ UNCHANGED base

Forget == base' = Len(log) /\ UNCHANGED log

Next == (\E e \in Event : Accept(e)) \/ Forget

Spec == Init /\ [][Next]_<<log, base>>
=============================================================================
