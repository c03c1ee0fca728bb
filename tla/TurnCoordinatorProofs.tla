----------------------- MODULE TurnCoordinatorProofs ------------------------
(***************************************************************************)
(* Theorems about TurnCoordinator for any set of messages and any bounds.  *)
(* No property is inductive alone; five invariants carry them.             *)
(*                                                                         *)
(* IInv   That a second loop cannot start depends on every live loop       *)
(*        outside the gap holding the reservation; that no turn is         *)
(*        cancelled but on request depends on there being one loop, for a  *)
(*        second one would drop the first one's sender.                    *)
(* SInv   That no message runs twice, and that a loop runs its regular     *)
(*        messages in order, depends on where each message is and on the   *)
(*        number it was taken under: the places exclude each other, and    *)
(*        the queue is newer than all the rest.                            *)
(* AInv   That no message is lost depends on a loop past its turn having   *)
(*        settled its batch, and on a drain dealing all it takes.          *)
(* PInv   That a scheduled run is not starved depends on the counter of    *)
(*        the backlog: it pays for the batches that passed the run.        *)
(* FInv   That a fate is final depends on nobody holding a message that    *)
(*        has one, and on the running batches being apart.                 *)
(***************************************************************************)
EXTENDS TurnCoordinator, FiniteSetTheorems, WellFoundedInduction, TLAPS

\* The part of TypeOK the argument uses.
Shapes ==
    /\ pc \in [Inbound -> {"unsent", "spawned", "absent", "done"} \cup LoopPcs]
    /\ reserved \in BOOLEAN
    /\ gapHit \in BOOLEAN
    /\ active \in Inbound \cup {None}
    /\ cancelled \in [Inbound -> BOOLEAN]
    /\ requested \in [Inbound -> BOOLEAN]
    /\ result \in [Inbound -> {"none", "completed", "interrupted"}]

\* A live loop holds the reservation except in the gap.
LoopReserves == \A m \in Loops : pc[m] = "gap" \/ reserved

\* The sender in active_turns belongs to a loop whose turn is running.
ActiveRuns == active # None => pc[active] \in {"turn", "report"}

\* A turn that saw its cancellation fire was asked to stop.
CancelledOnRequest ==
    \A m \in Inbound : pc[m] = "turn" /\ cancelled[m] => requested[m]

ReportedOnRequest ==
    \A m \in Inbound :
        pc[m] = "report" /\ result[m] = "interrupted" => requested[m]

Exact == OneLoop /\ LoopReserves /\ ActiveRuns /\ CancelledOnRequest /\ ReportedOnRequest

IInv == Shapes /\ (gapHit \/ Exact)
-----------------------------------------------------------------------------
LEMMA InitIInv == Init => IInv
<1> SUFFICES ASSUME Init PROVE Shapes /\ Exact
  BY DEF IInv
<1>1. /\ pc = [m \in Inbound |-> "unsent"]
      /\ reserved = FALSE /\ gapHit = FALSE /\ active = None
      /\ cancelled = [m \in Inbound |-> FALSE]
      /\ requested = [m \in Inbound |-> FALSE]
      /\ result = [m \in Inbound |-> "none"]
  BY DEF Init
<1>2. Shapes
  BY <1>1 DEF Shapes
<1>3. Loops = {}
  BY <1>1 DEF Loops, LoopPcs
<1> QED
  BY <1>1, <1>2, <1>3 DEF Exact, OneLoop, LoopReserves, ActiveRuns,
     CancelledOnRequest, ReportedOnRequest

\* Types first: no action needs more than the types to keep them.
LEMMA NextShapes == IInv /\ [Next]_vars => Shapes'
<1> SUFFICES ASSUME Shapes, [Next]_vars PROVE Shapes'
  BY DEF IInv
<1> USE DEF Shapes, LoopPcs
<1>1. CASE Interrupt
  BY <1>1 DEF Interrupt, control
<1>2. CASE SubagentsReport
  BY <1>2 DEF SubagentsReport, control, history
<1>3. ASSUME NEW m \in Inbound, Post(m) PROVE Shapes'
  BY <1>3 DEF Post, data, history
<1>4. ASSUME NEW m \in Inbound, Submit(m) PROVE Shapes'
  BY <1>4 DEF Submit, RunNow, Enqueue
<1>5. ASSUME NEW m \in Inbound, StartTurn(m) PROVE Shapes'
  BY <1>5 DEF StartTurn, Dropped
<1>6. ASSUME NEW m \in Inbound, Decide(m) PROVE Shapes'
  BY <1>6 DEF Decide
<1>7. ASSUME NEW m \in Inbound, FinishActiveTurn(m) PROVE Shapes'
  BY <1>7 DEF FinishActiveTurn, Dropped, history
<1>8. ASSUME NEW m \in Inbound, FinishInterrupted(m) PROVE Shapes'
  BY <1>8 DEF FinishInterrupted
<1>9. ASSUME NEW m \in Inbound, Poll(m) \/ PollAgain(m) PROVE Shapes'
  BY <1>9 DEF Poll, PollAgain, Drain, history
<1>10. ASSUME NEW m \in Inbound,
              WaitForSubagents(m) \/ ForceFailSubagents(m) \/ ForceFailLost(m)
       PROVE  Shapes'
  BY <1>10 DEF WaitForSubagents, ForceFailSubagents, ForceFailLost, data, history
<1>11. ASSUME NEW m \in Inbound, NoSubagents(m) PROVE Shapes'
  BY <1>11 DEF NoSubagents, data, history
<1>12. ASSUME NEW m \in Inbound, FinishTurn(m) PROVE Shapes'
  BY <1>12 DEF FinishTurn, history
<1>13. ASSUME NEW m \in Inbound, Reserve(m) PROVE Shapes'
  BY <1>13 DEF Reserve
<1>14. ASSUME NEW m \in Inbound, StartSubagent(m) PROVE Shapes'
  BY <1>14 DEF StartSubagent, control
<1>15. ASSUME NEW m \in Inbound, Panic(m) PROVE Shapes'
  BY <1>15 DEF Panic, Dropped
<1>16. ASSUME NEW m \in Inbound, PanicRelease(m) PROVE Shapes'
  BY <1>16 DEF PanicRelease
<1>17. CASE UNCHANGED vars
  BY <1>17 DEF vars, control, data, history
<1> QED
  BY <1>1, <1>2, <1>3, <1>4, <1>5, <1>6, <1>7, <1>8, <1>9, <1>10, <1>11, <1>12,
     <1>13, <1>14, <1>15, <1>16, <1>17 DEF Next, LoopStep
-----------------------------------------------------------------------------
\* The one loop is m and m owns the sender, if anybody does: replacing or
\* removing the sender cancels nobody.
LEMMA NobodyDropped ==
    ASSUME Shapes, Exact, NEW m \in Loops PROVE Dropped(m, cancelled) = cancelled
<1>1. active = None \/ active \in Loops
  BY DEF Shapes, Exact, ActiveRuns, Loops, LoopPcs
<1> QED
  BY <1>1 DEF Dropped, Exact, OneLoop

\* A message finds the session free only if no loop is outside the gap; then
\* either the gap was hit or there is no loop at all.
LEMMA SubmitExact ==
    ASSUME IInv, NEW m \in Inbound, Submit(m) PROVE gapHit' \/ Exact'
<1>1. CASE gapHit
  BY <1>1 DEF Submit, RunNow, Enqueue, IInv, Shapes
<1>2. CASE ~gapHit /\ reserved
  <2>1. Shapes /\ Exact
    BY <1>2 DEF IInv
  <2>2. /\ pc' = [pc EXCEPT ![m] = "absent"]
        /\ UNCHANGED <<reserved, active, cancelled, requested, result>>
    BY <1>2 DEF Submit, Enqueue
  <2> QED
    BY <2>1, <2>2 DEF Submit, Shapes, Exact, OneLoop, LoopReserves, ActiveRuns,
       CancelledOnRequest, ReportedOnRequest, Loops, LoopPcs
<1>3. CASE ~gapHit /\ ~reserved
  <2>1. Shapes /\ Exact
    BY <1>3 DEF IInv
  <2>2. /\ pc' = [pc EXCEPT ![m] = "start"] /\ reserved' = TRUE
        /\ gapHit' = (gapHit \/ \E n \in Inbound : pc[n] = "gap")
        /\ UNCHANGED <<active, cancelled, requested, result>>
        /\ pc[m] = "spawned"
    BY <1>3 DEF Submit, RunNow
  <2>3. CASE \E n \in Inbound : pc[n] = "gap"
    BY <2>2, <2>3
  <2>4. CASE ~ \E n \in Inbound : pc[n] = "gap"
    <3>1. Loops = {}
      BY <1>3, <2>1, <2>4 DEF Exact, LoopReserves, Loops
    <3>2. Loops' = {m}
      BY <2>1, <2>2, <3>1 DEF Loops, LoopPcs, Shapes
    <3> QED
      BY <2>1, <2>2, <3>1, <3>2 DEF Shapes, Exact, OneLoop, LoopReserves, ActiveRuns,
         CancelledOnRequest, ReportedOnRequest, Loops, LoopPcs
  <2> QED
    BY <2>3, <2>4
<1> QED
  BY <1>1, <1>2, <1>3 DEF IInv, Shapes

LEMMA NextExact == IInv /\ [Next]_vars => gapHit' \/ Exact'
<1> SUFFICES ASSUME IInv, [Next]_vars PROVE gapHit' \/ Exact'
  OBVIOUS
<1>0. ASSUME NEW m \in Inbound, Submit(m) PROVE gapHit' \/ Exact'
  BY <1>0, SubmitExact
<1>g. CASE gapHit /\ ~ \E m \in Inbound : Submit(m)
  BY <1>g DEF Next, LoopStep, Interrupt, SubagentsReport, Post, StartTurn, Decide,
     FinishActiveTurn, FinishInterrupted, Poll, PollAgain, Drain, WaitForSubagents,
     ForceFailSubagents, ForceFailLost, NoSubagents, FinishTurn, Reserve,
     StartSubagent, Panic, PanicRelease, vars, history, data
<1>x. CASE ~gapHit
  <2>1. Shapes /\ Exact
    BY <1>x DEF IInv
  <2> USE <2>1 DEF Shapes, Exact, OneLoop, LoopReserves, ActiveRuns,
        CancelledOnRequest, ReportedOnRequest, Loops, LoopPcs
  <2>2. CASE Interrupt
    BY <2>2 DEF Interrupt, control
  <2>3. CASE SubagentsReport
    BY <2>3 DEF SubagentsReport, control, history
  <2>4. ASSUME NEW m \in Inbound, Post(m) PROVE Exact'
    BY <2>4 DEF Post, data, history
  <2>5. ASSUME NEW m \in Inbound, StartTurn(m) PROVE Exact'
    BY <2>5, NobodyDropped DEF StartTurn
  <2>6. ASSUME NEW m \in Inbound, Decide(m) PROVE Exact'
    BY <2>6 DEF Decide
  <2>7. ASSUME NEW m \in Inbound, FinishActiveTurn(m) PROVE Exact'
    BY <2>7, NobodyDropped, InboundAssumption DEF FinishActiveTurn, history
  <2>8. ASSUME NEW m \in Inbound, FinishInterrupted(m) PROVE Exact'
    BY <2>8 DEF FinishInterrupted
  <2>9. ASSUME NEW m \in Inbound, Poll(m) \/ PollAgain(m) PROVE Exact'
    BY <2>9 DEF Poll, PollAgain, Drain, history
  <2>10. ASSUME NEW m \in Inbound,
                WaitForSubagents(m) \/ ForceFailSubagents(m) \/ ForceFailLost(m)
         PROVE  Exact'
    BY <2>10 DEF WaitForSubagents, ForceFailSubagents, ForceFailLost, data, history
  <2>11. ASSUME NEW m \in Inbound, NoSubagents(m) PROVE Exact'
    BY <2>11 DEF NoSubagents, data, history
  <2>12. ASSUME NEW m \in Inbound, FinishTurn(m) PROVE Exact'
    BY <2>12 DEF FinishTurn, history
  <2>13. ASSUME NEW m \in Inbound, Reserve(m) PROVE Exact'
    BY <2>13 DEF Reserve
  <2>14. ASSUME NEW m \in Inbound, StartSubagent(m) PROVE Exact'
    BY <2>14 DEF StartSubagent, control
  <2>15. ASSUME NEW m \in Inbound, Panic(m) PROVE Exact'
    BY <2>15, NobodyDropped, InboundAssumption DEF Panic
  <2>16. ASSUME NEW m \in Inbound, PanicRelease(m) PROVE Exact'
    BY <2>16 DEF PanicRelease
  <2>17. CASE UNCHANGED vars
    BY <2>17 DEF vars, control, data, history
  <2> QED
    BY <1>0, <2>2, <2>3, <2>4, <2>5, <2>6, <2>7, <2>8, <2>9, <2>10, <2>11, <2>12,
       <2>13, <2>14, <2>15, <2>16, <2>17 DEF Next, LoopStep
<1> QED
  BY <1>0, <1>g, <1>x DEF IInv, Shapes

LEMMA Inductive == Spec => []IInv
<1>1. IInv /\ [Next]_vars => IInv'
  BY NextShapes, NextExact DEF IInv
<1> QED
  BY InitIInv, <1>1, PTL DEF Spec
-----------------------------------------------------------------------------
\* A session has one turn loop unless a message was taken between finish_turn
\* and reserve (session_coordinator.rs:53, handler.rs:627-632).
THEOREM OneLoopTheorem == Spec => []OneLoopOutsideGap
<1>1. IInv => OneLoopOutsideGap
  BY DEF IInv, Exact, OneLoop, OneLoopOutsideGap
<1> QED
  BY Inductive, <1>1, PTL

\* Outside that window a turn is cut short only if the user interrupted it while
\* it ran: start_turn forgets older requests (session_coordinator.rs:92-96) and
\* finish_active_turn removes no other loop's sender.
THEOREM InterruptTheorem == Spec => []InterruptedOnRequest
<1>1. IInv => InterruptedOnRequest
  BY DEF IInv, Exact, ReportedOnRequest, InterruptedOnRequest
<1> QED
  BY Inductive, <1>1, PTL

-----------------------------------------------------------------------------
(* Sequences, and the backlog as next_queued_inbound leaves it.              *)

\* Induction over the naturals, from a smallest counterexample.
LEMMA NatInductive ==
    ASSUME NEW T \in SUBSET Nat, 0 \in T, \A n \in T : n + 1 \in T
    PROVE  T = Nat
<1> DEFINE R == OpToRel(<, Nat)
<1>1. IsWellFoundedOn(R, Nat)
  BY NatLessThanWellFounded, Zenon
<1>2. ASSUME NEW x \in Nat, NEW y \in Nat, y < x PROVE <<y, x>> \in R
  BY <1>2, Zenon DEF OpToRel
<1> HIDE DEF R
<1>3. SUFFICES ASSUME Nat \ T # {} PROVE FALSE
  OBVIOUS
<1>4. PICK x \in Nat \ T : \A y \in Nat \ T : <<y, x>> \notin R
  BY <1>1, <1>3, WFMin
<1>5. x # 0 /\ x - 1 \in Nat /\ x - 1 < x
  BY <1>4
<1>6. <<x - 1, x>> \in R
  BY <1>2, <1>4, <1>5
<1>7. x - 1 \in T
  BY <1>4, <1>5, <1>6
<1>8. QED
  BY <1>4, <1>5, <1>7

LEMMA AppendFacts ==
    ASSUME NEW S, NEW s \in Seq(S), NEW e \in S
    PROVE  /\ Append(s, e) \in Seq(S)
           /\ Len(s) \in Nat
           /\ Len(Append(s, e)) = Len(s) + 1
           /\ \A i \in 1..Len(s) : Append(s, e)[i] = s[i]
           /\ Append(s, e)[Len(s) + 1] = e
           /\ Elems(Append(s, e)) = Elems(s) \cup {e}
<1>1. /\ Append(s, e) \in Seq(S)
      /\ Len(Append(s, e)) = Len(s) + 1
      /\ \A i \in 1..Len(s) : Append(s, e)[i] = s[i]
      /\ Append(s, e)[Len(s) + 1] = e
      /\ Len(s) \in Nat
  OBVIOUS
<1>2. Elems(Append(s, e)) = Elems(s) \cup {e}
  BY <1>1 DEF Elems
<1> QED
  BY <1>1, <1>2

\* The first of a sequence and the others.
LEMMA HeadFacts ==
    ASSUME NEW S, NEW s \in Seq(S), s # <<>>
    PROVE  /\ Head(s) \in S /\ Tail(s) \in Seq(S)
           /\ Len(s) \in Nat \ {0} /\ Len(Tail(s)) = Len(s) - 1
           /\ Head(s) = s[1]
           /\ \A i \in 1..Len(Tail(s)) : Tail(s)[i] = s[i + 1]
           /\ Elems(s) = {Head(s)} \cup Elems(Tail(s))
<1>1. /\ Head(s) \in S /\ Tail(s) \in Seq(S)
      /\ Len(s) \in Nat \ {0} /\ Len(Tail(s)) = Len(s) - 1
      /\ Head(s) = s[1]
      /\ \A i \in 1..Len(Tail(s)) : Tail(s)[i] = s[i + 1]
  OBVIOUS
<1>2. \A i \in 1..Len(s) : i = 1 \/ (i - 1 \in 1..Len(Tail(s)) /\ Tail(s)[i - 1] = s[i])
  BY <1>1
<1>3. Elems(s) \subseteq {Head(s)} \cup Elems(Tail(s))
  BY <1>1, <1>2 DEF Elems
<1>4. {Head(s)} \cup Elems(Tail(s)) \subseteq Elems(s)
  <2>1. \A i \in 1..Len(Tail(s)) : i + 1 \in 1..Len(s)
    BY <1>1
  <2>2. 1 \in 1..Len(s)
    BY <1>1
  <2> QED
    BY <1>1, <2>1, <2>2 DEF Elems
<1> QED
  BY <1>1, <1>3, <1>4

LEMMA ElemsIn == ASSUME NEW S, NEW s \in Seq(S) PROVE Elems(s) \subseteq S
BY DEF Elems

LEMMA ElemsEmpty == Elems(<<>>) = {}
BY DEF Elems

LEMMA ElemsNone == ASSUME NEW S, NEW s \in Seq(S), Elems(s) = {} PROVE s = <<>>
<1> SUFFICES ASSUME s # <<>> PROVE FALSE
  OBVIOUS
<1>1. Elems(s) = {Head(s)} \cup Elems(Tail(s))
  BY HeadFacts
<1> QED
  BY <1>1

LEMMA ElemsOne == ASSUME NEW e PROVE Elems(<<e>>) = {e} /\ Len(<<e>>) = 1 /\ <<e>>[1] = e
<1>1. Len(<<e>>) = 1 /\ <<e>>[1] = e
  OBVIOUS
<1> QED
  BY <1>1 DEF Elems

\* Numbered upwards; what is numbered upwards has no element twice.
Ascending(s, t) == \A i, j \in 1..Len(s) : i < j => t[s[i]] < t[s[j]]
Numbering(t) == t \in [Inbound -> Nat]

LEMMA AscendingAppend ==
    ASSUME NEW t, Numbering(t), NEW s \in Seq(Inbound), NEW e \in Inbound,
           Ascending(s, t), \A x \in Elems(s) : t[x] < t[e]
    PROVE  Ascending(Append(s, e), t)
<1> SUFFICES ASSUME NEW i \in 1..Len(Append(s, e)), NEW j \in 1..Len(Append(s, e)), i < j
             PROVE  t[Append(s, e)[i]] < t[Append(s, e)[j]]
  BY DEF Ascending
<1>1. i \in 1..Len(s) /\ Append(s, e)[i] = s[i] /\ s[i] \in Elems(s)
  BY AppendFacts DEF Elems
<1>2. CASE j \in 1..Len(s)
  <2>1. Append(s, e)[j] = s[j]
    BY <1>2, AppendFacts
  <2> QED
    BY <1>1, <1>2, <2>1 DEF Ascending
<1>3. CASE j = Len(s) + 1
  BY <1>1, <1>3, AppendFacts
<1>4. j \in 1..Len(s) \/ j = Len(s) + 1
  BY AppendFacts
<1> QED
  BY <1>2, <1>3, <1>4

LEMMA AscendingTail ==
    ASSUME NEW t, NEW s \in Seq(Inbound), s # <<>>, Ascending(s, t)
    PROVE  Ascending(Tail(s), t) /\ \A x \in Elems(Tail(s)) : t[Head(s)] < t[x]
<1>1. \A i \in 1..Len(Tail(s)) : Tail(s)[i] = s[i + 1] /\ i + 1 \in 1..Len(s) /\ 1 < i + 1
  BY HeadFacts
<1>2. Head(s) = s[1] /\ 1 \in 1..Len(s)
  BY HeadFacts
<1>3. Ascending(Tail(s), t)
  <2> SUFFICES ASSUME NEW i \in 1..Len(Tail(s)), NEW j \in 1..Len(Tail(s)), i < j
               PROVE  t[Tail(s)[i]] < t[Tail(s)[j]]
    BY DEF Ascending
  <2>1. i + 1 < j + 1
    OBVIOUS
  <2> QED
    BY <1>1, <2>1 DEF Ascending
<1>4. \A x \in Elems(Tail(s)) : t[Head(s)] < t[x]
  BY <1>1, <1>2 DEF Elems, Ascending
<1> QED
  BY <1>3, <1>4

LEMMA AscendingDistinct ==
    ASSUME NEW t, Numbering(t), NEW s \in Seq(Inbound), Ascending(s, t),
           NEW i \in 1..Len(s), NEW j \in 1..Len(s), s[i] = s[j]
    PROVE  i = j
<1>1. t[s[i]] \in Nat /\ t[s[i]] = t[s[j]] /\ i \in Int /\ j \in Int
  BY DEF Numbering
<1> QED
  BY <1>1 DEF Ascending

LEMMA AscendingShort ==
    ASSUME NEW t PROVE Ascending(<<>>, t) /\ \A e : Ascending(<<e>>, t)
BY DEF Ascending
-----------------------------------------------------------------------------
Backlog == [regular : Seq(Inbound), scheduled : Seq(Inbound), since : 0..MaxRegular]

\* Everything in the first backlog and in the first i messages of q has been kept,
\* by kind, and in the order of the numbers if it came in that order.
KeptSoFar(b, q, i, k) ==
    /\ k \in Backlog /\ k.since = b.since
    /\ Elems(k.regular) = Elems(b.regular) \cup ({q[j] : j \in 1..i} \ Scheduled)
    /\ Elems(k.scheduled) = Elems(b.scheduled) \cup ({q[j] : j \in 1..i} \cap Scheduled)

KeptInOrder(k, t) == Ascending(k.regular, t) /\ Ascending(k.scheduled, t)
Follows(b, q, t) ==
    Ascending(q, t) /\ \A x \in Elems(b.regular) \cup Elems(b.scheduled), y \in Elems(q) : t[x] < t[y]

LEMMA KeepFacts ==
    ASSUME NEW b \in Backlog, NEW q \in Seq(Inbound), NEW i \in Nat, i < Len(q),
           NEW k, KeptSoFar(b, q, i, k)
    PROVE  KeptSoFar(b, q, i + 1, Keep(k, q[i + 1]))
<1> DEFINE e == q[i + 1]
           so(n) == {q[j] : j \in 1..n}
<1>1. e \in Inbound /\ so(i + 1) = so(i) \cup {e}
  <2>1. Len(q) \in Nat /\ i + 1 \in 1..Len(q)
    OBVIOUS
  <2>2. 1..(i + 1) = (1..i) \cup {i + 1}
    OBVIOUS
  <2> QED
    BY <2>1, <2>2
<1>2. /\ k \in Backlog /\ k.regular \in Seq(Inbound) /\ k.scheduled \in Seq(Inbound)
      /\ k.since \in 0..MaxRegular /\ k.since = b.since
      /\ Elems(k.regular) = Elems(b.regular) \cup (so(i) \ Scheduled)
      /\ Elems(k.scheduled) = Elems(b.scheduled) \cup (so(i) \cap Scheduled)
  BY DEF KeptSoFar, Backlog
<1> HIDE DEF e, so
<1>3. CASE e \in Scheduled
  <2> DEFINE g == [k EXCEPT !.scheduled = Append(@, e)]
  <2>1. g = Keep(k, e)
    BY <1>3 DEF Keep, IsScheduled
  <2>2. /\ Append(k.scheduled, e) \in Seq(Inbound)
        /\ Elems(Append(k.scheduled, e)) = Elems(k.scheduled) \cup {e}
    BY <1>1, <1>2, AppendFacts
  <2>3. /\ g \in Backlog /\ g.since = k.since /\ g.regular = k.regular
        /\ g.scheduled = Append(k.scheduled, e)
    BY <1>2, <2>2 DEF Backlog
  <2> HIDE DEF g
  <2>4. /\ Elems(g.regular) = Elems(b.regular) \cup (so(i + 1) \ Scheduled)
        /\ Elems(g.scheduled) = Elems(b.scheduled) \cup (so(i + 1) \cap Scheduled)
    BY <1>1, <1>2, <1>3, <2>2, <2>3
  <2> QED
    BY <1>2, <2>1, <2>3, <2>4 DEF KeptSoFar, e, so
<1>4. CASE e \notin Scheduled
  <2> DEFINE g == [k EXCEPT !.regular = Append(@, e)]
  <2>1. g = Keep(k, e)
    BY <1>4 DEF Keep, IsScheduled
  <2>2. /\ Append(k.regular, e) \in Seq(Inbound)
        /\ Elems(Append(k.regular, e)) = Elems(k.regular) \cup {e}
    BY <1>1, <1>2, AppendFacts
  <2>3. /\ g \in Backlog /\ g.since = k.since /\ g.scheduled = k.scheduled
        /\ g.regular = Append(k.regular, e)
    BY <1>2, <2>2 DEF Backlog
  <2> HIDE DEF g
  <2>4. /\ Elems(g.regular) = Elems(b.regular) \cup (so(i + 1) \ Scheduled)
        /\ Elems(g.scheduled) = Elems(b.scheduled) \cup (so(i + 1) \cap Scheduled)
    BY <1>1, <1>2, <1>4, <2>2, <2>3
  <2> QED
    BY <1>2, <2>1, <2>3, <2>4 DEF KeptSoFar, e, so
<1> QED
  BY <1>3, <1>4

LEMMA KeepInOrder ==
    ASSUME NEW b \in Backlog, NEW q \in Seq(Inbound), NEW i \in Nat, i < Len(q),
           NEW k, KeptSoFar(b, q, i, k), NEW t, Numbering(t), Follows(b, q, t),
           KeptInOrder(k, t)
    PROVE  KeptInOrder(Keep(k, q[i + 1]), t)
<1> DEFINE e == q[i + 1]
<1>1. e \in Inbound /\ e \in Elems(q) /\ i + 1 \in 1..Len(q)
  BY DEF Elems
<1>2. k.regular \in Seq(Inbound) /\ k.scheduled \in Seq(Inbound) /\ k \in Backlog
  BY DEF KeptSoFar, Backlog
<1>3. \A x \in Elems(k.regular) \cup Elems(k.scheduled) : t[x] < t[e]
  <2> SUFFICES ASSUME NEW x \in Elems(k.regular) \cup Elems(k.scheduled) PROVE t[x] < t[e]
    OBVIOUS
  <2>1. CASE x \in Elems(b.regular) \cup Elems(b.scheduled)
    BY <1>1, <2>1 DEF Follows
  <2>2. ASSUME NEW j \in 1..i, x = q[j] PROVE t[x] < t[e]
    <3>1. j \in 1..Len(q) /\ j < i + 1
      BY <1>1
    <3> QED
      BY <1>1, <2>2, <3>1 DEF Follows, Ascending
  <2> QED
    BY <2>1, <2>2 DEF KeptSoFar
<1> HIDE DEF e
<1>4. CASE e \in Scheduled
  <2>1. /\ Keep(k, e).regular = k.regular
        /\ Keep(k, e).scheduled = Append(k.scheduled, e)
    BY <1>2, <1>4 DEF Keep, IsScheduled, Backlog
  <2>2. Ascending(Append(k.scheduled, e), t)
    BY <1>1, <1>2, <1>3, AscendingAppend DEF KeptInOrder
  <2> QED
    BY <2>1, <2>2 DEF KeptInOrder, e
<1>5. CASE e \notin Scheduled
  <2>1. /\ Keep(k, e).scheduled = k.scheduled
        /\ Keep(k, e).regular = Append(k.regular, e)
    BY <1>2, <1>5 DEF Keep, IsScheduled, Backlog
  <2>2. Ascending(Append(k.regular, e), t)
    BY <1>1, <1>2, <1>3, AscendingAppend DEF KeptInOrder
  <2> QED
    BY <2>1, <2>2 DEF KeptInOrder, e
<1> QED
  BY <1>4, <1>5

\* The loop over the drained messages, as an equation, and that it has a solution.
Keeping(b, q, n, f) == f = [i \in 0..n |-> IF i = 0 THEN b ELSE Keep(f[i - 1], q[i])]

LEMMA KeepingExists ==
    ASSUME NEW b, NEW q, NEW n \in Nat PROVE \E f : Keeping(b, q, n, f)
<1> DEFINE T == {l \in Nat : \E f : Keeping(b, q, l, f)}
<1>1. 0 \in T
  <2> DEFINE g == [i \in 0..0 |-> b]
  <2>1. \A i \in 0..0 : i = 0
    OBVIOUS
  <2>2. Keeping(b, q, 0, g)
    BY <2>1 DEF Keeping
  <2> QED
    BY <2>2
<1>2. ASSUME NEW l \in T PROVE l + 1 \in T
  <2>1. l \in Nat
    OBVIOUS
  <2>2. PICK f : Keeping(b, q, l, f)
    OBVIOUS
  <2> DEFINE g == [i \in 0..(l + 1) |-> IF i <= l THEN f[i] ELSE Keep(f[l], q[l + 1])]
  <2>3. \A i \in 0..l : i \in 0..(l + 1) /\ i <= l
    BY <2>1
  <2>4. \A i \in 0..l : g[i] = f[i]
    BY <2>3
  <2>5. \A i \in 0..l : f[i] = IF i = 0 THEN b ELSE Keep(f[i - 1], q[i])
    BY <2>2, Zenon DEF Keeping
  <2>6. ASSUME NEW i \in 0..(l + 1)
        PROVE  g[i] = IF i = 0 THEN b ELSE Keep(g[i - 1], q[i])
    <3>1. CASE i \in 0..l
      <4>1. i # 0 => i - 1 \in 0..l
        BY <2>1, <3>1
      <4>2. i # 0 => g[i - 1] = f[i - 1]
        BY <2>4, <4>1
      <4> QED
        BY <2>4, <2>5, <3>1, <4>2
    <3>2. CASE i = l + 1
      <4>1. i # 0 /\ ~ (i <= l) /\ i - 1 = l /\ l \in 0..l
        BY <2>1, <3>2
      <4>2. g[i] = Keep(f[l], q[l + 1])
        BY <4>1
      <4> QED
        BY <2>4, <3>2, <4>1, <4>2
    <3> QED
      BY <2>1, <3>1, <3>2
  <2>7. Keeping(b, q, l + 1, g)
    BY <2>6 DEF Keeping
  <2> HIDE DEF g
  <2> QED
    BY <2>1, <2>7
<1> HIDE DEF T
<1>3. T = Nat
  <2>1. T \in SUBSET Nat
    BY DEF T
  <2> QED
    BY <1>1, <1>2, <2>1, NatInductive
<1> QED
  BY <1>3 DEF T

LEMMA KeepAllIs ==
    ASSUME NEW b, NEW q, Len(q) \in Nat
    PROVE  \E f : Keeping(b, q, Len(q), f) /\ KeepAll(b, q) = f[Len(q)]
<1> DEFINE g == CHOOSE f : Keeping(b, q, Len(q), f)
<1>1. Keeping(b, q, Len(q), g)
  BY KeepingExists, Zenon
<1>2. KeepAll(b, q) = g[Len(q)]
  BY Zenon DEF KeepAll, Keeping
<1> HIDE DEF g
<1> QED
  BY <1>1, <1>2

LEMMA KeepAllFacts ==
    ASSUME NEW b \in Backlog, NEW q \in Seq(Inbound)
    PROVE  /\ KeptSoFar(b, q, Len(q), KeepAll(b, q))
           /\ \A t : Numbering(t) /\ Follows(b, q, t) /\ KeptInOrder(b, t)
                     => KeptInOrder(KeepAll(b, q), t)
<1>0. Len(q) \in Nat
  OBVIOUS
<1>1. PICK f : Keeping(b, q, Len(q), f) /\ KeepAll(b, q) = f[Len(q)]
  BY <1>0, KeepAllIs
<1>2. \A i \in 0..Len(q) : f[i] = IF i = 0 THEN b ELSE Keep(f[i - 1], q[i])
  BY <1>1, Zenon DEF Keeping
<1> DEFINE Sound(i) == /\ KeptSoFar(b, q, i, f[i])
                       /\ \A t : Numbering(t) /\ Follows(b, q, t) /\ KeptInOrder(b, t)
                                 => KeptInOrder(f[i], t)
           T == {i \in Nat : i <= Len(q) => Sound(i)}
<1>3. 0 \in T
  <2>1. f[0] = b
    BY <1>0, <1>2
  <2>2. {q[j] : j \in 1..0} = {}
    OBVIOUS
  <2>3. KeptSoFar(b, q, 0, b)
    BY <2>2 DEF KeptSoFar
  <2>4. Sound(0)
    BY <2>1, <2>3
  <2> QED
    BY <2>4
<1>4. ASSUME NEW i \in T PROVE i + 1 \in T
  <2>1. i \in Nat /\ i + 1 \in Nat
    OBVIOUS
  <2>2. SUFFICES ASSUME i + 1 <= Len(q) PROVE Sound(i + 1)
    BY <2>1
  <2>3. i < Len(q) /\ i <= Len(q) /\ i + 1 \in 0..Len(q) /\ i + 1 # 0 /\ (i + 1) - 1 = i
    BY <1>0, <2>1, <2>2
  <2>4. Sound(i)
    BY <2>3
  <2>5. f[i + 1] = Keep(f[i], q[i + 1])
    BY <1>2, <2>3
  <2>6. KeptSoFar(b, q, i + 1, f[i + 1])
    BY <2>1, <2>3, <2>4, <2>5, KeepFacts
  <2>7. ASSUME NEW t, Numbering(t), Follows(b, q, t), KeptInOrder(b, t)
        PROVE  KeptInOrder(f[i + 1], t)
    <3>1. KeptInOrder(f[i], t) /\ KeptSoFar(b, q, i, f[i])
      BY <2>4, <2>7
    <3> QED
      BY <2>1, <2>3, <2>5, <2>7, <3>1, KeepInOrder
  <2> QED
    BY <2>6, <2>7
<1> HIDE DEF Sound
<1>5. T = Nat
  <2> HIDE DEF T
  <2>1. T \in SUBSET Nat
    BY DEF T
  <2> QED
    BY <1>3, <1>4, <2>1, NatInductive
<1>6. Sound(Len(q))
  BY <1>0, <1>5
<1> QED
  BY <1>1, <1>6 DEF Sound

\* The fields of a backlog are updated one by one.
WithScheduled(k, s, n) == [k EXCEPT !.scheduled = s, !.since = n]
WithRegular(k, s, n) == [k EXCEPT !.regular = s, !.since = n]
LEMMA Updates ==
    ASSUME NEW k \in Backlog, NEW s \in Seq(Inbound), NEW n \in 0..MaxRegular
    PROVE  /\ WithScheduled(k, s, n) \in Backlog
           /\ WithScheduled(k, s, n).scheduled = s
           /\ WithScheduled(k, s, n).regular = k.regular
           /\ WithScheduled(k, s, n).since = n
           /\ WithRegular(k, s, n) \in Backlog
           /\ WithRegular(k, s, n).scheduled = k.scheduled
           /\ WithRegular(k, s, n).regular = s
           /\ WithRegular(k, s, n).since = n
BY DEF Backlog, WithScheduled, WithRegular

\* What a drain leaves: one batch and a backlog, of the messages kept before and
\* those drained, each in one of the two.
LEMMA PickFacts ==
    ASSUME NEW k \in Backlog
    PROVE  /\ Pick(k).rest \in Backlog /\ Pick(k).batch \in Seq(Inbound)
           /\ Pick(k).batch = <<>> => k.regular = <<>> /\ k.scheduled = <<>> /\ Pick(k).rest = k
           /\ Pick(k).batch # <<>> =>
              \/ /\ k.regular # <<>>
                 /\ Pick(k).batch = k.regular /\ Pick(k).rest.regular = <<>>
                 /\ Pick(k).rest.scheduled = k.scheduled
                 /\ k.scheduled # <<>> => Pick(k).rest.since = k.since + 1
              \/ /\ k.scheduled # <<>>
                 /\ Pick(k).batch = <<Head(k.scheduled)>>
                 /\ Pick(k).rest.scheduled = Tail(k.scheduled)
                 /\ Pick(k).rest.regular = k.regular
                 /\ Pick(k).rest.since = 0
<1>1. /\ k.regular \in Seq(Inbound) /\ k.scheduled \in Seq(Inbound)
      /\ k.since \in 0..MaxRegular
  BY DEF Backlog
<1>2. MaxRegular \in Nat
  BY BoundsAssumption
<1>3. CASE k.scheduled # <<>> /\ (k.regular = <<>> \/ k.since >= MaxRegular)
  <2> DEFINE rest == WithScheduled(k, Tail(k.scheduled), 0)
  <2>1. Pick(k) = [batch |-> <<Head(k.scheduled)>>, rest |-> rest]
    BY <1>3, Zenon DEF Pick, WithScheduled
  <2>2. Head(k.scheduled) \in Inbound /\ Tail(k.scheduled) \in Seq(Inbound)
    BY <1>1, <1>3, HeadFacts
  <2>3. 0 \in 0..MaxRegular
    BY <1>2
  <2>5. /\ rest \in Backlog /\ rest.scheduled = Tail(k.scheduled) /\ rest.regular = k.regular
        /\ rest.since = 0
    BY <2>2, <2>3, Updates
  <2> HIDE DEF rest
  <2>4. <<Head(k.scheduled)>> \in Seq(Inbound) /\ <<Head(k.scheduled)>> # <<>>
    BY <2>2
  <2> QED
    BY <1>3, <2>1, <2>4, <2>5
<1>6. ASSUME NEW n \in 0..MaxRegular
      PROVE  /\ WithRegular(k, <<>>, n) \in Backlog
             /\ WithRegular(k, <<>>, n).scheduled = k.scheduled
             /\ WithRegular(k, <<>>, n).regular = <<>>
             /\ WithRegular(k, <<>>, n).since = n
  <2> DEFINE e == <<>>
  <2>1. e \in Seq(Inbound)
    OBVIOUS
  <2> HIDE DEF e
  <2>2. /\ WithRegular(k, e, n) \in Backlog
        /\ WithRegular(k, e, n).scheduled = k.scheduled
        /\ WithRegular(k, e, n).regular = e
        /\ WithRegular(k, e, n).since = n
    BY <2>1, Updates
  <2> QED
    BY <2>2 DEF e
<1>4. CASE ~ (k.scheduled # <<>> /\ (k.regular = <<>> \/ k.since >= MaxRegular)) /\ k.regular # <<>>
  <2> DEFINE since == IF k.since < MaxRegular THEN k.since + 1 ELSE k.since
             rest == WithRegular(k, <<>>, since)
  <2>1. Pick(k) = [batch |-> k.regular, rest |-> rest]
    BY <1>4, Zenon DEF Pick, WithRegular
  <2>3. since \in 0..MaxRegular
    BY <1>1, <1>2
  <2>4. k.scheduled # <<>> => since = k.since + 1
    BY <1>1, <1>2, <1>4
  <2> HIDE DEF since
  <2> QED
    BY <1>1, <1>4, <1>6, <2>1, <2>3, <2>4
<1>5. CASE ~ (k.scheduled # <<>> /\ (k.regular = <<>> \/ k.since >= MaxRegular)) /\ k.regular = <<>>
  <2>1. Pick(k) = [batch |-> <<>>, rest |-> k]
    BY <1>5, Zenon DEF Pick
  <2>2. <<>> \in Seq(Inbound)
    OBVIOUS
  <2> QED
    BY <1>5, <2>1, <2>2
<1> QED
  BY <1>3, <1>4, <1>5
-----------------------------------------------------------------------------
(* The types that Shapes leaves out. *)

RunRecord == [loop : Inbound, batch : Nat, msg : Inbound]
Counters == [tickets : Nat, interrupts : Nat, subagents : Nat, panics : Nat]

DataOK ==
    /\ queue \in Seq(Inbound)
    /\ current \in [Inbound -> Seq(Inbound)]
    /\ backlog \in [Inbound -> Backlog]
FlagsOK == waiting \in [Inbound -> BOOLEAN] /\ subagents \in BOOLEAN
FateOK == fate \in [Inbound -> {"open", "completed", "interrupted", "panicked",
                                "forgotten", "overwritten"}]
RunOK == ran \in Seq(RunRecord)
TicketsOK == ticket \in [Inbound -> Nat] /\ used \in Counters

Rest == DataOK /\ FlagsOK /\ FateOK /\ RunOK /\ TicketsOK

LEMMA TypeParts == IInv /\ Rest => TypeOK
BY DEF IInv, Shapes, Rest, DataOK, FlagsOK, FateOK, TicketsOK, Backlog, TypeOK

LEMMA InitRest == Init => Rest
<1> SUFFICES ASSUME Init PROVE Rest
  OBVIOUS
<1>1. EmptyBacklog \in Backlog
  BY BoundsAssumption DEF EmptyBacklog, Backlog
<1>2. DataOK /\ RunOK
  BY <1>1 DEF Init, DataOK, RunOK
<1>3. FlagsOK /\ FateOK /\ TicketsOK
  BY DEF Init, FlagsOK, FateOK, TicketsOK, Counters
<1> QED
  BY <1>2, <1>3 DEF Rest

\* A loop that drains the queue: drain_queued, or finish_turn.
Takes(m, next) ==
    /\ next = NextQueued(backlog[m], queue)
    /\ pc[m] \in {"poll", "again", "finish"}
    /\ queue' = <<>>
    /\ backlog' = [backlog EXCEPT ![m] = next.rest]
    /\ \/ /\ next.batch # <<>>
          /\ \E to \in {"start", "gap"} : pc' = [pc EXCEPT ![m] = to]
          /\ current' = [current EXCEPT ![m] = next.batch]
       \/ /\ next.batch = <<>>
          /\ \E to \in {"check", "finish", "done"} :
                pc' = [pc EXCEPT ![m] = to] /\ (to = "done" => pc[m] = "finish")
          /\ UNCHANGED current
    /\ UNCHANGED <<active, cancelled, waiting, result, subagents, history>>

LEMMA AllTakes ==
    ASSUME NEW m \in Inbound, Poll(m) \/ PollAgain(m) \/ FinishTurn(m)
    PROVE  \E next : Takes(m, next)
<1> DEFINE next == NextQueued(backlog[m], queue)
<1>1. CASE Poll(m)
  BY <1>1 DEF Poll, Drain, Takes
<1>2. CASE PollAgain(m)
  BY <1>2 DEF PollAgain, Drain, Takes
<1>3. CASE FinishTurn(m)
  BY <1>3 DEF FinishTurn, Takes
<1> QED
  BY <1>1, <1>2, <1>3

\* What a drain does to the backlog, in full.
LEMMA TakesFacts ==
    ASSUME DataOK, NEW m \in Inbound, NEW next, Takes(m, next)
    PROVE  \E k \in Backlog :
             /\ next = Pick(k)
             /\ KeptSoFar(backlog[m], queue, Len(queue), k)
             /\ \A t : Numbering(t) /\ Follows(backlog[m], queue, t) /\ KeptInOrder(backlog[m], t)
                       => KeptInOrder(k, t)
<1> DEFINE k == KeepAll(backlog[m], queue)
<1>1. backlog[m] \in Backlog /\ queue \in Seq(Inbound)
  BY DEF DataOK
<1>2. next = Pick(k)
  BY DEF Takes, NextQueued
<1>3. /\ KeptSoFar(backlog[m], queue, Len(queue), k)
      /\ \A t : Numbering(t) /\ Follows(backlog[m], queue, t) /\ KeptInOrder(backlog[m], t)
                => KeptInOrder(k, t)
  BY <1>1, KeepAllFacts
<1> HIDE DEF k
<1>4. k \in Backlog
  BY <1>3 DEF KeptSoFar
<1> QED
  BY <1>2, <1>3, <1>4

LEMMA ConcatFacts ==
    ASSUME NEW S, NEW s \in Seq(S), NEW t \in Seq(S)
    PROVE  /\ s \o t \in Seq(S)
           /\ Len(s \o t) = Len(s) + Len(t)
           /\ \A i \in 1..Len(s) : (s \o t)[i] = s[i]
           /\ \A i \in 1..Len(t) : (s \o t)[Len(s) + i] = t[i]
OBVIOUS

\* A turn starts: every message of its batch is run, under one number.
LEMMA Starts ==
    ASSUME DataOK, RunOK, NEW m \in Inbound, StartTurn(m)
    PROVE  /\ ran' \in Seq(RunRecord)
           /\ Len(ran) \in Nat /\ Len(current[m]) \in Nat
           /\ Len(ran') = Len(ran) + Len(current[m])
           /\ \A i \in 1..Len(ran) : ran'[i] = ran[i]
           /\ \A i \in 1..Len(current[m]) :
                 /\ ran'[Len(ran) + i].loop = m
                 /\ ran'[Len(ran) + i].batch = Len(ran)
                 /\ ran'[Len(ran) + i].msg = current[m][i]
<1> DEFINE Record(i) == [loop |-> m, batch |-> Len(ran), msg |-> current[m][i]]
           new == [i \in 1..Len(current[m]) |-> Record(i)]
<1>1. /\ ran' = ran \o new /\ ran \in Seq(RunRecord) /\ Len(ran) \in Nat
      /\ current[m] \in Seq(Inbound) /\ Len(current[m]) \in Nat
  BY DEF StartTurn, RunOK, DataOK
<1>2. ASSUME NEW i \in 1..Len(current[m])
      PROVE  Record(i) \in RunRecord
  BY <1>1 DEF RunRecord
<1>3. \A i \in 1..Len(current[m]) :
          Record(i).loop = m /\ Record(i).batch = Len(ran) /\ Record(i).msg = current[m][i]
  OBVIOUS
<1> HIDE DEF Record
<1>4. new \in Seq(RunRecord) /\ Len(new) = Len(current[m])
      /\ \A i \in 1..Len(current[m]) : new[i] = Record(i)
  BY <1>1, <1>2
<1> HIDE DEF new
<1>5. /\ ran' \in Seq(RunRecord) /\ Len(ran') = Len(ran) + Len(new)
      /\ \A i \in 1..Len(ran) : ran'[i] = ran[i]
      /\ \A i \in 1..Len(new) : ran'[Len(ran) + i] = new[i]
  BY <1>1, <1>4, ConcatFacts
<1> QED
  BY <1>1, <1>3, <1>4, <1>5

LEMMA TakesRest ==
    ASSUME Rest, NEW m \in Inbound, NEW next, Takes(m, next) PROVE Rest'
<1>1. PICK k \in Backlog : next = Pick(k)
  BY TakesFacts DEF Rest
<1>2. next.rest \in Backlog /\ next.batch \in Seq(Inbound)
  BY <1>1, PickFacts
<1>3. /\ queue' = <<>> /\ backlog' = [backlog EXCEPT ![m] = next.rest]
      /\ current' = current \/ current' = [current EXCEPT ![m] = next.batch]
      /\ UNCHANGED <<waiting, subagents, fate, ran, ticket, used>>
  BY DEF Takes, history
<1>4. queue' \in Seq(Inbound)
  BY <1>3
<1>5. current' \in [Inbound -> Seq(Inbound)] /\ backlog' \in [Inbound -> Backlog]
  <2>1. current \in [Inbound -> Seq(Inbound)] /\ backlog \in [Inbound -> Backlog]
    BY DEF Rest, DataOK
  <2> QED
    BY <1>2, <1>3, <2>1
<1>6. DataOK'
  BY <1>4, <1>5 DEF DataOK
<1> QED
  BY <1>3, <1>6 DEF Rest, FlagsOK, FateOK, RunOK, TicketsOK

LEMMA SubmitRest ==
    ASSUME Rest, NEW m \in Inbound, Submit(m) PROVE Rest'
<1>1. EmptyBacklog \in Backlog
  BY BoundsAssumption DEF EmptyBacklog, Backlog
<1>2. queue' \in Seq(Inbound)
  <2>1. queue' = <<>> \/ queue' = Append(queue, m)
    BY DEF Submit, RunNow, Enqueue
  <2>2. queue \in Seq(Inbound)
    BY DEF Rest, DataOK
  <2>3. Append(queue, m) \in Seq(Inbound) /\ <<>> \in Seq(Inbound)
    BY <2>2
  <2> QED
    BY <2>1, <2>3
<1>3. <<m>> \in Seq(Inbound)
  OBVIOUS
<1>4. DataOK'
  BY <1>1, <1>2, <1>3 DEF Submit, RunNow, Enqueue, Rest, DataOK
<1>5. ticket' \in [Inbound -> Nat] /\ used' \in Counters
  BY DEF Submit, Rest, TicketsOK, Counters
<1> QED
  BY <1>4, <1>5 DEF Submit, Rest, FlagsOK, FateOK, RunOK, TicketsOK

LEMMA Counts ==
    ASSUME used \in Counters
    PROVE  /\ [used EXCEPT !.interrupts = @ + 1] \in Counters
           /\ [used EXCEPT !.subagents = @ + 1] \in Counters
           /\ [used EXCEPT !.panics = @ + 1] \in Counters
BY DEF Counters

LEMMA NextRest == IInv /\ Rest /\ [Next]_vars => Rest'
<1> SUFFICES ASSUME IInv, Rest, [Next]_vars PROVE Rest'
  OBVIOUS
<1> USE DEF Rest, FlagsOK, RunOK
<1>1. ASSUME Interrupt PROVE Rest'
  <2>1. used' = [used EXCEPT !.interrupts = @ + 1]
        /\ UNCHANGED <<queue, current, backlog, waiting, subagents, fate, ran, ticket>>
    BY <1>1 DEF Interrupt
  <2> QED
    BY <2>1, Counts DEF DataOK, FateOK, TicketsOK
<1>2. ASSUME SubagentsReport PROVE Rest'
  BY <1>2 DEF SubagentsReport, DataOK, FateOK, TicketsOK, history
<1>3. ASSUME NEW m \in Inbound, Post(m) PROVE Rest'
  BY <1>3 DEF Post, data, history, DataOK, FateOK, TicketsOK
<1>4. ASSUME NEW m \in Inbound, Submit(m) PROVE Rest'
  BY <1>4, SubmitRest
<1>5. ASSUME NEW m \in Inbound, StartTurn(m) PROVE Rest'
  BY <1>5, Starts DEF StartTurn, DataOK, FateOK, TicketsOK
<1>6. ASSUME NEW m \in Inbound, Decide(m) PROVE Rest'
  <2>1. FateOK'
    BY <1>6 DEF Decide, FateOK
  <2> QED
    BY <1>6, <2>1 DEF Decide, DataOK, TicketsOK
<1>7. ASSUME NEW m \in Inbound, FinishActiveTurn(m) PROVE Rest'
  BY <1>7 DEF FinishActiveTurn, DataOK, FateOK, TicketsOK, history
<1>8. ASSUME NEW m \in Inbound, FinishInterrupted(m) PROVE Rest'
  <2>1. FateOK'
    BY <1>8 DEF FinishInterrupted, FateOK
  <2> QED
    BY <1>8, <2>1 DEF FinishInterrupted, DataOK, TicketsOK
<1>9. ASSUME NEW m \in Inbound, Poll(m) \/ PollAgain(m) \/ FinishTurn(m) PROVE Rest'
  BY <1>9, AllTakes, TakesRest
<1>10. ASSUME NEW m \in Inbound,
              WaitForSubagents(m) \/ ForceFailSubagents(m) \/ ForceFailLost(m) \/ NoSubagents(m)
       PROVE  Rest'
  BY <1>10 DEF WaitForSubagents, ForceFailSubagents, ForceFailLost, NoSubagents, data,
     history, DataOK, FateOK, TicketsOK
<1>11. ASSUME NEW m \in Inbound, Reserve(m) \/ PanicRelease(m) PROVE Rest'
  <2>1. FateOK'
    BY <1>11 DEF Reserve, PanicRelease, FateOK
  <2>2. /\ queue' = <<>>
        /\ UNCHANGED <<current, backlog, waiting, subagents, ran, ticket, used>>
    BY <1>11 DEF Reserve, PanicRelease
  <2>3. queue' \in Seq(Inbound)
    BY <2>2
  <2> QED
    BY <2>1, <2>2, <2>3 DEF DataOK, TicketsOK
<1>12. ASSUME NEW m \in Inbound, StartSubagent(m) PROVE Rest'
  <2>1. used' = [used EXCEPT !.subagents = @ + 1] /\ subagents' = TRUE
        /\ UNCHANGED <<queue, current, backlog, waiting, fate, ran, ticket>>
    BY <1>12 DEF StartSubagent
  <2> QED
    BY <2>1, Counts DEF DataOK, FateOK, TicketsOK
<1>13. ASSUME NEW m \in Inbound, Panic(m) PROVE Rest'
  <2>1. FateOK'
    BY <1>13 DEF Panic, FateOK
  <2>2. used' = [used EXCEPT !.panics = @ + 1]
        /\ UNCHANGED <<queue, current, backlog, waiting, subagents, ran, ticket>>
    BY <1>13 DEF Panic
  <2> QED
    BY <2>1, <2>2, Counts DEF DataOK, TicketsOK
<1>14. ASSUME UNCHANGED vars PROVE Rest'
  BY <1>14 DEF vars, control, data, history, DataOK, FateOK, TicketsOK
<1> QED
  BY <1>1, <1>2, <1>3, <1>4, <1>5, <1>6, <1>7, <1>8, <1>9, <1>10, <1>11, <1>12, <1>13,
     <1>14 DEF Next, LoopStep

LEMMA Typed == Spec => [](IInv /\ Rest)
<1>1. IInv /\ [Next]_vars => IInv'
  BY NextShapes, NextExact DEF IInv
<1> QED
  BY InitIInv, InitRest, NextRest, <1>1, PTL DEF Spec

\* Every reachable state of a session's coordinator is typed; in particular the
\* count of regular batches since a scheduled run stays in its range
\* (next_queued_inbound, handler/queue.rs:36-54).
THEOREM TypeCorrect == Spec => []TypeOK
BY Typed, TypeParts, PTL

-----------------------------------------------------------------------------
(* Where a message is, and in which order it got there.  A message that the   *)
(* coordinator took and that has not run is in one place: the session's queue, *)
(* a loop's backlog, or the batch a loop is about to run.                      *)

NotYet == {"unsent", "spawned"}
AboutToRun == {"start", "gap"}
Batch(n) == IF pc[n] \in AboutToRun THEN Elems(current[n]) ELSE {}
Kept(n) == Backlogged(n) \cup Batch(n)
Ran == {ran[i].msg : i \in 1..Len(ran)}

QueueWaits == \A m \in Elems(queue) : pc[m] = "absent"
KeptTaken == \A n \in Inbound : \A m \in Kept(n) : pc[m] \notin NotYet
RanTaken ==
    \A i \in 1..Len(ran) :
        pc[ran[i].msg] \notin NotYet /\ pc[ran[i].loop] \notin NotYet \cup {"absent"}
\* Who takes the reservation away takes the queue with it.
NoQueueUnreserved == ~reserved => queue = <<>>

QueueApart == \A m \in Elems(queue) : m \notin Ran /\ \A n \in Inbound : m \notin Kept(n)
RunApart == \A n \in Inbound : \A m \in Kept(n) : m \notin Ran
LoopsApart == \A n, k \in Inbound : \A m \in Kept(n) \cap Kept(k) : n = k
BatchApart == \A n \in Inbound : \A m \in Batch(n) : m \notin Backlogged(n)

\* The queue is drained as a whole: what is in it came after all that is not.
QueueLatest ==
    \A m \in Elems(queue), k \in Inbound \ Elems(queue) : ticket[k] < ticket[m]
TicketsGiven == \A m \in Inbound : ticket[m] <= used.tickets

KindsApart(b) ==
    Elems(b.regular) \cap Scheduled = {} /\ Elems(b.scheduled) \subseteq Scheduled
\* A batch is one message, or all the regular messages there are.
BatchShape(n) ==
    pc[n] \in AboutToRun =>
        /\ current[n] # <<>> /\ Ascending(current[n], ticket)
        /\ \/ Len(current[n]) = 1
           \/ Elems(current[n]) \cap Scheduled = {}
        /\ ~ (Elems(current[n]) \subseteq Scheduled) => backlog[n].regular = <<>>

\* What a loop keeps came after what it has run, of the regular messages.
RanBefore ==
    \A n \in Inbound, i \in 1..Len(ran) :
        ran[i].loop = n /\ IsRegular(ran[i].msg) =>
            \A m \in Kept(n) : IsRegular(m) => ticket[ran[i].msg] < ticket[m]

Whereabouts == QueueWaits /\ KeptTaken /\ RanTaken /\ NoQueueUnreserved
Apart == QueueApart /\ RunApart /\ LoopsApart /\ BatchApart
Numbers == Ascending(queue, ticket) /\ QueueLatest /\ TicketsGiven
Lists ==
    \A n \in Inbound :
        KeptInOrder(backlog[n], ticket) /\ KindsApart(backlog[n]) /\ BatchShape(n)
Past == RanBefore /\ RunOnce /\ InOrder

SInv == Whereabouts /\ Apart /\ Numbers /\ Lists /\ Past

LEMMA InitSInv == Init => SInv
<1> SUFFICES ASSUME Init PROVE SInv
  OBVIOUS
<1>1. /\ queue = <<>> /\ ran = <<>> /\ Elems(queue) = {} /\ Ran = {} /\ Len(ran) = 0
      /\ \A n \in Inbound : pc[n] = "unsent" /\ backlog[n] = EmptyBacklog /\ ticket[n] = 0
      /\ used.tickets = 0
  BY ElemsEmpty DEF Init, Ran
<1>2. \A n \in Inbound : Kept(n) = {} /\ Batch(n) = {} /\ pc[n] \notin AboutToRun
  BY <1>1, ElemsEmpty DEF Kept, Batch, Backlogged, EmptyBacklog, AboutToRun
<1>3. Whereabouts
  BY <1>1, <1>2 DEF Whereabouts, QueueWaits, KeptTaken, RanTaken, NoQueueUnreserved
<1>4. Apart
  BY <1>1, <1>2 DEF Apart, QueueApart, RunApart, LoopsApart, BatchApart
<1>5. Numbers
  BY <1>1, AscendingShort DEF Numbers, QueueLatest, TicketsGiven
<1>6. Lists
  BY <1>1, <1>2, AscendingShort, ElemsEmpty DEF Lists, KeptInOrder, KindsApart, BatchShape,
     EmptyBacklog
<1>7. Past
  BY <1>1 DEF Past, RanBefore, RunOnce, InOrder
<1> QED
  BY <1>3, <1>4, <1>5, <1>6, <1>7 DEF SInv

LEMMA PlacesTyped ==
    ASSUME Rest
    PROVE  /\ Elems(queue) \subseteq Inbound /\ Ran \subseteq Inbound
           /\ \A n \in Inbound : Kept(n) \subseteq Inbound /\ Elems(current[n]) \subseteq Inbound
           /\ \A i \in 1..Len(ran) : ran[i].loop \in Inbound /\ ran[i].msg \in Inbound
<1>1. Elems(queue) \subseteq Inbound
  BY ElemsIn DEF Rest, DataOK
<1>2. \A i \in 1..Len(ran) : ran[i].loop \in Inbound /\ ran[i].msg \in Inbound
  <2> SUFFICES ASSUME NEW i \in 1..Len(ran) PROVE ran[i].loop \in Inbound /\ ran[i].msg \in Inbound
    OBVIOUS
  <2>1. ran[i] \in RunRecord
    BY DEF Rest, RunOK
  <2> QED
    BY <2>1 DEF RunRecord
<1>3. ASSUME NEW n \in Inbound PROVE Kept(n) \subseteq Inbound /\ Elems(current[n]) \subseteq Inbound
  <2>1. /\ current[n] \in Seq(Inbound) /\ backlog[n].regular \in Seq(Inbound)
        /\ backlog[n].scheduled \in Seq(Inbound)
    BY DEF Rest, DataOK, Backlog
  <2> QED
    BY <2>1, ElemsIn DEF Kept, Backlogged, Batch
<1> QED
  BY <1>1, <1>2, <1>3 DEF Ran

\* A step that moves no message, except that it may empty the queue: what was in
\* it is dropped or goes back to the channel.
Stays ==
    /\ UNCHANGED <<current, backlog, ran, ticket>> /\ used'.tickets = used.tickets
    /\ queue' = <<>> \/ (queue' = queue /\ reserved' = reserved)
    /\ \A n \in Inbound :
          /\ pc'[n] \in AboutToRun <=> pc[n] \in AboutToRun
          /\ pc'[n] \in NotYet => pc[n] \in NotYet \/ (n \in Elems(queue) /\ queue' = <<>>)
          /\ pc'[n] = "absent" => pc[n] = "absent"
          /\ pc[n] = "absent" /\ n \in Elems(queue') => pc'[n] = "absent"

LEMMA StaysSInv == ASSUME Rest, SInv, Stays PROVE SInv'
<1> USE DEF SInv
<1>1. Elems(queue') \subseteq Elems(queue) /\ (queue' = queue \/ queue' = <<>>)
  BY ElemsEmpty DEF Stays
<1>2. \A n \in Inbound : Batch(n)' = Batch(n) /\ Backlogged(n)' = Backlogged(n) /\ Kept(n)' = Kept(n)
  BY DEF Stays, Batch, Kept, Backlogged, Elems
<1>3. Ran' = Ran /\ Elems(queue)' = Elems(queue')
  BY DEF Stays, Ran, Elems
<1>4. QueueWaits'
  BY <1>1, <1>3, PlacesTyped DEF Stays, Whereabouts, QueueWaits
<1>5. KeptTaken'
  <2> SUFFICES ASSUME NEW n \in Inbound, NEW m \in Kept(n) PROVE pc'[m] \notin NotYet
    BY <1>2 DEF KeptTaken
  <2>1. m \in Inbound /\ pc[m] \notin NotYet /\ m \notin Elems(queue)
    BY PlacesTyped DEF Whereabouts, KeptTaken, Apart, QueueApart
  <2> QED
    BY <2>1 DEF Stays
<1>6. RanTaken'
  <2> SUFFICES ASSUME NEW i \in 1..Len(ran)
               PROVE  pc'[ran[i].msg] \notin NotYet /\ pc'[ran[i].loop] \notin NotYet \cup {"absent"}
    BY DEF RanTaken, Stays
  <2>1. /\ ran[i].msg \in Inbound /\ ran[i].loop \in Inbound /\ ran[i].msg \in Ran
        /\ pc[ran[i].msg] \notin NotYet /\ pc[ran[i].loop] \notin NotYet \cup {"absent"}
    BY PlacesTyped DEF Whereabouts, RanTaken, Ran
  <2>2. ran[i].msg \notin Elems(queue) /\ ran[i].loop \notin Elems(queue)
    BY <2>1 DEF Apart, QueueApart, Whereabouts, QueueWaits
  <2> QED
    BY <2>1, <2>2 DEF Stays
<1>7. Whereabouts'
  BY <1>4, <1>5, <1>6 DEF Whereabouts, NoQueueUnreserved, Stays
<1>8. Apart'
  BY <1>1, <1>2, <1>3 DEF Apart, QueueApart, RunApart, LoopsApart, BatchApart
<1>9. Numbers'
  <2>1. ticket' = ticket /\ used'.tickets = used.tickets
    BY DEF Stays
  <2>2. CASE queue' = queue
    BY <1>3, <2>1, <2>2 DEF Numbers, QueueLatest, TicketsGiven, Ascending
  <2>3. CASE queue' = <<>>
    BY <1>3, <2>1, <2>3, ElemsEmpty, AscendingShort DEF Numbers, QueueLatest, TicketsGiven
  <2> QED
    BY <1>1, <2>2, <2>3
<1>10. Lists'
  <2> SUFFICES ASSUME NEW n \in Inbound
               PROVE  /\ KeptInOrder(backlog[n], ticket)' /\ KindsApart(backlog[n])'
                      /\ BatchShape(n)'
    BY DEF Lists
  <2>1. backlog' = backlog /\ current' = current /\ ticket' = ticket
        /\ (pc'[n] \in AboutToRun <=> pc[n] \in AboutToRun)
    BY DEF Stays
  <2>2. KeptInOrder(backlog[n], ticket) /\ KindsApart(backlog[n]) /\ BatchShape(n)
    BY DEF Lists
  <2> QED
    BY <2>1, <2>2 DEF KeptInOrder, KindsApart, BatchShape, Ascending, Elems
<1>11. Past'
  <2>1. RanBefore'
    BY <1>2, PlacesTyped DEF Past, RanBefore, Stays
  <2> QED
    BY <2>1 DEF Past, RunOnce, InOrder, Stays
<1> QED
  BY <1>7, <1>8, <1>9, <1>10, <1>11

\* The steps that move no message to another place.
Quiet(m) ==
    \/ Post(m) \/ Decide(m) \/ FinishActiveTurn(m) \/ FinishInterrupted(m)
    \/ WaitForSubagents(m) \/ NoSubagents(m) \/ Reserve(m) \/ PanicRelease(m)
    \/ StartSubagent(m) \/ ForceFailSubagents(m) \/ ForceFailLost(m) \/ Panic(m)

LEMMA QuietStays ==
    ASSUME Shapes, QueueWaits, used \in Counters, NEW m \in Inbound, Quiet(m) PROVE Stays
<1> USE DEF Stays, AboutToRun, NotYet
<1>0. pc \in [Inbound -> {"unsent", "spawned", "absent", "done"} \cup LoopPcs]
      /\ \A n \in Inbound : n \in Elems(queue) => pc[n] = "absent"
  BY DEF Shapes, QueueWaits
<1>00. \A n \in Inbound : n \in Elems(queue) \/ n \notin Elems(queue)
  OBVIOUS
<1>1. CASE Post(m)
  BY <1>0, <1>1 DEF Post, data, history
<1>2. CASE Decide(m)
  BY <1>0, <1>2 DEF Decide
<1>3. CASE FinishActiveTurn(m)
  BY <1>0, <1>3 DEF FinishActiveTurn, history
<1>4. CASE FinishInterrupted(m)
  <2>1. /\ UNCHANGED <<current, backlog, ran, ticket, used>> /\ queue' = <<>>
        /\ pc[m] = "interrupted"
        /\ pc' = [n \in Inbound |-> IF n = m THEN "done"
                                   ELSE IF n \in Elems(queue) THEN "spawned" ELSE pc[n]]
    BY <1>4 DEF FinishInterrupted
  <2>2. ASSUME NEW n \in Inbound
        PROVE  /\ pc'[n] \in AboutToRun <=> pc[n] \in AboutToRun
               /\ pc'[n] \in NotYet => pc[n] \in NotYet \/ n \in Elems(queue)
               /\ pc'[n] = "absent" => pc[n] = "absent"
    BY <1>0, <2>1
  <2> QED
    BY <2>1, <2>2, ElemsEmpty
<1>5. CASE WaitForSubagents(m)
  BY <1>0, <1>5 DEF WaitForSubagents, history
<1>6. CASE NoSubagents(m)
  BY <1>0, <1>6 DEF NoSubagents, data, history
<1>7. CASE Reserve(m)
  BY <1>0, <1>7, ElemsEmpty DEF Reserve
<1>8. CASE PanicRelease(m)
  BY <1>0, <1>8, ElemsEmpty DEF PanicRelease
<1>9. CASE StartSubagent(m)
  <2>1. used'.tickets = used.tickets
    BY <1>9 DEF StartSubagent, Counters
  <2> QED
    BY <1>9, <2>1 DEF StartSubagent, control
<1>10. CASE ForceFailSubagents(m)
  BY <1>0, <1>10 DEF ForceFailSubagents, history
<1>11. CASE ForceFailLost(m)
  BY <1>0, <1>11 DEF ForceFailLost, data, history
<1>12. CASE Panic(m)
  <2>1. used'.tickets = used.tickets
    BY <1>12 DEF Panic, Counters
  <2> QED
    BY <1>0, <1>12, <2>1 DEF Panic
<1> QED
  BY <1>1, <1>2, <1>3, <1>4, <1>5, <1>6, <1>7, <1>8, <1>9, <1>10, <1>11, <1>12 DEF Quiet

LEMMA IdleStays ==
    ASSUME used \in Counters, Interrupt \/ SubagentsReport \/ UNCHANGED vars PROVE Stays
<1>1. CASE Interrupt
  <2>1. used'.tickets = used.tickets
    BY <1>1 DEF Interrupt, Counters
  <2> QED
    BY <1>1, <2>1 DEF Interrupt, Stays, control
<1>2. CASE SubagentsReport
  BY <1>2 DEF SubagentsReport, Stays, control, history
<1>3. CASE UNCHANGED vars
  BY <1>3 DEF vars, Stays, control, data, history
<1> QED
  BY <1>1, <1>2, <1>3

\* The other steps: a message is taken, a turn starts, the queue is drained.
LEMMA Steps ==
    ASSUME [Next]_vars
    PROVE  \/ Interrupt \/ SubagentsReport \/ UNCHANGED vars
           \/ \E m \in Inbound : \/ Quiet(m) \/ Submit(m) \/ StartTurn(m)
                                \/ \E next : Takes(m, next)
<1>1. ASSUME NEW m \in Inbound, Poll(m) \/ PollAgain(m) \/ FinishTurn(m)
      PROVE  \E next : Takes(m, next)
  BY <1>1, AllTakes
<1> QED
  BY <1>1 DEF Next, LoopStep, Quiet

LEMMA AscendingSame ==
    ASSUME NEW s, NEW t, NEW u, Ascending(s, t), \A x \in Elems(s) : u[x] = t[x]
    PROVE  Ascending(s, u)
BY DEF Ascending, Elems

LEMMA Fresh ==
    ASSUME Rest, SInv, NEW m \in Inbound, pc[m] \in NotYet
    PROVE  /\ m \notin Elems(queue) /\ m \notin Ran /\ \A n \in Inbound : m \notin Kept(n)
           /\ \A i \in 1..Len(ran) : ran[i].loop # m /\ ran[i].msg # m
BY DEF SInv, Whereabouts, QueueWaits, KeptTaken, RanTaken, NotYet, Ran

\* A message takes the next number, the largest so far.
LEMMA NextNumber ==
    ASSUME Rest, SInv, NEW m \in Inbound, Submit(m)
    PROVE  /\ Numbering(ticket') /\ ticket'[m] = used.tickets + 1
           /\ used'.tickets = used.tickets + 1 /\ used.tickets \in Nat
           /\ \A n \in Inbound : n # m => ticket'[n] = ticket[n]
           /\ \A n \in Inbound : ticket[n] \in Nat /\ ticket[n] < ticket'[m]
           /\ TicketsGiven'
<1>1. /\ ticket' = [ticket EXCEPT ![m] = used.tickets + 1]
      /\ used' = [used EXCEPT !.tickets = @ + 1]
      /\ ticket \in [Inbound -> Nat] /\ used \in Counters
      /\ \A n \in Inbound : ticket[n] <= used.tickets
  BY DEF Submit, Rest, TicketsOK, SInv, Numbers, TicketsGiven
<1>2. used.tickets \in Nat /\ used'.tickets = used.tickets + 1
  BY <1>1 DEF Counters
<1>3. \A n \in Inbound : ticket'[n] <= used'.tickets
  BY <1>1, <1>2
<1> QED
  BY <1>1, <1>2, <1>3 DEF Numbering, TicketsGiven

\* What is kept for later, and what ran, keeps its number.
LEMMA SubmitPast ==
    ASSUME Rest, SInv, NEW m \in Inbound, Submit(m),
           \A n \in Inbound : n = m \/ Kept(n)' = Kept(n)
    PROVE  Past'
<1>1. ran' = ran /\ pc[m] \in NotYet
  BY DEF Submit, NotYet
<1>2. \A i \in 1..Len(ran) : ran[i].loop # m /\ ran[i].msg # m
                             /\ ran[i].loop \in Inbound /\ ran[i].msg \in Inbound
  BY <1>1, Fresh, PlacesTyped
<1>3. \A n, x \in Inbound : n # m /\ x \in Kept(n) => x # m
  BY <1>1, Fresh
<1>4. \A n \in Inbound : n # m => ticket'[n] = ticket[n]
  BY NextNumber
<1>5. RanBefore'
  <2> SUFFICES ASSUME NEW n \in Inbound, NEW i \in 1..Len(ran), ran[i].loop = n,
                      IsRegular(ran[i].msg), NEW x \in Kept(n)', IsRegular(x)
               PROVE  ticket'[ran[i].msg] < ticket'[x]
    BY <1>1 DEF RanBefore
  <2>1. x \in Kept(n)
    BY <1>2
  <2>2. x \in Inbound /\ x # m
    BY <1>2, <1>3, <2>1, PlacesTyped
  <2>3. ticket[ran[i].msg] < ticket[x]
    BY <2>1 DEF SInv, Past, RanBefore
  <2> QED
    BY <1>2, <1>4, <2>2, <2>3
<1>6. RunOnce' /\ InOrder'
  BY <1>1, <1>2, <1>4 DEF SInv, Past, RunOnce, InOrder
<1> QED
  BY <1>5, <1>6 DEF Past

LEMMA EnqueueSInv ==
    ASSUME Shapes, Rest, SInv, NEW m \in Inbound, Submit(m), reserved
    PROVE  SInv'
<1>1. /\ pc[m] = "spawned" /\ pc' = [pc EXCEPT ![m] = "absent"]
      /\ queue' = Append(queue, m) /\ reserved' = reserved
      /\ UNCHANGED <<current, backlog, ran>>
  BY DEF Submit, Enqueue
<1>2. /\ m \notin Elems(queue) /\ m \notin Ran /\ \A n \in Inbound : m \notin Kept(n)
      /\ \A i \in 1..Len(ran) : ran[i].loop # m /\ ran[i].msg # m
  BY <1>1, Fresh DEF NotYet
<1>3. /\ pc'[m] = "absent" /\ \A n \in Inbound : n # m => pc'[n] = pc[n]
  BY <1>1 DEF Shapes
<1>4. \A n \in Inbound : Batch(n)' = Batch(n) /\ Backlogged(n)' = Backlogged(n) /\ Kept(n)' = Kept(n)
  BY <1>1, <1>3 DEF Batch, Backlogged, Kept, AboutToRun, Elems
<1>5. Ran' = Ran /\ Elems(queue)' = Elems(queue') /\ Elems(queue') = Elems(queue) \cup {m}
      /\ queue \in Seq(Inbound)
  <2>1. queue \in Seq(Inbound)
    BY DEF Rest, DataOK
  <2> QED
    BY <1>1, <2>1, AppendFacts DEF Ran, Elems
<1>6. Whereabouts'
  <2>1. QueueWaits'
    BY <1>3, <1>5, PlacesTyped DEF QueueWaits, SInv, Whereabouts
  <2>2. KeptTaken'
    BY <1>2, <1>3, <1>4, PlacesTyped DEF KeptTaken, SInv, Whereabouts
  <2>3. RanTaken'
    BY <1>1, <1>2, <1>3, PlacesTyped DEF RanTaken, SInv, Whereabouts
  <2> QED
    BY <1>1, <2>1, <2>2, <2>3 DEF Whereabouts, NoQueueUnreserved
<1>7. Apart'
  BY <1>2, <1>4, <1>5 DEF SInv, Apart, QueueApart, RunApart, LoopsApart, BatchApart
<1>8. \A n \in Inbound : n # m => ticket'[n] = ticket[n]
  BY NextNumber
<1>9. Numbers'
  <2>1. Ascending(queue, ticket')
    BY <1>2, <1>8, AscendingSame, PlacesTyped DEF SInv, Numbers
  <2>2. \A x \in Elems(queue) : ticket'[x] < ticket'[m]
    BY <1>2, <1>8, NextNumber, PlacesTyped
  <2>3. Ascending(Append(queue, m), ticket')
    BY <1>5, <2>1, <2>2, NextNumber, AscendingAppend
  <2>4. ASSUME NEW x \in Elems(queue'), NEW k \in Inbound \ Elems(queue')
        PROVE  ticket'[k] < ticket'[x]
    <3>1. k # m /\ k \notin Elems(queue) /\ ticket'[k] = ticket[k]
      BY <1>5, <1>8, <2>4
    <3>2. CASE x = m
      BY <3>1, <3>2, NextNumber
    <3>3. CASE x \in Elems(queue)
      <4>1. ticket'[x] = ticket[x] /\ ticket[k] < ticket[x]
        BY <1>2, <1>8, <3>1, <3>3, PlacesTyped DEF SInv, Numbers, QueueLatest
      <4> QED
        BY <3>1, <4>1
    <3> QED
      BY <1>5, <2>4, <3>2, <3>3
  <2> QED
    BY <1>1, <1>5, <2>3, <2>4, NextNumber DEF Numbers, QueueLatest
<1>10. Lists'
  <2> SUFFICES ASSUME NEW n \in Inbound
               PROVE  /\ KeptInOrder(backlog[n], ticket)' /\ KindsApart(backlog[n])'
                      /\ BatchShape(n)'
    BY DEF Lists
  <2>1. /\ \A x \in Elems(backlog[n].regular) : ticket'[x] = ticket[x]
        /\ \A x \in Elems(backlog[n].scheduled) : ticket'[x] = ticket[x]
        /\ \A x \in Batch(n) : ticket'[x] = ticket[x]
    BY <1>2, <1>8, PlacesTyped DEF Kept, Backlogged
  <2>2. KeptInOrder(backlog[n], ticket) /\ KindsApart(backlog[n]) /\ BatchShape(n)
    BY DEF SInv, Lists
  <2>3. Ascending(backlog[n].regular, ticket') /\ Ascending(backlog[n].scheduled, ticket')
    BY <2>1, <2>2, AscendingSame DEF KeptInOrder
  <2>4. pc'[n] \in AboutToRun => pc[n] \in AboutToRun /\ Ascending(current[n], ticket')
    BY <1>3, <2>1, <2>2, AscendingSame DEF BatchShape, Batch, AboutToRun
  <2> QED
    BY <1>1, <2>2, <2>3, <2>4 DEF KeptInOrder, KindsApart, BatchShape, Elems
<1>11. Past'
  BY <1>4, SubmitPast
<1> QED
  BY <1>6, <1>7, <1>9, <1>10, <1>11 DEF SInv

LEMMA RunNowSInv ==
    ASSUME Shapes, Rest, SInv, NEW m \in Inbound, Submit(m), ~reserved
    PROVE  SInv'
<1>1. /\ pc[m] = "spawned" /\ pc' = [pc EXCEPT ![m] = "start"]
      /\ queue' = <<>> /\ queue = <<>> /\ reserved'
      /\ current' = [current EXCEPT ![m] = <<m>>]
      /\ backlog' = [backlog EXCEPT ![m] = EmptyBacklog] /\ ran' = ran
  BY DEF Submit, RunNow, SInv, Whereabouts, NoQueueUnreserved
<1>2. /\ m \notin Ran /\ \A n \in Inbound : m \notin Kept(n)
      /\ \A i \in 1..Len(ran) : ran[i].loop # m /\ ran[i].msg # m
  BY <1>1, Fresh DEF NotYet
<1>3. /\ pc'[m] = "start" /\ current'[m] = <<m>> /\ backlog'[m] = EmptyBacklog
      /\ \A n \in Inbound : n # m => pc'[n] = pc[n] /\ current'[n] = current[n]
                                     /\ backlog'[n] = backlog[n]
  BY <1>1 DEF Shapes, Rest, DataOK
<1>4. \A n \in Inbound : n # m =>
         Batch(n)' = Batch(n) /\ Backlogged(n)' = Backlogged(n) /\ Kept(n)' = Kept(n)
  <2> SUFFICES ASSUME NEW n \in Inbound, n # m
               PROVE  Batch(n)' = Batch(n) /\ Backlogged(n)' = Backlogged(n)
    BY DEF Kept
  <2>1. pc'[n] = pc[n] /\ current'[n] = current[n] /\ backlog'[n] = backlog[n]
    BY <1>3
  <2> QED
    BY <2>1 DEF Batch, Backlogged, Elems
<1>5. Batch(m)' = {m} /\ Backlogged(m)' = {} /\ Kept(m)' = {m}
  <2>1. Batch(m)' = Elems(<<m>>)
    BY <1>3 DEF Batch, AboutToRun, Elems
  <2>2. Backlogged(m)' = Elems(<<>>) \cup Elems(<<>>)
    BY <1>3 DEF Backlogged, EmptyBacklog, Elems
  <2> QED
    BY <2>1, <2>2, ElemsEmpty, ElemsOne DEF Kept
<1>6. Ran' = Ran /\ Elems(queue)' = {} /\ Elems(queue) = {}
  BY <1>1, ElemsEmpty DEF Ran, Elems
<1>7. Whereabouts'
  <2>1. KeptTaken'
    <3> SUFFICES ASSUME NEW n \in Inbound, NEW x \in Kept(n)' PROVE pc'[x] \notin NotYet
      BY DEF KeptTaken
    <3>1. CASE n = m
      BY <1>3, <1>5, <3>1 DEF NotYet
    <3>2. CASE n # m
      <4>1. x \in Kept(n) /\ x # m /\ x \in Inbound
        BY <1>2, <1>4, <3>2, PlacesTyped
      <4> QED
        BY <1>3, <4>1 DEF SInv, Whereabouts, KeptTaken
    <3> QED
      BY <3>1, <3>2
  <2>2. RanTaken'
    BY <1>1, <1>2, <1>3, PlacesTyped DEF RanTaken, SInv, Whereabouts
  <2> QED
    BY <1>1, <1>6, <2>1, <2>2 DEF Whereabouts, NoQueueUnreserved, QueueWaits
<1>8. Apart'
  <2>1. QueueApart' /\ BatchApart'
    BY <1>4, <1>5, <1>6 DEF SInv, Apart, QueueApart, BatchApart
  <2>2. RunApart'
    BY <1>2, <1>4, <1>5, <1>6 DEF SInv, Apart, RunApart
  <2>3. LoopsApart'
    BY <1>2, <1>4, <1>5 DEF SInv, Apart, LoopsApart
  <2> QED
    BY <2>1, <2>2, <2>3 DEF Apart
<1>9. Numbers'
  BY <1>1, <1>6, NextNumber, AscendingShort DEF Numbers, QueueLatest
<1>10. Lists'
  <2> SUFFICES ASSUME NEW n \in Inbound
               PROVE  /\ KeptInOrder(backlog'[n], ticket') /\ KindsApart(backlog'[n])
                      /\ BatchShape(n)'
    BY DEF Lists, KeptInOrder, KindsApart, Ascending, Elems
  <2>1. CASE n = m
    <3>1. backlog'[n].regular = <<>> /\ backlog'[n].scheduled = <<>>
      BY <1>3, <2>1 DEF EmptyBacklog
    <3>0. current'[n] = <<m>> /\ <<m>> # <<>> /\ Len(<<m>>) = 1 /\ Ascending(<<m>>, ticket')
      BY <1>3, <2>1, AscendingShort, ElemsOne
    <3>2. /\ current'[n] # <<>> /\ Ascending(current'[n], ticket') /\ Len(current'[n]) = 1
      BY <3>0
    <3>3. BatchShape(n)'
      BY <3>1, <3>2 DEF BatchShape, Ascending
    <3> QED
      BY <3>1, <3>3, AscendingShort, ElemsEmpty DEF KeptInOrder, KindsApart
  <2>2. CASE n # m
    <3>0. \A x \in Inbound : x # m => ticket'[x] = ticket[x]
      BY NextNumber
    <3>1. /\ \A x \in Elems(backlog[n].regular) : ticket'[x] = ticket[x]
          /\ \A x \in Elems(backlog[n].scheduled) : ticket'[x] = ticket[x]
          /\ \A x \in Batch(n) : ticket'[x] = ticket[x]
      BY <1>2, <3>0, PlacesTyped DEF Kept, Backlogged
    <3>2. KeptInOrder(backlog[n], ticket) /\ KindsApart(backlog[n]) /\ BatchShape(n)
      BY DEF SInv, Lists
    <3>3. Ascending(backlog[n].regular, ticket') /\ Ascending(backlog[n].scheduled, ticket')
      BY <3>1, <3>2, AscendingSame DEF KeptInOrder
    <3>4. pc[n] \in AboutToRun => Ascending(current[n], ticket')
      BY <3>1, <3>2, AscendingSame DEF BatchShape, Batch
    <3>5. pc'[n] = pc[n] /\ current'[n] = current[n] /\ backlog'[n] = backlog[n]
      BY <1>3, <2>2
    <3> QED
      BY <3>2, <3>3, <3>4, <3>5 DEF KeptInOrder, KindsApart, BatchShape, Elems, Ascending
  <2> QED
    BY <2>1, <2>2
<1>11. Past'
  BY <1>4, SubmitPast
<1> QED
  BY <1>7, <1>8, <1>9, <1>10, <1>11 DEF SInv

\* The messages that ran, after a turn of m has started.
LEMMA StartCases ==
    ASSUME Rest, NEW m \in Inbound, StartTurn(m), NEW i \in 1..Len(ran')
    PROVE  \/ i \in 1..Len(ran) /\ ran'[i] = ran[i]
           \/ /\ i > Len(ran) /\ i - Len(ran) \in 1..Len(current[m])
              /\ ran'[i].loop = m /\ ran'[i].batch = Len(ran)
              /\ ran'[i].msg = current[m][i - Len(ran)]
              /\ ran'[i].msg \in Elems(current[m])
<1>1. /\ Len(ran) \in Nat /\ Len(current[m]) \in Nat
      /\ Len(ran') = Len(ran) + Len(current[m])
      /\ \A k \in 1..Len(ran) : ran'[k] = ran[k]
      /\ \A k \in 1..Len(current[m]) :
            /\ ran'[Len(ran) + k].loop = m
            /\ ran'[Len(ran) + k].batch = Len(ran)
            /\ ran'[Len(ran) + k].msg = current[m][k]
  BY Starts DEF Rest
<1>2. i \in Int /\ 1 <= i /\ i <= Len(ran) + Len(current[m])
  BY <1>1
<1>3. CASE i <= Len(ran)
  BY <1>1, <1>2, <1>3
<1>4. CASE i > Len(ran)
  <2>1. i - Len(ran) \in 1..Len(current[m]) /\ Len(ran) + (i - Len(ran)) = i
    BY <1>1, <1>2, <1>4
  <2>2. /\ ran'[i].loop = m /\ ran'[i].batch = Len(ran)
        /\ ran'[i].msg = current[m][i - Len(ran)]
    BY <1>1, <2>1
  <2> QED
    BY <1>4, <2>1, <2>2 DEF Elems
<1> QED
  BY <1>1, <1>2, <1>3, <1>4

LEMMA StartSInv ==
    ASSUME Shapes, Rest, SInv, NEW m \in Inbound, StartTurn(m)
    PROVE  SInv'
<1>1. /\ pc[m] = "start" /\ pc' = [pc EXCEPT ![m] = "turn"]
      /\ UNCHANGED <<reserved, queue, current, backlog, ticket, used>>
  BY DEF StartTurn
<1>2. pc'[m] = "turn" /\ \A n \in Inbound : n # m => pc'[n] = pc[n]
  BY <1>1 DEF Shapes
<1>3. Elems(queue)' = Elems(queue) /\ \A n \in Inbound : Backlogged(n)' = Backlogged(n)
  BY <1>1 DEF Backlogged, Elems
<1>4. /\ Batch(m) = Elems(current[m]) /\ Batch(m)' = {} /\ Kept(m)' = Backlogged(m)
      /\ \A n \in Inbound : n # m => Batch(n)' = Batch(n) /\ Kept(n)' = Kept(n)
  BY <1>1, <1>2, <1>3 DEF Batch, Kept, AboutToRun, Elems
<1>5. \A n \in Inbound : Kept(n)' \subseteq Kept(n) /\ Batch(n)' \subseteq Batch(n)
  BY <1>4 DEF Kept
<1>6. Elems(current[m]) \subseteq Kept(m)
  BY <1>4 DEF Kept
<1>7. \A i \in 1..Len(ran') :
         \/ i \in 1..Len(ran) /\ ran'[i] = ran[i]
         \/ /\ i > Len(ran) /\ i - Len(ran) \in 1..Len(current[m])
            /\ ran'[i].loop = m /\ ran'[i].msg = current[m][i - Len(ran)]
            /\ ran'[i].msg \in Elems(current[m])
  BY StartCases
<1>8. Ran' \subseteq Ran \cup Elems(current[m])
  BY <1>7 DEF Ran
<1>9. Whereabouts'
  <2>1. QueueWaits'
    BY <1>1, <1>2, <1>3, PlacesTyped DEF QueueWaits, SInv, Whereabouts
  <2>2. KeptTaken'
    <3> SUFFICES ASSUME NEW n \in Inbound, NEW x \in Kept(n)' PROVE pc'[x] \notin NotYet
      BY DEF KeptTaken
    <3>1. x \in Kept(n) /\ x \in Inbound /\ pc[x] \notin NotYet
      BY <1>5, PlacesTyped DEF SInv, Whereabouts, KeptTaken
    <3> QED
      BY <1>2, <3>1 DEF NotYet
  <2>3. RanTaken'
    <3> SUFFICES ASSUME NEW i \in 1..Len(ran')
                 PROVE  pc'[ran'[i].msg] \notin NotYet /\ pc'[ran'[i].loop] \notin NotYet \cup {"absent"}
      BY DEF RanTaken
    <3>1. CASE i \in 1..Len(ran) /\ ran'[i] = ran[i]
      <4>1. /\ ran[i].msg \in Inbound /\ ran[i].loop \in Inbound
            /\ pc[ran[i].msg] \notin NotYet /\ pc[ran[i].loop] \notin NotYet \cup {"absent"}
        BY <3>1, PlacesTyped DEF SInv, Whereabouts, RanTaken
      <4> QED
        BY <1>2, <3>1, <4>1 DEF NotYet
    <3>2. CASE ran'[i].loop = m /\ ran'[i].msg \in Elems(current[m])
      <4>1. ran'[i].msg \in Inbound /\ pc[ran'[i].msg] \notin NotYet
        BY <1>6, <3>2, PlacesTyped DEF SInv, Whereabouts, KeptTaken
      <4> QED
        BY <1>2, <3>2, <4>1 DEF NotYet
    <3> QED
      BY <1>7, <3>1, <3>2
  <2> QED
    BY <1>1, <2>1, <2>2, <2>3 DEF Whereabouts, NoQueueUnreserved, SInv
<1>10. Apart'
  <2>1. QueueApart'
    BY <1>3, <1>5, <1>6, <1>8 DEF SInv, Apart, QueueApart
  <2>2. RunApart'
    <3> SUFFICES ASSUME NEW n \in Inbound, NEW x \in Kept(n)' PROVE x \notin Ran \cup Elems(current[m])
      BY <1>8 DEF RunApart
    <3>1. x \in Kept(n) /\ x \notin Ran
      BY <1>5 DEF SInv, Apart, RunApart
    <3>2. n # m => x \notin Elems(current[m])
      BY <1>6, <3>1 DEF SInv, Apart, LoopsApart
    <3>3. n = m => x \notin Elems(current[m])
      BY <1>4 DEF SInv, Apart, BatchApart
    <3> QED
      BY <3>1, <3>2, <3>3
  <2>3. LoopsApart'
    BY <1>5 DEF SInv, Apart, LoopsApart
  <2>4. BatchApart'
    BY <1>3, <1>5 DEF SInv, Apart, BatchApart
  <2> QED
    BY <2>1, <2>2, <2>3, <2>4 DEF Apart
<1>11. Numbers'
  BY <1>1, <1>3 DEF SInv, Numbers, QueueLatest, TicketsGiven, Ascending
<1>12. Lists'
  <2> SUFFICES ASSUME NEW n \in Inbound
               PROVE  /\ KeptInOrder(backlog[n], ticket)' /\ KindsApart(backlog[n])'
                      /\ BatchShape(n)'
    BY DEF Lists
  <2>1. KeptInOrder(backlog[n], ticket) /\ KindsApart(backlog[n]) /\ BatchShape(n)
    BY DEF SInv, Lists
  <2>2. pc'[n] \in AboutToRun => pc[n] \in AboutToRun
    BY <1>2 DEF AboutToRun
  <2> QED
    BY <1>1, <2>1, <2>2 DEF KeptInOrder, KindsApart, BatchShape, Ascending, Elems
<1>13. BatchShape(m) /\ pc[m] \in AboutToRun /\ KindsApart(backlog[m])
  BY <1>1 DEF SInv, Lists, AboutToRun
<1>14. current[m] \in Seq(Inbound) /\ Numbering(ticket) /\ Ascending(current[m], ticket)
  BY <1>13 DEF BatchShape, Rest, DataOK, TicketsOK, Numbering
<1>15. \A i \in 1..Len(ran) : ran[i].msg \notin Elems(current[m])
  BY <1>6 DEF SInv, Apart, RunApart, Ran
<1>0. Len(ran) \in Nat
  BY DEF Rest, RunOK
<1>16. RunOnce'
  <2> SUFFICES ASSUME NEW i \in 1..Len(ran'), NEW j \in 1..Len(ran'), ran'[i].msg = ran'[j].msg
               PROVE  i = j
    BY DEF RunOnce
  <2>1. CASE i \in 1..Len(ran) /\ ran'[i] = ran[i]
    <3>1. j \in 1..Len(ran) /\ ran'[j] = ran[j]
      BY <1>7, <1>15, <2>1
    <3> QED
      BY <2>1, <3>1 DEF SInv, Past, RunOnce
  <2>2. CASE ~ (i \in 1..Len(ran) /\ ran'[i] = ran[i])
    <3>1. /\ i - Len(ran) \in 1..Len(current[m]) /\ ran'[i].msg = current[m][i - Len(ran)]
          /\ ran'[i].msg \in Elems(current[m])
      BY <1>7, <2>2
    <3>2. j - Len(ran) \in 1..Len(current[m]) /\ ran'[j].msg = current[m][j - Len(ran)]
      BY <1>7, <1>15, <3>1
    <3>3. i - Len(ran) = j - Len(ran)
      BY <1>14, <3>1, <3>2, AscendingDistinct
    <3> QED
      BY <1>0, <3>3
  <2> QED
    BY <2>1, <2>2
<1>17. InOrder'
  <2> SUFFICES ASSUME NEW i \in 1..Len(ran'), NEW j \in 1..Len(ran'), i < j,
                      ran'[i].loop = ran'[j].loop,
                      IsRegular(ran'[i].msg), IsRegular(ran'[j].msg)
               PROVE  ticket[ran'[i].msg] < ticket[ran'[j].msg]
    BY <1>1 DEF InOrder
  <2>1. CASE j \in 1..Len(ran) /\ ran'[j] = ran[j]
    <3>1. i \in 1..Len(ran) /\ ran'[i] = ran[i]
      BY <1>0, <1>7, <2>1
    <3> QED
      BY <2>1, <3>1 DEF SInv, Past, InOrder
  <2>2. CASE ~ (j \in 1..Len(ran) /\ ran'[j] = ran[j])
    <3>1. /\ j - Len(ran) \in 1..Len(current[m]) /\ ran'[j].msg = current[m][j - Len(ran)]
          /\ ran'[j].loop = m /\ ran'[j].msg \in Kept(m)
      BY <1>6, <1>7, <2>2
    <3>2. CASE i \in 1..Len(ran) /\ ran'[i] = ran[i]
      BY <3>1, <3>2 DEF SInv, Past, RanBefore
    <3>3. CASE i - Len(ran) \in 1..Len(current[m]) /\ ran'[i].msg = current[m][i - Len(ran)]
      <4>1. i - Len(ran) < j - Len(ran)
        BY <1>0
      <4> QED
        BY <1>14, <3>1, <3>3, <4>1 DEF Ascending
    <3> QED
      BY <1>7, <3>2, <3>3
  <2> QED
    BY <2>1, <2>2
<1>18. RanBefore'
  <2> SUFFICES ASSUME NEW n \in Inbound, NEW i \in 1..Len(ran'), ran'[i].loop = n,
                      IsRegular(ran'[i].msg), NEW x \in Kept(n)', IsRegular(x)
               PROVE  ticket[ran'[i].msg] < ticket[x]
    BY <1>1 DEF RanBefore
  <2>1. CASE i \in 1..Len(ran) /\ ran'[i] = ran[i]
    BY <1>5, <2>1 DEF SInv, Past, RanBefore
  <2>2. CASE ran'[i].loop = m /\ ran'[i].msg \in Elems(current[m])
    <3>1. backlog[m].regular = <<>>
      BY <1>13, <2>2 DEF BatchShape, IsRegular
    <3>2. x \in Elems(backlog[m].scheduled)
      BY <1>4, <2>2, <3>1, ElemsEmpty DEF Backlogged
    <3> QED
      BY <1>13, <3>2 DEF KindsApart, IsRegular
  <2> QED
    BY <1>7, <2>1, <2>2
<1> QED
  BY <1>9, <1>10, <1>11, <1>12, <1>16, <1>17, <1>18 DEF SInv, Past

\* What a loop keeps and what it drains make up its next batch and what it keeps
\* from then on.
Deals(b, q, batch, rest) ==
    /\ Elems(batch) \cup Elems(rest.regular) \cup Elems(rest.scheduled)
          = Elems(b.regular) \cup Elems(b.scheduled) \cup Elems(q)
    /\ Elems(batch) \cap (Elems(rest.regular) \cup Elems(rest.scheduled)) = {}
    /\ KindsApart(rest)
    /\ Len(batch) = 1 \/ Elems(batch) \cap Scheduled = {}
    /\ ~ (Elems(batch) \subseteq Scheduled) => rest.regular = <<>>
    /\ batch = <<>> => rest.regular = <<>> /\ rest.scheduled = <<>>

LEMMA ElemsAll == ASSUME NEW S, NEW q \in Seq(S) PROVE {q[j] : j \in 1..Len(q)} = Elems(q)
BY DEF Elems

LEMMA PickDeals ==
    ASSUME NEW b \in Backlog, NEW q \in Seq(Inbound), KindsApart(b), NEW k \in Backlog,
           KeptSoFar(b, q, Len(q), k), NEW t, Numbering(t), KeptInOrder(k, t)
    PROVE  /\ Deals(b, q, Pick(k).batch, Pick(k).rest)
           /\ KeptInOrder(Pick(k).rest, t) /\ Ascending(Pick(k).batch, t)
<1> DEFINE batch == Pick(k).batch
           rest == Pick(k).rest
<1>1. /\ k.regular \in Seq(Inbound) /\ k.scheduled \in Seq(Inbound)
      /\ Elems(k.regular) = Elems(b.regular) \cup (Elems(q) \ Scheduled)
      /\ Elems(k.scheduled) = Elems(b.scheduled) \cup (Elems(q) \cap Scheduled)
      /\ Ascending(k.regular, t) /\ Ascending(k.scheduled, t)
  BY ElemsAll DEF KeptSoFar, KeptInOrder, Backlog
<1>2. KindsApart(k)
  BY <1>1 DEF KindsApart
<1>3. /\ batch = <<>> => k.regular = <<>> /\ k.scheduled = <<>> /\ rest = k
      /\ batch # <<>> =>
           \/ batch = k.regular /\ rest.regular = <<>> /\ rest.scheduled = k.scheduled
           \/ /\ k.scheduled # <<>> /\ batch = <<Head(k.scheduled)>>
              /\ rest.scheduled = Tail(k.scheduled) /\ rest.regular = k.regular
  BY PickFacts
<1> HIDE DEF batch, rest
<1>4. CASE batch = <<>>
  BY <1>1, <1>2, <1>3, <1>4, ElemsEmpty, AscendingShort DEF Deals, KeptInOrder, batch, rest
<1>5. CASE batch = k.regular /\ rest.regular = <<>> /\ rest.scheduled = k.scheduled
  <2>1. Elems(rest.regular) = {} /\ Elems(rest.scheduled) = Elems(k.scheduled)
        /\ Elems(batch) = Elems(k.regular)
    BY <1>5, ElemsEmpty
  <2>2. Deals(b, q, batch, rest)
    <3>1. batch = <<>> => rest.scheduled = <<>>
      BY <1>3, <1>5
    <3> QED
      BY <1>1, <1>2, <1>5, <2>1, <3>1 DEF Deals, KindsApart
  <2> QED
    BY <1>1, <1>5, <2>2, AscendingShort DEF KeptInOrder, batch, rest
<1>6. CASE /\ k.scheduled # <<>> /\ batch = <<Head(k.scheduled)>>
           /\ rest.scheduled = Tail(k.scheduled) /\ rest.regular = k.regular
  <2> DEFINE h == Head(k.scheduled)
  <2>1. /\ Elems(batch) = {h} /\ Len(batch) = 1
        /\ Elems(k.scheduled) = {h} \cup Elems(Tail(k.scheduled)) /\ h \in Inbound
    BY <1>1, <1>6, HeadFacts, ElemsOne
  <2>2. Ascending(Tail(k.scheduled), t) /\ \A x \in Elems(Tail(k.scheduled)) : t[h] < t[x]
    BY <1>1, <1>6, AscendingTail
  <2>3. h \notin Elems(Tail(k.scheduled))
    <3>1. t[h] \in Nat
      BY <2>1 DEF Numbering
    <3> QED
      BY <2>2, <3>1
  <2>4. h \in Scheduled /\ h \notin Elems(k.regular)
    BY <1>2, <2>1 DEF KindsApart
  <2> HIDE DEF h
  <2>5. Deals(b, q, batch, rest)
    <3>1. batch # <<>>
      BY <1>6
    <3> QED
      BY <1>1, <1>2, <1>6, <2>1, <2>3, <2>4, <3>1 DEF Deals, KindsApart
  <2>6. Ascending(batch, t)
    BY <1>6, AscendingShort
  <2> QED
    BY <1>1, <1>6, <2>2, <2>5, <2>6 DEF KeptInOrder, batch, rest
<1> QED
  BY <1>3, <1>4, <1>5, <1>6

LEMMA TakesDeals ==
    ASSUME Rest, SInv, NEW m \in Inbound, NEW next, Takes(m, next)
    PROVE  /\ Deals(backlog[m], queue, next.batch, next.rest)
           /\ KeptInOrder(next.rest, ticket) /\ Ascending(next.batch, ticket)
<1>1. backlog[m] \in Backlog /\ queue \in Seq(Inbound) /\ Numbering(ticket)
  BY DEF Rest, DataOK, TicketsOK, Numbering
<1>2. KindsApart(backlog[m]) /\ KeptInOrder(backlog[m], ticket)
  BY DEF SInv, Lists
<1>3. Follows(backlog[m], queue, ticket)
  <2>1. Ascending(queue, ticket)
    BY DEF SInv, Numbers
  <2>2. \A x \in Backlogged(m) : x \in Inbound \ Elems(queue)
    BY PlacesTyped DEF SInv, Apart, QueueApart, Kept
  <2> QED
    BY <2>1, <2>2 DEF Follows, SInv, Numbers, QueueLatest, Backlogged
<1>4. PICK k \in Backlog :
         /\ next = Pick(k) /\ KeptSoFar(backlog[m], queue, Len(queue), k)
         /\ KeptInOrder(k, ticket)
  BY <1>1, <1>2, <1>3, TakesFacts DEF Rest
<1> QED
  BY <1>1, <1>2, <1>4, PickDeals

LEMMA TakesSInv ==
    ASSUME Shapes, Rest, SInv, NEW m \in Inbound, NEW next, Takes(m, next)
    PROVE  SInv'
<1>1. /\ queue' = <<>> /\ UNCHANGED <<ran, ticket, used>>
      /\ pc[m] \in {"poll", "again", "finish"}
      /\ pc'[m] \in {"start", "gap", "check", "finish", "done"}
      /\ backlog'[m] = next.rest
      /\ pc'[m] \in AboutToRun <=> next.batch # <<>>
      /\ pc'[m] \in AboutToRun => current'[m] = next.batch
      /\ \A n \in Inbound : n # m => pc'[n] = pc[n] /\ current'[n] = current[n]
                                     /\ backlog'[n] = backlog[n]
  <2>1. CASE next.batch # <<>>
    BY <2>1 DEF Takes, Shapes, Rest, DataOK, history, AboutToRun
  <2>2. CASE next.batch = <<>>
    BY <2>2 DEF Takes, Shapes, Rest, DataOK, history, AboutToRun
  <2> QED
    BY <2>1, <2>2
<1>2. /\ Deals(backlog[m], queue, next.batch, next.rest)
      /\ KeptInOrder(next.rest, ticket) /\ Ascending(next.batch, ticket)
  BY TakesDeals
<1>3. \A n \in Inbound : n # m =>
         Batch(n)' = Batch(n) /\ Backlogged(n)' = Backlogged(n) /\ Kept(n)' = Kept(n)
  <2> SUFFICES ASSUME NEW n \in Inbound, n # m
               PROVE  Batch(n)' = Batch(n) /\ Backlogged(n)' = Backlogged(n)
    BY DEF Kept
  <2>1. pc'[n] = pc[n] /\ current'[n] = current[n] /\ backlog'[n] = backlog[n]
    BY <1>1
  <2> QED
    BY <2>1 DEF Batch, Backlogged, Elems
<1>4. Batch(m)' = Elems(next.batch)
  <2>1. CASE next.batch = <<>>
    BY <1>1, <2>1, ElemsEmpty DEF Batch
  <2>2. CASE next.batch # <<>>
    BY <1>1, <2>2 DEF Batch, Elems
  <2> QED
    BY <2>1, <2>2
<1>5. Backlogged(m)' = Elems(next.rest.regular) \cup Elems(next.rest.scheduled)
  BY <1>1 DEF Backlogged, Elems
<1>6. Batch(m) = {} /\ Kept(m) = Backlogged(m)
  BY <1>1 DEF Batch, Kept, AboutToRun
<1>7. Kept(m)' = Kept(m) \cup Elems(queue) /\ \A x \in Batch(m)' : x \notin Backlogged(m)'
  BY <1>2, <1>4, <1>5, <1>6 DEF Kept, Backlogged, Deals
<1>8. Elems(queue)' = {} /\ Ran' = Ran
  BY <1>1, ElemsEmpty DEF Elems, Ran
<1>9. \A x \in Elems(queue) : x \in Inbound /\ pc[x] = "absent" /\ x # m
  BY <1>1, PlacesTyped DEF SInv, Whereabouts, QueueWaits
<1>10. Whereabouts'
  <2>1. KeptTaken'
    <3> SUFFICES ASSUME NEW n \in Inbound, NEW x \in Kept(n)' PROVE pc'[x] \notin NotYet
      BY DEF KeptTaken
    <3>1. x \in Kept(n) \cup Elems(queue)
      BY <1>3, <1>7
    <3>2. x \in Inbound /\ pc[x] \notin NotYet
      BY <1>9, <3>1, PlacesTyped DEF SInv, Whereabouts, KeptTaken, NotYet
    <3> QED
      BY <1>1, <3>2 DEF NotYet
  <2>2. RanTaken'
    <3> SUFFICES ASSUME NEW i \in 1..Len(ran)
                 PROVE  pc'[ran[i].msg] \notin NotYet /\ pc'[ran[i].loop] \notin NotYet \cup {"absent"}
      BY <1>1 DEF RanTaken
    <3>1. /\ ran[i].msg \in Inbound /\ ran[i].loop \in Inbound
          /\ pc[ran[i].msg] \notin NotYet /\ pc[ran[i].loop] \notin NotYet \cup {"absent"}
      BY PlacesTyped DEF SInv, Whereabouts, RanTaken
    <3> QED
      BY <1>1, <3>1 DEF NotYet
  <2> QED
    BY <1>1, <1>8, <2>1, <2>2 DEF Whereabouts, NoQueueUnreserved, QueueWaits
<1>11. Apart'
  <2>1. QueueApart'
    BY <1>8 DEF QueueApart
  <2>2. RunApart'
    BY <1>3, <1>7, <1>8 DEF SInv, Apart, RunApart, QueueApart
  <2>3. LoopsApart'
    BY <1>3, <1>7 DEF SInv, Apart, LoopsApart, QueueApart
  <2>4. BatchApart'
    BY <1>3, <1>7 DEF SInv, Apart, BatchApart
  <2> QED
    BY <2>1, <2>2, <2>3, <2>4 DEF Apart
<1>12. Numbers'
  BY <1>1, <1>8, AscendingShort DEF SInv, Numbers, QueueLatest, TicketsGiven
<1>13. Lists'
  <2> SUFFICES ASSUME NEW n \in Inbound
               PROVE  /\ KeptInOrder(backlog'[n], ticket) /\ KindsApart(backlog'[n])
                      /\ BatchShape(n)'
    BY <1>1 DEF Lists, KeptInOrder, KindsApart, Ascending, Elems
  <2>1. CASE n = m
    <3>1. BatchShape(m)'
      BY <1>1, <1>2 DEF BatchShape, Deals, Elems, Ascending
    <3> QED
      BY <1>1, <1>2, <2>1, <3>1 DEF Deals
  <2>2. CASE n # m
    <3>1. KeptInOrder(backlog[n], ticket) /\ KindsApart(backlog[n]) /\ BatchShape(n)
      BY DEF SInv, Lists
    <3>2. pc'[n] = pc[n] /\ current'[n] = current[n] /\ backlog'[n] = backlog[n]
      BY <1>1, <2>2
    <3> QED
      BY <1>1, <3>1, <3>2 DEF BatchShape, Elems, Ascending
  <2> QED
    BY <2>1, <2>2
<1>14. Past'
  <2>1. RanBefore'
    <3> SUFFICES ASSUME NEW n \in Inbound, NEW i \in 1..Len(ran), ran[i].loop = n,
                        IsRegular(ran[i].msg), NEW x \in Kept(n)', IsRegular(x)
                 PROVE  ticket[ran[i].msg] < ticket[x]
      BY <1>1 DEF RanBefore
    <3>1. CASE x \in Kept(n)
      BY <3>1 DEF SInv, Past, RanBefore
    <3>2. CASE x \in Elems(queue)
      <4>1. ran[i].msg \in Inbound \ Elems(queue)
        BY PlacesTyped DEF SInv, Apart, QueueApart, Ran
      <4> QED
        BY <3>2, <4>1 DEF SInv, Numbers, QueueLatest
    <3> QED
      BY <1>3, <1>7, <3>1, <3>2
  <2> QED
    BY <1>1, <2>1 DEF SInv, Past, RunOnce, InOrder
<1> QED
  BY <1>10, <1>11, <1>12, <1>13, <1>14 DEF SInv

LEMMA NextSInv == IInv /\ Rest /\ SInv /\ [Next]_vars => SInv'
<1> SUFFICES ASSUME Shapes, Rest, SInv, [Next]_vars PROVE SInv'
  BY DEF IInv
<1>1. QueueWaits /\ used \in Counters
  BY DEF SInv, Whereabouts, Rest, TicketsOK
<1>2. ASSUME NEW m \in Inbound, Quiet(m) PROVE SInv'
  BY <1>1, <1>2, QuietStays, StaysSInv
<1>6. CASE Interrupt \/ SubagentsReport \/ UNCHANGED vars
  BY <1>1, <1>6, IdleStays, StaysSInv
<1>3. ASSUME NEW m \in Inbound, Submit(m) PROVE SInv'
  BY <1>3, EnqueueSInv, RunNowSInv
<1>4. ASSUME NEW m \in Inbound, StartTurn(m) PROVE SInv'
  BY <1>4, StartSInv
<1>5. ASSUME NEW m \in Inbound, NEW next, Takes(m, next) PROVE SInv'
  BY <1>5, TakesSInv
<1> QED
  BY <1>2, <1>3, <1>4, <1>5, <1>6, Steps

LEMMA Placed == Spec => [](IInv /\ Rest /\ SInv)
<1>1. IInv /\ Rest /\ SInv /\ [Next]_vars => (IInv /\ Rest /\ SInv)'
  BY NextShapes, NextExact, NextRest, NextSInv DEF IInv
<1> QED
  BY InitIInv, InitRest, InitSInv, <1>1, PTL DEF Spec

\* No message starts two turns, although messages move between the channel, the
\* coordinator's queue, a loop's backlog and, when an interrupted loop sends the
\* queued ones back, the channel again (session_coordinator.rs:50-90,
\* handler.rs:540-561).
THEOREM RunOnceTheorem == Spec => []RunOnce
<1>1. SInv => RunOnce
  BY DEF SInv, Past
<1> QED
  BY Placed, <1>1, PTL

\* One loop runs the regular messages it takes in the order submit_or_queue took
\* them: each drain takes the whole queue, so what is left in it is newer than
\* anything kept, and next_queued_inbound runs all the regular messages kept
\* (handler/queue.rs:20-67).
THEOREM InOrderTheorem == Spec => []InOrder
<1>1. SInv => InOrder
  BY DEF SInv, Past
<1> QED
  BY Placed, <1>1, PTL

-----------------------------------------------------------------------------
(* Nobody loses a message.  A loop past its turn has settled its batch, so    *)
(* what it still owes is in its backlog.                                      *)

AfterTurn == {"report", "interrupted", "poll", "check", "again", "finish", "unwound"}

SettledBatch ==
    \A n \in Inbound :
        /\ pc[n] \in AfterTurn => \A x \in Elems(current[n]) : fate[x] # "open"
        /\ pc[n] = "unwound" => \A x \in Backlogged(n) : fate[x] # "open"

AInv == SettledBatch /\ Accounted

LEMMA InitAInv == Init => AInv
BY DEF Init, AInv, SettledBatch, Accounted, AfterTurn

\* A step that leaves every batch and backlog alone, and settles the messages of
\* the loops that end, of the turns that end and of the queue if it drops it.
Settles ==
    /\ UNCHANGED <<current, backlog>>
    /\ \A x \in Inbound : /\ pc'[x] = "absent" => pc[x] = "absent"
                          /\ fate[x] # "open" => fate'[x] # "open"
    /\ \A x \in Elems(queue) : x \in Elems(queue') \/ fate'[x] # "open" \/ pc'[x] # "absent"
    /\ \A n \in Inbound :
          /\ pc[n] \in LoopPcs /\ pc'[n] \notin LoopPcs =>
                \A x \in Elems(current[n]) \cup Backlogged(n) : fate'[x] # "open"
          /\ pc'[n] \in AfterTurn =>
                pc[n] \in AfterTurn \/ \A x \in Elems(current[n]) : fate'[x] # "open"
          /\ pc'[n] = "unwound" =>
                pc[n] = "unwound" \/ \A x \in Backlogged(n) : fate'[x] # "open"

LEMMA SettlesAInv == ASSUME Rest, AInv, Settles PROVE AInv'
<1>1. \A n \in Inbound : Elems(current[n])' = Elems(current[n]) /\ Backlogged(n)' = Backlogged(n)
  BY DEF Settles, Elems, Backlogged
<1>2. \A n \in Inbound : Elems(current[n]) \cup Backlogged(n) \subseteq Inbound
  <2> SUFFICES ASSUME NEW n \in Inbound PROVE Elems(current[n]) \cup Backlogged(n) \subseteq Inbound
    OBVIOUS
  <2>1. /\ current[n] \in Seq(Inbound) /\ backlog[n].regular \in Seq(Inbound)
        /\ backlog[n].scheduled \in Seq(Inbound)
    BY DEF Rest, DataOK, Backlog
  <2> QED
    BY <2>1, ElemsIn DEF Backlogged
<1>3. SettledBatch'
  <2> SUFFICES ASSUME NEW n \in Inbound
               PROVE  /\ pc'[n] \in AfterTurn => \A x \in Elems(current[n]) : fate'[x] # "open"
                      /\ pc'[n] = "unwound" => \A x \in Backlogged(n) : fate'[x] # "open"
    BY <1>1 DEF SettledBatch
  <2>1. /\ pc[n] \in AfterTurn => \A x \in Elems(current[n]) : fate[x] # "open"
        /\ pc[n] = "unwound" => \A x \in Backlogged(n) : fate[x] # "open"
    BY DEF AInv, SettledBatch
  <2> QED
    BY <1>2, <2>1 DEF Settles
<1>4. Accounted'
  <2> SUFFICES ASSUME NEW x \in Inbound, pc'[x] = "absent", fate'[x] = "open"
               PROVE  \/ x \in Elems(queue)'
                      \/ \E n \in Loops' : x \in Elems(current[n])' \cup Backlogged(n)'
    BY DEF Accounted
  <2>1. pc[x] = "absent" /\ fate[x] = "open"
    BY DEF Settles
  <2>2. CASE x \in Elems(queue)
    BY <2>2 DEF Settles, Elems
  <2>3. ASSUME NEW n \in Loops, x \in Elems(current[n]) \cup Backlogged(n)
        PROVE  n \in Loops' /\ x \in Elems(current[n])' \cup Backlogged(n)'
    BY <1>1, <2>3 DEF Settles, Loops
  <2> QED
    BY <2>1, <2>2, <2>3 DEF AInv, Accounted
<1> QED
  BY <1>3, <1>4 DEF AInv

LEMMA QuietSettles ==
    ASSUME Shapes, Rest, QueueWaits, AInv, NEW m \in Inbound, Quiet(m) \/ StartTurn(m)
    PROVE  Settles
<1> USE DEF Settles, AfterTurn, LoopPcs
<1>0. /\ pc \in [Inbound -> {"unsent", "spawned", "absent", "done"} \cup LoopPcs]
      /\ \A n \in Inbound : n \in Elems(queue) => pc[n] = "absent"
      /\ \A n \in Inbound : pc[n] \in AfterTurn => \A x \in Elems(current[n]) : fate[x] # "open"
      /\ \A n \in Inbound : pc[n] = "unwound" => \A x \in Backlogged(n) : fate[x] # "open"
      /\ fate \in [Inbound -> {"open", "completed", "interrupted", "panicked",
                               "forgotten", "overwritten"}]
  BY DEF Shapes, QueueWaits, AInv, SettledBatch, Rest, FateOK
<1>00. /\ Elems(queue) \subseteq Inbound
       /\ \A n \in Inbound : Elems(current[n]) \subseteq Inbound /\ Backlogged(n) \subseteq Inbound
  BY PlacesTyped DEF Kept
<1>1. CASE Post(m)
  BY <1>0, <1>1 DEF Post, data, history
<1>2. CASE Decide(m)
  <2>1. PICK r \in {"completed", "interrupted"} :
            fate' = [n \in Inbound |-> IF n \in Elems(current[m]) THEN r ELSE fate[n]]
    BY <1>2 DEF Decide
  <2> QED
    BY <1>0, <1>00, <1>2, <2>1 DEF Decide
<1>3. CASE FinishActiveTurn(m)
  BY <1>0, <1>3 DEF FinishActiveTurn, history
<1>4. CASE FinishInterrupted(m)
  <2>1. /\ UNCHANGED <<current, backlog>> /\ queue' = <<>> /\ pc[m] = "interrupted"
        /\ \A n \in Inbound : pc'[n] = IF n = m THEN "done"
                                       ELSE IF n \in Elems(queue) THEN "spawned" ELSE pc[n]
        /\ \A n \in Inbound : fate'[n] = IF n \in Backlogged(m) THEN "forgotten" ELSE fate[n]
    BY <1>4 DEF FinishInterrupted, Backlogged
  <2>2. \A x \in Elems(current[m]) \cup Backlogged(m) : fate'[x] # "open"
    BY <1>0, <1>00, <2>1
  <2>3. \A x \in Elems(queue) : pc'[x] # "absent"
    BY <1>00, <2>1
  <2>4. \A x \in Inbound : pc'[x] = "absent" => pc[x] = "absent"
    BY <2>1
  <2>5. \A x \in Inbound : fate[x] # "open" => fate'[x] # "open"
    BY <2>1
  <2>6. \A n \in Inbound : pc[n] \in LoopPcs /\ pc'[n] \notin LoopPcs => n = m
    BY <1>0, <2>1
  <2>7. \A n \in Inbound : pc'[n] \in AfterTurn => pc[n] = pc'[n]
    BY <1>0, <2>1
  <2> QED
    BY <2>1, <2>2, <2>3, <2>4, <2>5, <2>6, <2>7
<1>5. CASE WaitForSubagents(m)
  BY <1>0, <1>5 DEF WaitForSubagents, history
<1>6. CASE NoSubagents(m)
  BY <1>0, <1>6 DEF NoSubagents, data, history
<1>7. CASE Reserve(m)
  BY <1>0, <1>00, <1>7 DEF Reserve
<1>8. CASE PanicRelease(m)
  BY <1>0, <1>00, <1>8 DEF PanicRelease
<1>9. CASE StartSubagent(m)
  BY <1>0, <1>9 DEF StartSubagent, control
<1>10. CASE ForceFailSubagents(m)
  BY <1>0, <1>10 DEF ForceFailSubagents, history
<1>11. CASE ForceFailLost(m)
  BY <1>0, <1>11 DEF ForceFailLost, data, history
<1>12. CASE Panic(m)
  <2>1. /\ UNCHANGED <<current, backlog, queue>> /\ pc' = [pc EXCEPT ![m] = "unwound"]
        /\ \A n \in Inbound : fate'[n] = IF n \in Elems(current[m]) \cup Backlogged(m)
                                         THEN "panicked" ELSE fate[n]
    BY <1>12 DEF Panic, Backlogged
  <2> QED
    BY <1>0, <1>00, <2>1
<1>13. CASE StartTurn(m)
  BY <1>0, <1>13 DEF StartTurn
<1> QED
  BY <1>1, <1>2, <1>3, <1>4, <1>5, <1>6, <1>7, <1>8, <1>9, <1>10, <1>11, <1>12, <1>13 DEF Quiet

LEMMA IdleSettles ==
    ASSUME Interrupt \/ SubagentsReport \/ UNCHANGED vars PROVE Settles
BY DEF Settles, Interrupt, SubagentsReport, vars, control, data, history

LEMMA SubmitAInv ==
    ASSUME Shapes, Rest, SInv, AInv, NEW m \in Inbound, Submit(m) PROVE AInv'
<1>1. /\ pc[m] = "spawned" /\ fate' = fate
      /\ pc' = [pc EXCEPT ![m] = IF reserved THEN "absent" ELSE "start"]
      /\ reserved => queue' = Append(queue, m) /\ UNCHANGED <<current, backlog>>
      /\ ~reserved => /\ queue = <<>> /\ current' = [current EXCEPT ![m] = <<m>>]
                      /\ backlog' = [backlog EXCEPT ![m] = EmptyBacklog]
  BY DEF Submit, RunNow, Enqueue, SInv, Whereabouts, NoQueueUnreserved
<1>2. /\ \A n \in Inbound : n # m => pc'[n] = pc[n] /\ current'[n] = current[n]
                                     /\ backlog'[n] = backlog[n]
      /\ pc'[m] \in {"absent", "start"}
      /\ pc'[m] = "absent" => reserved
  BY <1>1 DEF Shapes, Rest, DataOK
<1>3. \A n \in Inbound : n # m => /\ Elems(current[n])' = Elems(current[n])
                                  /\ Backlogged(n)' = Backlogged(n)
  <2> SUFFICES ASSUME NEW n \in Inbound, n # m
               PROVE  Elems(current[n])' = Elems(current[n]) /\ Backlogged(n)' = Backlogged(n)
    OBVIOUS
  <2>1. current'[n] = current[n] /\ backlog'[n] = backlog[n]
    BY <1>2
  <2> QED
    BY <2>1 DEF Elems, Backlogged
<1>4. SettledBatch'
  <2> SUFFICES ASSUME NEW n \in Inbound
               PROVE  /\ pc'[n] \in AfterTurn => \A x \in Elems(current[n])' : fate[x] # "open"
                      /\ pc'[n] = "unwound" => \A x \in Backlogged(n)' : fate[x] # "open"
    BY <1>1 DEF SettledBatch, Elems
  <2>1. CASE n = m
    <3>1. pc'[n] \notin AfterTurn /\ pc'[n] # "unwound"
      BY <1>2, <2>1 DEF AfterTurn
    <3> QED
      BY <3>1
  <2>2. CASE n # m
    BY <1>2, <1>3, <2>2 DEF AInv, SettledBatch
  <2> QED
    BY <2>1, <2>2
<1>5. reserved => Elems(queue)' = Elems(queue) \cup {m}
  <2>1. queue \in Seq(Inbound)
    BY DEF Rest, DataOK
  <2>3. Elems(Append(queue, m)) = Elems(queue) \cup {m}
    BY <2>1, AppendFacts
  <2>2. reserved => Elems(queue') = Elems(queue) \cup {m}
    BY <1>1, <2>3
  <2> QED
    BY <2>2 DEF Elems
<1>6. Accounted'
  <2> SUFFICES ASSUME NEW x \in Inbound, pc'[x] = "absent", fate[x] = "open"
               PROVE  \/ x \in Elems(queue)'
                      \/ \E n \in Loops' : x \in Elems(current[n])' \cup Backlogged(n)'
    BY <1>1 DEF Accounted
  <2>1. CASE x = m
    BY <1>2, <1>5, <2>1
  <2>2. CASE x # m
    <3>1. \/ x \in Elems(queue)
          \/ \E n \in Loops : x \in Elems(current[n]) \cup Backlogged(n)
      BY <1>2, <2>2 DEF AInv, Accounted
    <3>2. CASE x \in Elems(queue)
      BY <1>1, <1>5, <3>2, ElemsEmpty
    <3>3. ASSUME NEW n \in Loops, x \in Elems(current[n]) \cup Backlogged(n)
          PROVE  n \in Loops' /\ x \in Elems(current[n])' \cup Backlogged(n)'
      <4>1. n \in Inbound /\ n # m
        BY <1>1 DEF Loops, LoopPcs
      <4> QED
        BY <1>2, <1>3, <3>3, <4>1 DEF Loops
    <3> QED
      BY <3>1, <3>2, <3>3
  <2> QED
    BY <2>1, <2>2
<1> QED
  BY <1>4, <1>6 DEF AInv

LEMMA TakesAInv ==
    ASSUME Shapes, Rest, SInv, AInv, NEW m \in Inbound, NEW next, Takes(m, next) PROVE AInv'
<1>1. /\ fate' = fate /\ pc[m] \in {"poll", "again", "finish"}
      /\ pc'[m] \in {"start", "gap", "check", "finish", "done"}
      /\ backlog'[m] = next.rest
      /\ next.batch # <<>> => pc'[m] \in {"start", "gap"} /\ current'[m] = next.batch
      /\ next.batch = <<>> => current' = current /\ pc'[m] \in {"check", "finish", "done"}
      /\ \A n \in Inbound : n # m => pc'[n] = pc[n] /\ current'[n] = current[n]
                                     /\ backlog'[n] = backlog[n]
  <2>1. CASE next.batch # <<>>
    BY <2>1 DEF Takes, Shapes, Rest, DataOK, history
  <2>2. CASE next.batch = <<>>
    BY <2>2 DEF Takes, Shapes, Rest, DataOK, history
  <2> QED
    BY <2>1, <2>2
<1>2. Deals(backlog[m], queue, next.batch, next.rest)
  BY TakesDeals
<1>3. \A n \in Inbound : n # m => /\ Elems(current[n])' = Elems(current[n])
                                  /\ Backlogged(n)' = Backlogged(n)
  <2> SUFFICES ASSUME NEW n \in Inbound, n # m
               PROVE  Elems(current[n])' = Elems(current[n]) /\ Backlogged(n)' = Backlogged(n)
    OBVIOUS
  <2>1. current'[n] = current[n] /\ backlog'[n] = backlog[n]
    BY <1>1
  <2> QED
    BY <2>1 DEF Elems, Backlogged
<1>4. \A x \in Elems(current[m]) : fate[x] # "open"
  BY <1>1 DEF AInv, SettledBatch, AfterTurn
<1>5. Backlogged(m)' = Elems(next.rest.regular) \cup Elems(next.rest.scheduled)
  BY <1>1 DEF Backlogged, Elems
<1>6. SettledBatch'
  <2> SUFFICES ASSUME NEW n \in Inbound
               PROVE  /\ pc'[n] \in AfterTurn => \A x \in Elems(current[n])' : fate[x] # "open"
                      /\ pc'[n] = "unwound" => \A x \in Backlogged(n)' : fate[x] # "open"
    BY <1>1 DEF SettledBatch, Elems
  <2>1. CASE n = m
    <3>1. pc'[m] \in AfterTurn => Elems(current[m])' = Elems(current[m])
      BY <1>1 DEF AfterTurn, Elems
    <3> QED
      BY <1>1, <1>4, <2>1, <3>1
  <2>2. CASE n # m
    BY <1>1, <1>3, <2>2 DEF AInv, SettledBatch
  <2> QED
    BY <2>1, <2>2
<1>7. ASSUME NEW x \in Backlogged(m) \cup Elems(queue)
      PROVE  m \in Loops' /\ x \in Elems(current[m])' \cup Backlogged(m)'
  <2>1. next.batch # <<>>
    BY <1>2, <1>7, ElemsEmpty DEF Deals, Backlogged
  <2>2. Elems(current[m])' = Elems(next.batch)
    BY <1>1, <2>1 DEF Elems
  <2> QED
    BY <1>1, <1>2, <1>5, <1>7, <2>1, <2>2 DEF Deals, Backlogged, Loops, LoopPcs
<1>8. Accounted'
  <2> SUFFICES ASSUME NEW x \in Inbound, pc'[x] = "absent", fate[x] = "open"
               PROVE  \E n \in Loops' : x \in Elems(current[n])' \cup Backlogged(n)'
    BY <1>1 DEF Accounted
  <2>1. pc[x] = "absent"
    BY <1>1
  <2>2. CASE x \in Elems(queue)
    BY <1>7, <2>2
  <2>3. ASSUME NEW n \in Loops, x \in Elems(current[n]) \cup Backlogged(n)
        PROVE  n \in Loops' /\ x \in Elems(current[n])' \cup Backlogged(n)'
    <3>1. n \in Inbound
      BY DEF Loops
    <3>2. CASE n = m
      BY <1>4, <1>7, <2>3, <3>2
    <3>3. CASE n # m
      BY <1>1, <1>3, <2>3, <3>1, <3>3 DEF Loops
    <3> QED
      BY <3>2, <3>3
  <2> QED
    BY <2>1, <2>2, <2>3 DEF AInv, Accounted
<1> QED
  BY <1>6, <1>8 DEF AInv

LEMMA NextAInv == IInv /\ Rest /\ SInv /\ AInv /\ [Next]_vars => AInv'
<1> SUFFICES ASSUME Shapes, Rest, SInv, AInv, [Next]_vars PROVE AInv'
  BY DEF IInv
<1>1. QueueWaits
  BY DEF SInv, Whereabouts
<1>2. ASSUME NEW m \in Inbound, Quiet(m) \/ StartTurn(m) PROVE AInv'
  BY <1>1, <1>2, QuietSettles, SettlesAInv
<1>3. ASSUME NEW m \in Inbound, Submit(m) PROVE AInv'
  BY <1>3, SubmitAInv
<1>4. ASSUME NEW m \in Inbound, NEW next, Takes(m, next) PROVE AInv'
  BY <1>4, TakesAInv
<1>5. CASE Interrupt \/ SubagentsReport \/ UNCHANGED vars
  BY <1>5, IdleSettles, SettlesAInv
<1> QED
  BY <1>2, <1>3, <1>4, <1>5, Steps

\* A message that submit_or_queue left with the session (session_coordinator.rs:
\* 50-68) is run, given up by name, or still held by a loop that lives or by the
\* queue, across drains, the gap after finish_turn, interrupts and panics.
THEOREM AccountedTheorem == Spec => []Accounted
<1>1. IInv /\ Rest /\ SInv /\ AInv /\ [Next]_vars => AInv'
  BY NextAInv
<1>2. AInv => Accounted
  BY DEF AInv
<1> QED
  BY Placed, InitAInv, <1>1, <1>2, PTL DEF Spec

-----------------------------------------------------------------------------
(* A scheduled run waits for few batches.  Of a run of messages: the batches  *)
(* a loop has run with a message later than s, and its scheduled runs.        *)

LateAt(r, t, n, l, s) ==
    {i \in 1..n : r[i].loop = l /\ IsRegular(r[i].msg) /\ t[r[i].msg] > t[s]}
LateIn(r, t, n, l, s) == {r[i].batch : i \in LateAt(r, t, n, l, s)}
ScheduledIn(r, n, l) == {i \in 1..n : r[i].loop = l /\ IsScheduled(r[i].msg)}

LEMMA BatchesFinite ==
    ASSUME NEW I, IsFiniteSet(I), NEW r PROVE IsFiniteSet({r[i].batch : i \in I})
<1> DEFINE T == {r[i].batch : i \in I}
           f == [i \in I |-> r[i].batch]
<1>1. f \in Surjection(I, T)
  BY DEF Surjection
<1> QED
  BY <1>1, FS_Surjection

LEMMA LateFinite ==
    ASSUME NEW r, NEW t, NEW n \in Nat, NEW l, NEW s
    PROVE  /\ IsFiniteSet(LateIn(r, t, n, l, s)) /\ Cardinality(LateIn(r, t, n, l, s)) \in Nat
           /\ IsFiniteSet(ScheduledIn(r, n, l)) /\ Cardinality(ScheduledIn(r, n, l)) \in Nat
<1>1. IsFiniteSet(1..n)
  BY FS_Interval
<1>2. LateAt(r, t, n, l, s) \subseteq 1..n /\ ScheduledIn(r, n, l) \subseteq 1..n
  BY DEF LateAt, ScheduledIn
<1>3. IsFiniteSet(LateAt(r, t, n, l, s)) /\ IsFiniteSet(ScheduledIn(r, n, l))
  BY <1>1, <1>2, FS_Subset
<1>4. IsFiniteSet(LateIn(r, t, n, l, s))
  BY <1>3, BatchesFinite DEF LateIn
<1> QED
  BY <1>3, <1>4, FS_CardinalityType

\* The batches and the scheduled runs of l do not change when others run more.
LEMMA LateExtends ==
    ASSUME NEW r, NEW t, NEW n \in Nat, NEW l, NEW s, NEW r2, NEW n2 \in Nat, n <= n2,
           \A i \in 1..n : r2[i] = r[i],
           \A i \in 1..n2 : i > n => r2[i].loop # l
    PROVE  /\ LateIn(r2, t, n2, l, s) = LateIn(r, t, n, l, s)
           /\ ScheduledIn(r2, n2, l) = ScheduledIn(r, n, l)
<1>1. \A i \in 1..n : i \in 1..n2
  OBVIOUS
<1>2. \A i \in 1..n2 : r2[i].loop = l => i \in 1..n
  OBVIOUS
<1>3. LateAt(r2, t, n2, l, s) = LateAt(r, t, n, l, s)
  BY <1>1, <1>2 DEF LateAt
<1>4. \A i \in LateAt(r, t, n, l, s) : r2[i].batch = r[i].batch
  BY DEF LateAt
<1>5. LateIn(r2, t, n2, l, s) = LateIn(r, t, n, l, s)
  BY <1>3, <1>4 DEF LateIn
<1>6. ScheduledIn(r2, n2, l) = ScheduledIn(r, n, l)
  BY <1>1, <1>2 DEF ScheduledIn
<1> QED
  BY <1>5, <1>6

\* Nor when a message that has not run gets a number.
LEMMA LateRenumbered ==
    ASSUME NEW r, NEW t, NEW n \in Nat, NEW l, NEW s, NEW t2,
           \A i \in 1..n : t2[r[i].msg] = t[r[i].msg], t2[s] = t[s]
    PROVE  LateIn(r, t2, n, l, s) = LateIn(r, t, n, l, s)
BY DEF LateIn, LateAt

\* The bound, for the j-th message to run.
Served(r, t, j) ==
    IsScheduled(r[j].msg) =>
        Cardinality(LateIn(r, t, j - 1, r[j].loop, r[j].msg))
            <= MaxRegular * (Cardinality(ScheduledIn(r, j - 1, r[j].loop)) + 1)

LEMMA ServedIs == (\A j \in 1..Len(ran) : Served(ran, ticket, j)) => ScheduledNotStarved
<1> SUFFICES ASSUME NEW j \in 1..Len(ran), Served(ran, ticket, j), IsScheduled(ran[j].msg)
             PROVE  LET before == {i \in 1..(j - 1) : ran[i].loop = ran[j].loop}
                        late == {i \in before : /\ IsRegular(ran[i].msg)
                                                /\ ticket[ran[i].msg] > ticket[ran[j].msg]}
                        ahead == {i \in before : IsScheduled(ran[i].msg)}
                    IN Cardinality({ran[i].batch : i \in late})
                           <= MaxRegular * (Cardinality(ahead) + 1)
  BY DEF ScheduledNotStarved
<1> DEFINE before == {i \in 1..(j - 1) : ran[i].loop = ran[j].loop}
           late == {i \in before : /\ IsRegular(ran[i].msg)
                                   /\ ticket[ran[i].msg] > ticket[ran[j].msg]}
           ahead == {i \in before : IsScheduled(ran[i].msg)}
<1>1. late = LateAt(ran, ticket, j - 1, ran[j].loop, ran[j].msg)
  BY DEF LateAt
<1>2. ahead = ScheduledIn(ran, j - 1, ran[j].loop)
  BY DEF ScheduledIn
<1>3. {ran[i].batch : i \in late} = LateIn(ran, ticket, j - 1, ran[j].loop, ran[j].msg)
  BY <1>1 DEF LateIn
<1> HIDE DEF late, ahead
<1> QED
  BY <1>2, <1>3 DEF Served, late, ahead

\* The batch a loop is about to run: regular messages, or one scheduled run.
PendingRegular(l) ==
    IF pc[l] \in AboutToRun /\ ~ (Elems(current[l]) \subseteq Scheduled) THEN 1 ELSE 0
PendingScheduled(l) ==
    IF pc[l] \in AboutToRun /\ Elems(current[l]) \subseteq Scheduled THEN 1 ELSE 0

Late(l, s) == Cardinality(LateIn(ran, ticket, Len(ran), l, s))
ScheduledRan(l) == Cardinality(ScheduledIn(ran, Len(ran), l))

\* A scheduled run in the backlog has been passed by MaxRegular batches for each
\* scheduled run since, and by as many more as the backlog counts.
Waits(l) ==
    \A s \in Elems(backlog[l].scheduled) :
        Late(l, s) + PendingRegular(l)
            <= MaxRegular * (ScheduledRan(l) + PendingScheduled(l)) + backlog[l].since
\* One that is about to run has been passed by MaxRegular batches more at most.
Ready(l) ==
    pc[l] \in AboutToRun =>
        \A s \in Elems(current[l]) : IsScheduled(s) => Late(l, s) <= MaxRegular * (ScheduledRan(l) + 1)
Patient(l) == Waits(l) /\ Ready(l)

PInv == (\A l \in Inbound : Patient(l)) /\ \A j \in 1..Len(ran) : Served(ran, ticket, j)

LEMMA InitPInv == Init => PInv
<1> SUFFICES ASSUME Init PROVE PInv
  OBVIOUS
<1>1. /\ ran = <<>> /\ Len(ran) = 0
      /\ \A l \in Inbound : pc[l] = "unsent" /\ backlog[l] = EmptyBacklog
  BY DEF Init
<1>2. ASSUME NEW l \in Inbound PROVE Patient(l)
  <2>1. Elems(backlog[l].scheduled) = {} /\ pc[l] \notin AboutToRun
    BY <1>1, ElemsEmpty DEF EmptyBacklog, AboutToRun
  <2> QED
    BY <2>1 DEF Patient, Waits, Ready
<1> QED
  BY <1>1, <1>2 DEF PInv

\* A loop stays patient if neither what it keeps nor what it ran changes.
LEMMA SamePatience ==
    ASSUME NEW l \in Inbound, Patient(l), current'[l] = current[l], backlog'[l] = backlog[l],
           pc'[l] \in AboutToRun <=> pc[l] \in AboutToRun,
           \A s \in Kept(l) : LateIn(ran', ticket', Len(ran'), l, s)
                                 = LateIn(ran, ticket, Len(ran), l, s),
           ScheduledIn(ran', Len(ran'), l) = ScheduledIn(ran, Len(ran), l)
    PROVE  Patient(l)'
<1>1. PendingRegular(l)' = PendingRegular(l) /\ PendingScheduled(l)' = PendingScheduled(l)
  BY DEF PendingRegular, PendingScheduled, Elems
<1>2. ScheduledRan(l)' = ScheduledRan(l)
  BY DEF ScheduledRan
<1>3. ASSUME NEW s \in Kept(l) PROVE Cardinality(LateIn(ran', ticket', Len(ran'), l, s)) = Late(l, s)
  BY DEF Late
<1>4. Elems(backlog[l].scheduled) \subseteq Kept(l)
  BY DEF Kept, Backlogged
<1>5. Waits(l)'
  <2> SUFFICES ASSUME NEW s \in Elems(backlog[l].scheduled)
               PROVE  Cardinality(LateIn(ran', ticket', Len(ran'), l, s)) + PendingRegular(l)
                         <= MaxRegular * (ScheduledRan(l) + PendingScheduled(l)) + backlog[l].since
    BY <1>1, <1>2 DEF Waits, Late, Elems
  <2> QED
    BY <1>3, <1>4 DEF Patient, Waits
<1>6. Ready(l)'
  <2> SUFFICES ASSUME pc[l] \in AboutToRun, NEW s \in Elems(current[l]), IsScheduled(s)
               PROVE  Cardinality(LateIn(ran', ticket', Len(ran'), l, s)) <= MaxRegular * (ScheduledRan(l) + 1)
    BY <1>2 DEF Ready, Late, Elems
  <2>1. s \in Kept(l)
    BY DEF Kept, Batch
  <2> QED
    BY <1>3, <2>1 DEF Patient, Ready
<1> QED
  BY <1>5, <1>6 DEF Patient

LEMMA StaysPInv == ASSUME Rest, PInv, Stays PROVE PInv'
<1>1. ran' = ran /\ ticket' = ticket
  BY DEF Stays
<1>2. ASSUME NEW l \in Inbound PROVE Patient(l)'
  BY <1>1, SamePatience DEF PInv, Stays
<1>3. \A j \in 1..Len(ran) : Served(ran', ticket', j)
  BY <1>1 DEF PInv
<1> QED
  BY <1>1, <1>2, <1>3 DEF PInv

LEMMA Empty == Cardinality({}) = 0
BY FS_EmptySet

LEMMA Products ==
    ASSUME NEW c \in Nat
    PROVE  /\ MaxRegular * c \in Nat /\ MaxRegular * (c + 0) = MaxRegular * c
           /\ MaxRegular * (c + 1) = MaxRegular * c + MaxRegular
           /\ MaxRegular \in Nat /\ MaxRegular >= 1
BY BoundsAssumption

LEMMA Measures ==
    ASSUME Rest, NEW l \in Inbound, NEW s
    PROVE  Late(l, s) \in Nat /\ ScheduledRan(l) \in Nat /\ backlog[l].since \in 0..MaxRegular
<1>1. Len(ran) \in Nat
  BY DEF Rest, RunOK
<1>2. backlog[l] \in Backlog
  BY DEF Rest, DataOK
<1> QED
  BY <1>1, <1>2, LateFinite DEF Late, ScheduledRan, Backlog

LEMMA SubmitPInv ==
    ASSUME Shapes, Rest, SInv, PInv, NEW m \in Inbound, Submit(m) PROVE PInv'
<1>1. /\ pc[m] = "spawned" /\ ran' = ran
      /\ pc' = [pc EXCEPT ![m] = IF reserved THEN "absent" ELSE "start"]
      /\ reserved => UNCHANGED <<current, backlog>>
      /\ ~reserved => /\ current' = [current EXCEPT ![m] = <<m>>]
                      /\ backlog' = [backlog EXCEPT ![m] = EmptyBacklog]
  BY DEF Submit, RunNow, Enqueue
<1>2. /\ \A l \in Inbound : l # m => pc'[l] = pc[l] /\ current'[l] = current[l]
                                     /\ backlog'[l] = backlog[l]
      /\ reserved => pc'[m] = "absent" /\ current'[m] = current[m] /\ backlog'[m] = backlog[m]
      /\ ~reserved => pc'[m] = "start" /\ current'[m] = <<m>> /\ backlog'[m] = EmptyBacklog
  BY <1>1 DEF Shapes, Rest, DataOK
<1>3. /\ \A l \in Inbound : m \notin Kept(l)
      /\ \A i \in 1..Len(ran) : ran[i].loop # m /\ ran[i].msg # m
  BY <1>1, Fresh DEF NotYet
<1>4. \A x \in Inbound : x # m => ticket'[x] = ticket[x]
  BY NextNumber
<1>5. Len(ran) \in Nat
  BY DEF Rest, RunOK
<1>6. ASSUME NEW n \in 0..Len(ran), NEW l, NEW s \in Inbound, s # m
      PROVE  LateIn(ran, ticket', n, l, s) = LateIn(ran, ticket, n, l, s)
  <2>1. \A i \in 1..n : ticket'[ran[i].msg] = ticket[ran[i].msg]
    BY <1>3, <1>4, <1>5, PlacesTyped
  <2>2. ticket'[s] = ticket[s]
    BY <1>4, <1>6
  <2>3. n \in Nat
    BY <1>5
  <2> QED
    BY <2>1, <2>2, <2>3, LateRenumbered
<1>7. Len(ran) \in 0..Len(ran)
  BY <1>5
<1>8. ASSUME NEW l \in Inbound, l # m \/ reserved PROVE Patient(l)'
  <2>1. ASSUME NEW s \in Kept(l)
        PROVE  LateIn(ran', ticket', Len(ran'), l, s) = LateIn(ran, ticket, Len(ran), l, s)
    BY <1>1, <1>3, <1>6, <1>7, PlacesTyped
  <2>2. pc'[l] \in AboutToRun <=> pc[l] \in AboutToRun
    BY <1>1, <1>2, <1>8 DEF AboutToRun
  <2>3. current'[l] = current[l] /\ backlog'[l] = backlog[l]
    BY <1>2, <1>8
  <2> QED
    BY <1>1, <2>1, <2>2, <2>3, SamePatience DEF PInv
<1>9. ASSUME ~reserved PROVE Patient(m)'
  <2>0. backlog'[m].scheduled = <<>> /\ current'[m] = <<m>>
    BY <1>2, <1>9 DEF EmptyBacklog
  <2>1. Elems(backlog'[m].scheduled) = {} /\ Elems(current'[m]) = {m}
    BY <2>0, ElemsEmpty, ElemsOne
  <2>2. LateAt(ran, ticket', Len(ran), m, m) = {}
    BY <1>3 DEF LateAt
  <2>3. LateIn(ran', ticket', Len(ran'), m, m) = {}
    BY <1>1, <2>2 DEF LateIn
  <2>4. Cardinality(LateIn(ran', ticket', Len(ran'), m, m)) = 0
    BY <2>3, Empty
  <2>5. Cardinality(ScheduledIn(ran', Len(ran'), m)) \in Nat
    BY <1>1, <1>5, LateFinite
  <2>6. 0 <= MaxRegular * (Cardinality(ScheduledIn(ran', Len(ran'), m)) + 1)
    BY <2>5, Products
  <2>7. Waits(m)'
    BY <2>1 DEF Waits, Elems
  <2>8. Ready(m)'
    BY <2>1, <2>4, <2>6 DEF Ready, Late, ScheduledRan, Elems
  <2> QED
    BY <2>7, <2>8 DEF Patient
<1>10. ASSUME NEW j \in 1..Len(ran) PROVE Served(ran, ticket', j)
  <2>1. j - 1 \in 0..Len(ran) /\ ran[j].msg \in Inbound /\ ran[j].msg # m
    BY <1>3, <1>5, PlacesTyped
  <2>2. LateIn(ran, ticket', j - 1, ran[j].loop, ran[j].msg)
           = LateIn(ran, ticket, j - 1, ran[j].loop, ran[j].msg)
    BY <1>6, <2>1
  <2>3. Served(ran, ticket, j)
    BY DEF PInv
  <2> QED
    BY <2>2, <2>3 DEF Served
<1> QED
  BY <1>1, <1>8, <1>9, <1>10 DEF PInv

\* A turn of m starts: what the proofs about it use.
LEMMA StartFacts ==
    ASSUME Shapes, Rest, SInv, PInv, NEW m \in Inbound, StartTurn(m)
    PROVE  /\ UNCHANGED <<current, backlog, ticket>>
           /\ pc[m] \in AboutToRun /\ pc'[m] \notin AboutToRun
           /\ \A n \in Inbound : n # m => pc'[n] = pc[n]
           /\ Len(ran) \in Nat /\ Len(ran') \in Nat /\ Len(ran) <= Len(ran')
           /\ Len(current[m]) \in Nat /\ Len(ran') = Len(ran) + Len(current[m])
           /\ \A i \in 1..Len(ran) : ran'[i] = ran[i] /\ i \in 1..Len(ran')
           /\ BatchShape(m) /\ Patient(m)
<1>1. /\ pc[m] = "start" /\ pc' = [pc EXCEPT ![m] = "turn"]
      /\ UNCHANGED <<current, backlog, ticket>>
  BY DEF StartTurn
<1>2. pc'[m] = "turn" /\ \A n \in Inbound : n # m => pc'[n] = pc[n]
  BY <1>1 DEF Shapes
<1>3. DataOK /\ RunOK
  BY DEF Rest
<1>4. /\ Len(ran) \in Nat /\ Len(current[m]) \in Nat
      /\ Len(ran') = Len(ran) + Len(current[m])
      /\ \A i \in 1..Len(ran) : ran'[i] = ran[i]
  BY <1>3, Starts
<1> QED
  BY <1>1, <1>2, <1>4 DEF AboutToRun, SInv, Lists, PInv

LEMMA StartOthers ==
    ASSUME Shapes, Rest, SInv, PInv, NEW m \in Inbound, StartTurn(m),
           NEW l \in Inbound, l # m
    PROVE  Patient(l)'
<1>1. /\ UNCHANGED <<current, backlog, ticket>>
      /\ \A n \in Inbound : n # m => pc'[n] = pc[n]
      /\ Len(ran) \in Nat /\ Len(ran') \in Nat /\ Len(ran) <= Len(ran')
      /\ \A i \in 1..Len(ran) : ran'[i] = ran[i]
  BY StartFacts
<1>2. \A i \in 1..Len(ran') : i > Len(ran) => ran'[i].loop # l
  <2> SUFFICES ASSUME NEW i \in 1..Len(ran'), i > Len(ran) PROVE ran'[i].loop = m
    OBVIOUS
  <2> QED
    BY <1>1, StartCases
<1>3. ASSUME NEW s
      PROVE  /\ LateIn(ran', ticket, Len(ran'), l, s) = LateIn(ran, ticket, Len(ran), l, s)
             /\ ScheduledIn(ran', Len(ran'), l) = ScheduledIn(ran, Len(ran), l)
  <2>1. /\ Len(ran) \in Nat /\ Len(ran') \in Nat /\ Len(ran) <= Len(ran')
        /\ \A i \in 1..Len(ran) : ran'[i] = ran[i]
    BY <1>1
  <2> QED
    BY <1>2, <2>1, LateExtends
<1> QED
  BY <1>1, <1>3, SamePatience DEF PInv

\* It runs regular messages: one more late batch at most, for anybody.
LEMMA StartRegular ==
    ASSUME Shapes, Rest, SInv, PInv, NEW m \in Inbound, StartTurn(m),
           ~ (Elems(current[m]) \subseteq Scheduled)
    PROVE  /\ Waits(m)'
           /\ \A i \in 1..Len(ran') : i > Len(ran) => ~ IsScheduled(ran'[i].msg)
<1>1. /\ UNCHANGED <<current, backlog, ticket>>
      /\ pc[m] \in AboutToRun /\ pc'[m] \notin AboutToRun
      /\ Len(ran) \in Nat /\ Len(ran') \in Nat
      /\ \A i \in 1..Len(ran) : ran'[i] = ran[i] /\ i \in 1..Len(ran')
      /\ BatchShape(m) /\ Waits(m)
  BY StartFacts DEF Patient
<1>2. \A x \in Elems(current[m]) : x \notin Scheduled
  <2>1. CASE Len(current[m]) = 1
    <3>1. \A x \in Elems(current[m]) : x = current[m][1]
      BY <2>1 DEF Elems
    <3> QED
      BY <3>1
  <2> QED
    BY <1>1, <2>1 DEF BatchShape
<1>3. \A i \in 1..Len(ran') : i > Len(ran) => ~ IsScheduled(ran'[i].msg)
  <2> SUFFICES ASSUME NEW i \in 1..Len(ran'), i > Len(ran) PROVE ~ IsScheduled(ran'[i].msg)
    OBVIOUS
  <2>1. ran'[i].msg \in Elems(current[m])
    BY <1>1, StartCases
  <2> QED
    BY <1>2, <2>1 DEF IsScheduled
<1>4. ScheduledIn(ran', Len(ran'), m) = ScheduledIn(ran, Len(ran), m)
  <2>1. \A i \in 1..Len(ran') : i > Len(ran) \/ i \in 1..Len(ran)
    BY <1>1
  <2> QED
    BY <1>1, <1>3, <2>1 DEF ScheduledIn
<1> DEFINE before(s) == LateIn(ran, ticket, Len(ran), m, s)
           after(s) == LateIn(ran', ticket', Len(ran'), m, s)
<1>5. ASSUME NEW s PROVE Cardinality(after(s)) <= Late(m, s) + 1
                         /\ Cardinality(after(s)) \in Nat
  <2>1. after(s) \subseteq before(s) \cup {Len(ran)}
    <3> SUFFICES ASSUME NEW i \in LateAt(ran', ticket', Len(ran'), m, s)
                 PROVE  ran'[i].batch \in before(s) \cup {Len(ran)}
      BY DEF LateIn
    <3>1. i \in 1..Len(ran')
      BY DEF LateAt
    <3>2. CASE i \in 1..Len(ran) /\ ran'[i] = ran[i]
      <4>1. i \in LateAt(ran, ticket, Len(ran), m, s)
        BY <1>1, <3>2 DEF LateAt
      <4> QED
        BY <3>2, <4>1 DEF LateIn
    <3>3. CASE ran'[i].batch = Len(ran)
      BY <3>3
    <3> QED
      BY <3>1, <3>2, <3>3, StartCases
  <2>2. IsFiniteSet(before(s)) /\ Cardinality(before(s)) \in Nat /\ Cardinality(after(s)) \in Nat
    BY <1>1, LateFinite
  <2>3. Late(m, s) = Cardinality(before(s))
    BY DEF Late
  <2> HIDE DEF before, after
  <2>4. /\ IsFiniteSet(before(s) \cup {Len(ran)})
        /\ Cardinality(before(s) \cup {Len(ran)}) = IF Len(ran) \in before(s) THEN Cardinality(before(s))
                                                    ELSE Cardinality(before(s)) + 1
    BY <2>2, FS_AddElement
  <2>5. Cardinality(after(s)) <= Cardinality(before(s) \cup {Len(ran)})
    BY <2>1, <2>4, FS_Subset
  <2>6. Cardinality(before(s) \cup {Len(ran)}) <= Cardinality(before(s)) + 1
        /\ Cardinality(before(s) \cup {Len(ran)}) \in Nat
    BY <2>2, <2>4
  <2> QED
    BY <2>2, <2>3, <2>5, <2>6
<1>6. Waits(m)'
  <2> SUFFICES ASSUME NEW s \in Elems(backlog[m].scheduled)
               PROVE  Late(m, s)' + PendingRegular(m)'
                         <= MaxRegular * (ScheduledRan(m)' + PendingScheduled(m)') + backlog[m].since
    BY <1>1 DEF Waits, Elems
  <2>1. PendingRegular(m)' = 0 /\ PendingScheduled(m)' = 0
        /\ PendingRegular(m) = 1 /\ PendingScheduled(m) = 0
    BY <1>1 DEF PendingRegular, PendingScheduled
  <2>2. ScheduledRan(m)' = ScheduledRan(m) /\ Late(m, s)' = Cardinality(after(s))
    BY <1>4 DEF ScheduledRan, Late
  <2>3. Late(m, s) \in Nat /\ ScheduledRan(m) \in Nat /\ backlog[m].since \in 0..MaxRegular
    BY Measures
  <2>4. Late(m, s) + 1 <= MaxRegular * (ScheduledRan(m) + 0) + backlog[m].since
    BY <1>1, <2>1 DEF Waits
  <2>5. MaxRegular * (ScheduledRan(m) + 0) \in Nat
    BY <2>3, Products
  <2>6. Late(m, s)' <= Late(m, s) + 1 /\ Late(m, s)' \in Nat
    BY <1>5, <2>2
  <2> QED
    BY <2>1, <2>2, <2>3, <2>4, <2>5, <2>6
<1> QED
  BY <1>3, <1>6

\* It runs a scheduled message: that one has been passed no more than it may.
LEMMA StartScheduled ==
    ASSUME Shapes, Rest, SInv, PInv, NEW m \in Inbound, StartTurn(m),
           Elems(current[m]) \subseteq Scheduled
    PROVE  /\ Waits(m)'
           /\ \A j \in 1..Len(ran') : j > Len(ran) => Served(ran', ticket, j)
<1>1. /\ UNCHANGED <<current, backlog, ticket>>
      /\ pc[m] \in AboutToRun /\ pc'[m] \notin AboutToRun
      /\ Len(ran) \in Nat /\ Len(ran') \in Nat /\ Len(ran) <= Len(ran')
      /\ Len(current[m]) \in Nat /\ Len(ran') = Len(ran) + Len(current[m])
      /\ \A i \in 1..Len(ran) : ran'[i] = ran[i] /\ i \in 1..Len(ran')
      /\ BatchShape(m) /\ Waits(m) /\ Ready(m)
  BY StartFacts DEF Patient
<1>2. Len(current[m]) = 1
  <2>1. current[m] \in Seq(Inbound) /\ current[m] # <<>>
    BY <1>1 DEF BatchShape, Rest, DataOK
  <2>2. Elems(current[m]) # {}
    BY <2>1, ElemsNone
  <2> QED
    BY <1>1, <2>2 DEF BatchShape
<1> DEFINE e == Len(ran) + 1
<1>3. /\ Len(ran') = e /\ e \in 1..Len(ran') /\ e \notin 1..Len(ran) /\ e > Len(ran)
      /\ e - 1 = Len(ran) /\ 1..e = (1..Len(ran)) \cup {e}
      /\ \A j \in 1..Len(ran') : j > Len(ran) => j = e
  BY <1>1, <1>2
<1> HIDE DEF e
<1>4. ran'[e].loop = m /\ ran'[e].msg \in Elems(current[m]) /\ IsScheduled(ran'[e].msg)
      /\ ~ IsRegular(ran'[e].msg)
  BY <1>3, StartCases DEF IsScheduled, IsRegular
<1>5. ASSUME NEW s
      PROVE  LateIn(ran', ticket', Len(ran'), m, s) = LateIn(ran, ticket, Len(ran), m, s)
  <2>1. LateAt(ran', ticket', Len(ran'), m, s) = LateAt(ran, ticket, Len(ran), m, s)
    BY <1>1, <1>3, <1>4 DEF LateAt
  <2>2. \A i \in LateAt(ran, ticket, Len(ran), m, s) : ran'[i].batch = ran[i].batch
    BY <1>1 DEF LateAt
  <2> QED
    BY <2>1, <2>2 DEF LateIn
<1>6. ScheduledRan(m)' = ScheduledRan(m) + 1
  <2>1. ScheduledIn(ran', Len(ran'), m) = ScheduledIn(ran, Len(ran), m) \cup {e}
    BY <1>1, <1>3, <1>4 DEF ScheduledIn
  <2>4. e \notin ScheduledIn(ran, Len(ran), m)
    BY <1>3 DEF ScheduledIn
  <2>2. e \notin ScheduledIn(ran, Len(ran), m) /\ IsFiniteSet(ScheduledIn(ran, Len(ran), m))
    BY <1>1, <2>4, LateFinite
  <2>3. Cardinality(ScheduledIn(ran, Len(ran), m) \cup {e}) = Cardinality(ScheduledIn(ran, Len(ran), m)) + 1
    BY <2>2, FS_AddElement
  <2> QED
    BY <2>1, <2>3 DEF ScheduledRan
<1>7. Waits(m)'
  <2> SUFFICES ASSUME NEW s \in Elems(backlog[m].scheduled)
               PROVE  Late(m, s)' + PendingRegular(m)'
                         <= MaxRegular * (ScheduledRan(m)' + PendingScheduled(m)') + backlog[m].since
    BY <1>1 DEF Waits, Elems
  <2>1. PendingRegular(m)' = 0 /\ PendingScheduled(m)' = 0
        /\ PendingRegular(m) = 0 /\ PendingScheduled(m) = 1
    BY <1>1 DEF PendingRegular, PendingScheduled
  <2>2. Late(m, s)' = Late(m, s)
    BY <1>5 DEF Late
  <2>3. ScheduledRan(m) \in Nat
    BY Measures
  <2>4. Late(m, s) + 0 <= MaxRegular * (ScheduledRan(m) + 1) + backlog[m].since
    BY <1>1, <2>1 DEF Waits
  <2>5. (ScheduledRan(m) + 1) + 0 = ScheduledRan(m) + 1
    BY <2>3
  <2> QED
    BY <1>6, <2>1, <2>2, <2>4, <2>5
<1>8. Served(ran', ticket, e)
  <2>1. Late(m, ran'[e].msg) <= MaxRegular * (ScheduledRan(m) + 1)
    BY <1>1, <1>4 DEF Ready
  <2>2. /\ LateIn(ran', ticket, Len(ran), m, ran'[e].msg) = LateIn(ran, ticket, Len(ran), m, ran'[e].msg)
        /\ ScheduledIn(ran', Len(ran), m) = ScheduledIn(ran, Len(ran), m)
    <3>1. Len(ran) <= Len(ran) /\ \A i \in 1..Len(ran) : i > Len(ran) => ran'[i].loop # m
      BY <1>1
    <3> QED
      BY <1>1, <3>1, LateExtends
  <2> QED
    BY <1>3, <1>4, <2>1, <2>2 DEF Served, Late, ScheduledRan
<1> QED
  BY <1>3, <1>7, <1>8

LEMMA StartPInv ==
    ASSUME Shapes, Rest, SInv, PInv, NEW m \in Inbound, StartTurn(m) PROVE PInv'
<1>1. /\ ticket' = ticket /\ pc'[m] \notin AboutToRun
      /\ Len(ran) \in Nat /\ Len(ran') \in Nat /\ Len(ran) <= Len(ran')
      /\ \A i \in 1..Len(ran) : ran'[i] = ran[i]
  BY StartFacts
<1>2. Waits(m)' /\ \A j \in 1..Len(ran') : j > Len(ran) => Served(ran', ticket, j)
  <2>1. CASE Elems(current[m]) \subseteq Scheduled
    BY <2>1, StartScheduled
  <2>2. CASE ~ (Elems(current[m]) \subseteq Scheduled)
    BY <2>2, StartRegular DEF Served
  <2> QED
    BY <2>1, <2>2
<1>3. Patient(m)'
  BY <1>1, <1>2 DEF Patient, Ready
<1>4. ASSUME NEW j \in 1..Len(ran) PROVE Served(ran', ticket, j)
  <2>1. j - 1 \in Nat /\ \A i \in 1..(j - 1) : i \in 1..Len(ran)
    BY <1>1
  <2>2. /\ LateIn(ran', ticket, j - 1, ran[j].loop, ran[j].msg)
              = LateIn(ran, ticket, j - 1, ran[j].loop, ran[j].msg)
        /\ ScheduledIn(ran', j - 1, ran[j].loop) = ScheduledIn(ran, j - 1, ran[j].loop)
    <3>1. \A i \in 1..(j - 1) : ran'[i] = ran[i]
      BY <1>1, <2>1
    <3>2. j - 1 <= j - 1 /\ \A i \in 1..(j - 1) : i > j - 1 => ran'[i].loop # ran[j].loop
      BY <2>1
    <3> QED
      BY <2>1, <3>1, <3>2, LateExtends
  <2>3. Served(ran, ticket, j)
    BY DEF PInv
  <2> QED
    BY <1>1, <2>2, <2>3 DEF Served
<1>5. \A l \in Inbound : Patient(l)'
  BY <1>3, StartOthers
<1>6. \A j \in 1..Len(ran') : j > Len(ran) \/ j \in 1..Len(ran)
  BY <1>1
<1> QED
  BY <1>1, <1>2, <1>4, <1>5, <1>6 DEF PInv

\* What a drain brings is newer than all that ran: nothing has passed it yet.
LEMMA QueueUnpassed ==
    ASSUME Rest, SInv, NEW l, NEW s \in Elems(queue) PROVE Late(l, s) = 0
<1>1. \A i \in 1..Len(ran) : ran[i].msg \in Inbound \ Elems(queue)
  BY PlacesTyped DEF SInv, Apart, QueueApart, Ran
<1>2. \A i \in 1..Len(ran) : ticket[ran[i].msg] < ticket[s]
  BY <1>1 DEF SInv, Numbers, QueueLatest
<1>3. \A i \in 1..Len(ran) : ticket[ran[i].msg] \in Nat
  BY <1>1 DEF Rest, TicketsOK
<1>4. ticket[s] \in Nat
  BY PlacesTyped DEF Rest, TicketsOK
<1>5. LateAt(ran, ticket, Len(ran), l, s) = {}
  BY <1>2, <1>3, <1>4 DEF LateAt
<1>6. LateIn(ran, ticket, Len(ran), l, s) = {}
  BY <1>5 DEF LateIn
<1> QED
  BY <1>6, Empty DEF Late

LEMMA TakesPInv ==
    ASSUME Shapes, Rest, SInv, PInv, NEW m \in Inbound, NEW next, Takes(m, next) PROVE PInv'
<1>1. /\ UNCHANGED <<ran, ticket>> /\ pc[m] \in {"poll", "again", "finish"}
      /\ pc'[m] \in {"start", "gap", "check", "finish", "done"}
      /\ backlog'[m] = next.rest
      /\ next.batch # <<>> => pc'[m] \in AboutToRun /\ current'[m] = next.batch
      /\ next.batch = <<>> => pc'[m] \notin AboutToRun
      /\ \A n \in Inbound : n # m => pc'[n] = pc[n] /\ current'[n] = current[n]
                                     /\ backlog'[n] = backlog[n]
  <2>1. CASE next.batch # <<>>
    BY <2>1 DEF Takes, Shapes, Rest, DataOK, history, AboutToRun
  <2>2. CASE next.batch = <<>>
    BY <2>2 DEF Takes, Shapes, Rest, DataOK, history, AboutToRun
  <2> QED
    BY <2>1, <2>2
<1>2. PICK k \in Backlog : next = Pick(k) /\ KeptSoFar(backlog[m], queue, Len(queue), k)
  BY TakesFacts DEF Rest
<1>3. /\ k.regular \in Seq(Inbound) /\ k.scheduled \in Seq(Inbound)
      /\ k.since = backlog[m].since
      /\ Elems(k.regular) = Elems(backlog[m].regular) \cup (Elems(queue) \ Scheduled)
      /\ Elems(k.scheduled) = Elems(backlog[m].scheduled) \cup (Elems(queue) \cap Scheduled)
  <2>1. {queue[j] : j \in 1..Len(queue)} = Elems(queue)
    BY DEF Elems
  <2> QED
    BY <1>2, <2>1 DEF KeptSoFar, Backlog
<1>4. Elems(k.regular) \cap Scheduled = {} /\ Elems(k.scheduled) \subseteq Scheduled
  BY <1>3 DEF SInv, Lists, KindsApart
<1> DEFINE c == ScheduledRan(m)
           since == backlog[m].since
<1>5. /\ \A s : Late(m, s) \in Nat
      /\ c \in Nat /\ since \in 0..MaxRegular /\ MaxRegular * c \in Nat /\ MaxRegular \in Nat
      /\ MaxRegular * (c + 0) = MaxRegular * c
      /\ MaxRegular * (c + 1) = MaxRegular * c + MaxRegular
  BY Measures, Products
<1>6. ASSUME NEW s \in Elems(k.scheduled) PROVE Late(m, s) <= MaxRegular * c + since
  <2>1. CASE s \in Elems(queue)
    BY <1>5, <2>1, QueueUnpassed
  <2>2. CASE s \in Elems(backlog[m].scheduled)
    <3>1. PendingRegular(m) = 0 /\ PendingScheduled(m) = 0
      BY <1>1 DEF PendingRegular, PendingScheduled, AboutToRun
    <3>2. Late(m, s) + 0 <= MaxRegular * (c + 0) + since
      BY <2>2, <3>1 DEF PInv, Patient, Waits
    <3> QED
      BY <1>5, <3>2
  <2> QED
    BY <1>3, <2>1, <2>2
<1>7. /\ ScheduledRan(m)' = c
      /\ \A s : Cardinality(LateIn(ran', ticket', Len(ran'), m, s)) = Late(m, s)
  BY <1>1 DEF Late, ScheduledRan
<1> HIDE DEF c, since
<1>8. Patient(m)'
  <2>1. CASE next.batch = <<>>
    <3>1. k.scheduled = <<>> /\ next.rest = k
      BY <1>2, <2>1, PickFacts
    <3>2. Elems(backlog'[m].scheduled) = {} /\ pc'[m] \notin AboutToRun
      BY <1>1, <2>1, <3>1, ElemsEmpty
    <3> QED
      BY <3>2 DEF Patient, Waits, Ready, Elems
  <2>2. CASE /\ k.regular # <<>> /\ next.batch = k.regular
             /\ next.rest.scheduled = k.scheduled
             /\ k.scheduled # <<>> => next.rest.since = k.since + 1
    <3>1. pc'[m] \in AboutToRun /\ current'[m] = k.regular
          /\ backlog'[m].scheduled = k.scheduled
      BY <1>1, <2>2
    <3>2. Elems(k.regular) # {}
      BY <1>3, <2>2, ElemsNone
    <3>3. ~ (Elems(current'[m]) \subseteq Scheduled)
      BY <1>4, <3>1, <3>2
    <3>4. PendingRegular(m)' = 1 /\ PendingScheduled(m)' = 0
      BY <3>1, <3>3 DEF PendingRegular, PendingScheduled, Elems
    <3>5. ASSUME NEW s \in Elems(k.scheduled)
          PROVE  Cardinality(LateIn(ran', ticket', Len(ran'), m, s)) + 1
                    <= MaxRegular * (c + 0) + backlog'[m].since
      <4>1. k.scheduled # <<>>
        BY <3>5, ElemsEmpty
      <4>2. backlog'[m].since = since + 1
        BY <1>1, <1>3, <2>2, <4>1 DEF since
      <4> QED
        BY <1>5, <1>6, <1>7, <4>2
    <3>6. Waits(m)'
      BY <1>7, <3>1, <3>4, <3>5 DEF Waits, Late, Elems
    <3>7. Ready(m)'
      BY <1>4, <3>1 DEF Ready, IsScheduled, Elems
    <3> QED
      BY <3>6, <3>7 DEF Patient
  <2>3. CASE /\ k.scheduled # <<>> /\ next.batch = <<Head(k.scheduled)>>
             /\ next.rest.scheduled = Tail(k.scheduled) /\ next.rest.since = 0
    <3>1. /\ next.batch # <<>> /\ pc'[m] \in AboutToRun /\ current'[m] = <<Head(k.scheduled)>>
          /\ backlog'[m].scheduled = Tail(k.scheduled) /\ backlog'[m].since = 0
      BY <1>1, <2>3
    <3>2. /\ Elems(<<Head(k.scheduled)>>) = {Head(k.scheduled)}
          /\ Elems(k.scheduled) = {Head(k.scheduled)} \cup Elems(Tail(k.scheduled))
      BY <1>3, <2>3, ElemsOne, HeadFacts
    <3>3. Elems(current'[m]) \subseteq Scheduled
      BY <1>4, <3>1, <3>2
    <3>4. PendingRegular(m)' = 0 /\ PendingScheduled(m)' = 1
      BY <3>1, <3>3 DEF PendingRegular, PendingScheduled, Elems
    <3>5. ASSUME NEW s \in Elems(k.scheduled)
          PROVE  /\ Cardinality(LateIn(ran', ticket', Len(ran'), m, s)) + 0
                       <= MaxRegular * (c + 1) + backlog'[m].since
                 /\ Cardinality(LateIn(ran', ticket', Len(ran'), m, s)) <= MaxRegular * (c + 1)
      BY <1>5, <1>6, <1>7, <3>1, <3>5
    <3>6. Waits(m)'
      BY <1>7, <3>1, <3>2, <3>4, <3>5 DEF Waits, Late, Elems
    <3>7. Ready(m)'
      <4> SUFFICES ASSUME NEW s \in Elems(current'[m])
                   PROVE  Cardinality(LateIn(ran', ticket', Len(ran'), m, s)) <= MaxRegular * (c + 1)
        BY <1>7 DEF Ready, Late, Elems
      <4> QED
        BY <3>1, <3>2, <3>5
    <3> QED
      BY <3>6, <3>7 DEF Patient
  <2> QED
    BY <1>2, <2>1, <2>2, <2>3, PickFacts
<1>9. ASSUME NEW l \in Inbound, l # m PROVE Patient(l)'
  BY <1>1, <1>9, SamePatience DEF PInv
<1>10. \A j \in 1..Len(ran) : Served(ran', ticket', j)
  BY <1>1 DEF PInv
<1> QED
  BY <1>1, <1>8, <1>9, <1>10 DEF PInv

LEMMA NextPInv == IInv /\ Rest /\ SInv /\ PInv /\ [Next]_vars => PInv'
<1> SUFFICES ASSUME Shapes, Rest, SInv, PInv, [Next]_vars PROVE PInv'
  BY DEF IInv
<1>1. QueueWaits /\ used \in Counters
  BY DEF SInv, Whereabouts, Rest, TicketsOK
<1>2. ASSUME NEW m \in Inbound, Quiet(m) PROVE PInv'
  BY <1>1, <1>2, QuietStays, StaysPInv
<1>3. ASSUME NEW m \in Inbound, Submit(m) PROVE PInv'
  BY <1>3, SubmitPInv
<1>4. ASSUME NEW m \in Inbound, StartTurn(m) PROVE PInv'
  BY <1>4, StartPInv
<1>5. ASSUME NEW m \in Inbound, NEW next, Takes(m, next) PROVE PInv'
  BY <1>5, TakesPInv
<1>6. CASE Interrupt \/ SubagentsReport \/ UNCHANGED vars
  BY <1>1, <1>6, IdleStays, StaysPInv
<1> QED
  BY <1>2, <1>3, <1>4, <1>5, <1>6, Steps

\* A scheduled run is passed by at most MAX_REGULAR_BATCHES_BEFORE_SCHEDULED
\* batches of later messages, for itself and for each scheduled run ahead of it
\* (next_queued_inbound and its counter, handler/queue.rs:20-54; the bound its
\* test checks for one arrival order, :377).
THEOREM NotStarvedTheorem == Spec => []ScheduledNotStarved
<1>1. IInv /\ Rest /\ SInv /\ PInv /\ [Next]_vars => PInv'
  BY NextPInv
<1>2. PInv => ScheduledNotStarved
  BY ServedIs DEF PInv
<1> QED
  BY Placed, InitPInv, <1>1, <1>2, PTL DEF Spec

-----------------------------------------------------------------------------
(* A fate is final.  Whoever is still to run, or running, has none yet; and a *)
(* step that ends some messages ends messages that nobody else holds.         *)

Running(n) == IF pc[n] = "turn" THEN Elems(current[n]) ELSE {}
Holding == LoopPcs \ {"unwound"}

\* Nobody owes anything to a message that has ended.
OpenKept ==
    /\ \A m \in Inbound : pc[m] \in NotYet => fate[m] = "open"
    /\ \A m \in Elems(queue) : fate[m] = "open"
    /\ \A n \in Inbound : pc[n] \in Holding => \A m \in Kept(n) : fate[m] = "open"
    /\ \A n \in Inbound : \A m \in Running(n) : fate[m] = "open"
RunningRan ==
    \A n \in Inbound : \A m \in Running(n) :
        \E i \in 1..Len(ran) : ran[i].loop = n /\ ran[i].msg = m

FInv == OpenKept /\ RunningRan

\* What FateFinal says of a step.
FateStep ==
    /\ \A m \in Inbound : fate[m] # "open" => fate'[m] = fate[m]
    /\ \A i \in (Len(ran) + 1)..Len(ran') : fate[ran'[i].msg] = "open"

LEMMA InitFInv == Init => FInv
<1> SUFFICES ASSUME Init PROVE FInv
  OBVIOUS
<1>1. /\ Elems(queue) = {} /\ fate = [m \in Inbound |-> "open"]
      /\ \A n \in Inbound : pc[n] = "unsent"
  BY ElemsEmpty DEF Init
<1>2. \A n \in Inbound : Running(n) = {} /\ pc[n] \notin Holding
  BY <1>1 DEF Running, Holding, LoopPcs
<1> QED
  BY <1>1, <1>2 DEF FInv, OpenKept, RunningRan

\* The messages somebody runs are in nobody's hands but his.
LEMMA RunningAlone ==
    ASSUME Rest, SInv, FInv, NEW n \in Inbound, NEW m \in Running(n)
    PROVE  /\ m \in Inbound /\ m \in Ran /\ pc[m] \notin NotYet /\ m \notin Elems(queue)
           /\ \A k \in Inbound : m \notin Kept(k)
           /\ \A k \in Inbound : m \in Running(k) => k = n
<1>1. PICK i \in 1..Len(ran) : ran[i].loop = n /\ ran[i].msg = m
  BY DEF FInv, RunningRan
<1>2. m \in Inbound /\ m \in Ran /\ pc[m] \notin NotYet
  BY <1>1, PlacesTyped DEF Ran, SInv, Whereabouts, RanTaken
<1>3. m \notin Elems(queue) /\ \A k \in Inbound : m \notin Kept(k)
  BY <1>2 DEF SInv, Apart, QueueApart, RunApart
<1>4. ASSUME NEW k \in Inbound, m \in Running(k) PROVE k = n
  <2>1. PICK j \in 1..Len(ran) : ran[j].loop = k /\ ran[j].msg = m
    BY <1>4 DEF FInv, RunningRan
  <2>2. i = j
    BY <1>1, <2>1 DEF SInv, Past, RunOnce
  <2> QED
    BY <1>1, <2>1, <2>2
<1> QED
  BY <1>2, <1>3, <1>4

\* A step that moves no message and ends those of E, or none.
Ends(E) ==
    /\ UNCHANGED <<current, backlog, ran>>
    /\ queue' = queue \/ queue' = <<>>
    /\ \A x \in Inbound : x \notin E => fate'[x] = fate[x]
    /\ \A x \in E : fate[x] = "open" /\ x \notin Elems(queue')
    /\ \A n \in Inbound :
          /\ pc'[n] \in NotYet =>
                (pc[n] \in NotYet \/ n \in Elems(queue)) /\ n \notin E
          /\ pc'[n] \in Holding => /\ pc[n] \in Holding /\ Kept(n) \cap E = {}
                                   /\ pc'[n] \in AboutToRun => pc[n] \in AboutToRun
          /\ pc'[n] = "turn" => pc[n] = "turn" /\ Running(n) \cap E = {}

LEMMA EndsFInv ==
    ASSUME Rest, FInv, NEW E, Ends(E) PROVE FInv' /\ FateStep
<1>1. /\ Elems(queue) \subseteq Inbound
      /\ \A n \in Inbound : Kept(n) \subseteq Inbound /\ Elems(current[n]) \subseteq Inbound
  BY PlacesTyped
<1>2. FateStep
  <2>1. \A m \in Inbound : fate[m] # "open" => fate'[m] = fate[m]
    BY DEF Ends
  <2>2. Len(ran') = Len(ran) /\ Len(ran) \in Nat
    BY DEF Ends, Rest, RunOK
  <2>3. (Len(ran) + 1)..Len(ran') = {}
    BY <2>2
  <2> QED
    BY <2>1, <2>3 DEF FateStep
<1>3. \A m \in Inbound : pc'[m] \in NotYet => fate'[m] = "open"
  BY DEF Ends, FInv, OpenKept
<1>4. \A m \in Elems(queue') : fate'[m] = "open"
  <2>1. Elems(queue') \subseteq Elems(queue)
    BY ElemsEmpty DEF Ends
  <2> QED
    BY <1>1, <2>1 DEF Ends, FInv, OpenKept
<1>5. ASSUME NEW n \in Inbound, pc'[n] \in Holding, NEW m \in Kept(n)'
      PROVE  fate'[m] = "open"
  <2>1. /\ pc[n] \in Holding /\ Kept(n) \cap E = {}
        /\ pc'[n] \in AboutToRun => pc[n] \in AboutToRun
        /\ current' = current /\ backlog' = backlog
    BY <1>5 DEF Ends
  <2>2. m \in Kept(n)
    BY <1>5, <2>1 DEF Kept, Backlogged, Batch, Elems
  <2> QED
    BY <1>1, <2>1, <2>2 DEF Ends, FInv, OpenKept
<1>6. ASSUME NEW n \in Inbound, NEW m \in Running(n)'
      PROVE  /\ fate'[m] = "open"
             /\ \E i \in 1..Len(ran)' : ran'[i].loop = n /\ ran'[i].msg = m
  <2>1. /\ pc[n] = "turn" /\ Running(n) \cap E = {} /\ current' = current
        /\ ran' = ran
    BY <1>6 DEF Ends, Running
  <2>2. m \in Running(n)
    BY <1>6, <2>1 DEF Running, Elems
  <2>3. m \in Inbound
    BY <1>1, <2>2 DEF Running
  <2> QED
    BY <2>1, <2>2, <2>3 DEF Ends, FInv, OpenKept, RunningRan
<1>7. OpenKept'
  BY <1>3, <1>4, <1>5, <1>6 DEF OpenKept, Elems
<1> QED
  BY <1>2, <1>6, <1>7 DEF FInv, RunningRan


LEMMA QuietEnds ==
    ASSUME Shapes, Rest, SInv, FInv, NEW m \in Inbound, Quiet(m)
    PROVE  \E E : Ends(E)
<1> USE DEF Holding, AboutToRun, NotYet, LoopPcs
<1>0. /\ pc \in [Inbound -> {"unsent", "spawned", "absent", "done"} \cup LoopPcs]
      /\ fate \in [Inbound -> {"open", "completed", "interrupted", "panicked",
                               "forgotten", "overwritten"}]
      /\ Elems(queue) \subseteq Inbound
      /\ \A n \in Inbound : Kept(n) \subseteq Inbound
  BY PlacesTyped DEF Shapes, Rest, FateOK
<1>00. /\ \A n \in Inbound : Running(n) \subseteq Inbound
       /\ \A x \in Elems(queue) : fate[x] = "open" /\ pc[x] = "absent"
  BY PlacesTyped DEF Running, FInv, OpenKept, SInv, Whereabouts, QueueWaits
<1>1. CASE \/ Post(m) \/ FinishActiveTurn(m) \/ WaitForSubagents(m) \/ NoSubagents(m)
           \/ StartSubagent(m) \/ ForceFailSubagents(m) \/ ForceFailLost(m)
  <2>1. /\ UNCHANGED <<current, backlog, ran, queue, fate>>
        /\ \A n \in Inbound : n # m => pc'[n] = pc[n]
        /\ \/ pc[m] = "unsent" /\ pc'[m] = "spawned"
           \/ pc[m] \in Holding \ AboutToRun /\ pc'[m] \in Holding \ AboutToRun
              /\ (pc'[m] = "turn" => pc[m] = "turn")
    <3>1. CASE Post(m)
      BY <1>0, <3>1 DEF Post, data, history
    <3>2. CASE FinishActiveTurn(m)
      BY <1>0, <3>2 DEF FinishActiveTurn, history
    <3>3. CASE WaitForSubagents(m)
      BY <1>0, <3>3 DEF WaitForSubagents, history
    <3>4. CASE NoSubagents(m)
      BY <1>0, <3>4 DEF NoSubagents, data, history
    <3>5. CASE StartSubagent(m)
      BY <1>0, <3>5 DEF StartSubagent, control
    <3>6. CASE ForceFailSubagents(m)
      BY <1>0, <3>6 DEF ForceFailSubagents, history
    <3>7. CASE ForceFailLost(m)
      BY <1>0, <3>7 DEF ForceFailLost, data, history
    <3> QED
      BY <1>1, <3>1, <3>2, <3>3, <3>4, <3>5, <3>6, <3>7
  <2>2. Ends({})
    BY <2>1 DEF Ends
  <2> QED
    BY <2>2
<1>2. CASE Decide(m)
  <2>1. /\ UNCHANGED <<current, backlog, ran, queue>>
        /\ pc[m] = "turn" /\ pc' = [pc EXCEPT ![m] = "report"]
        /\ \A x \in Inbound : x \notin Elems(current[m]) => fate'[x] = fate[x]
    BY <1>2 DEF Decide
  <2>2. Running(m) = Elems(current[m])
    BY <2>1 DEF Running
  <2>3. \A x \in Running(m) :
           /\ fate[x] = "open" /\ x \in Inbound /\ pc[x] \notin NotYet /\ x \notin Elems(queue)
           /\ \A k \in Inbound : x \notin Kept(k)
           /\ \A k \in Inbound : x \in Running(k) => k = m
    BY RunningAlone DEF FInv, OpenKept
  <2>4. Ends(Running(m))
    BY <1>0, <1>00, <2>1, <2>2, <2>3 DEF Ends
  <2> QED
    BY <2>4
<1>3. CASE FinishInterrupted(m)
  <2>1. /\ UNCHANGED <<current, backlog, ran>> /\ queue' = <<>> /\ pc[m] = "interrupted"
        /\ \A n \in Inbound : pc'[n] = IF n = m THEN "done"
                                       ELSE IF n \in Elems(queue) THEN "spawned" ELSE pc[n]
        /\ \A x \in Inbound : x \notin Backlogged(m) => fate'[x] = fate[x]
    BY <1>3 DEF FinishInterrupted, Backlogged
  <2>2. \A x \in Backlogged(m) : x \in Kept(m)
    BY DEF Kept
  <2>3. \A x \in Backlogged(m) :
           /\ fate[x] = "open" /\ x \in Inbound /\ pc[x] \notin NotYet /\ x \notin Elems(queue)
           /\ x \notin Ran
           /\ \A k \in Inbound : x \in Kept(k) => k = m
    BY <1>0, <2>1, <2>2 DEF FInv, OpenKept, SInv, Whereabouts, KeptTaken, Apart, QueueApart, RunApart,
       LoopsApart
  <2>4. \A k \in Inbound : Running(k) \cap Backlogged(m) = {}
    BY <2>3, RunningAlone
  <2>5. Ends(Backlogged(m))
    <3>1. \A n \in Inbound : pc'[n] \in NotYet => pc[n] \in NotYet \/ n \in Elems(queue)
      BY <2>1
    <3>2. \A n \in Inbound : pc'[n] \in NotYet => n \notin Backlogged(m)
      BY <2>3, <3>1
    <3>3. \A n \in Inbound : pc'[n] \in Holding \cup {"turn"} => pc'[n] = pc[n] /\ n # m
      BY <2>1
    <3>4. \A x \in Backlogged(m) : x \notin Elems(queue')
      BY <2>1, ElemsEmpty
    <3> QED
      BY <2>1, <2>3, <2>4, <3>1, <3>2, <3>3, <3>4 DEF Ends
  <2> QED
    BY <2>5
<1>4. CASE Reserve(m) \/ PanicRelease(m)
  <2>1. /\ UNCHANGED <<current, backlog, ran>> /\ queue' = <<>>
        /\ \A n \in Inbound : n # m => pc'[n] = pc[n]
        /\ (pc[m] = "gap" /\ pc'[m] = "start") \/ (pc[m] = "unwound" /\ pc'[m] = "done")
        /\ \A x \in Inbound : x \notin Elems(queue) => fate'[x] = fate[x]
    <3>1. CASE Reserve(m)
      BY <1>0, <3>1 DEF Reserve
    <3>2. CASE PanicRelease(m)
      BY <1>0, <3>2 DEF PanicRelease
    <3> QED
      BY <1>4, <3>1, <3>2
  <2>2. \A x \in Elems(queue) : \A k \in Inbound : x \notin Kept(k) /\ x \notin Running(k)
    BY RunningAlone DEF SInv, Apart, QueueApart
  <2>3. Ends(Elems(queue))
    BY <1>0, <1>00, <2>1, <2>2, ElemsEmpty DEF Ends
  <2> QED
    BY <2>3
<1>5. CASE Panic(m)
  <2> DEFINE E == Running(m) \cup Backlogged(m)
  <2>1. /\ UNCHANGED <<current, backlog, ran, queue>>
        /\ pc[m] = "turn" /\ pc' = [pc EXCEPT ![m] = "unwound"]
        /\ \A x \in Inbound : x \notin Elems(current[m]) \cup Backlogged(m) => fate'[x] = fate[x]
    BY <1>5 DEF Panic, Backlogged
  <2>2. Running(m) = Elems(current[m])
    BY <2>1 DEF Running
  <2>3. \A x \in Running(m) :
           /\ fate[x] = "open" /\ x \in Inbound /\ pc[x] \notin NotYet /\ x \notin Elems(queue)
           /\ \A k \in Inbound : x \notin Kept(k)
           /\ \A k \in Inbound : x \in Running(k) => k = m
    BY RunningAlone DEF FInv, OpenKept
  <2>4. \A x \in Backlogged(m) : x \in Kept(m)
    BY DEF Kept
  <2>5. \A x \in Backlogged(m) :
           /\ fate[x] = "open" /\ x \in Inbound /\ pc[x] \notin NotYet /\ x \notin Elems(queue)
           /\ \A k \in Inbound : x \in Kept(k) => k = m
    BY <1>0, <2>1, <2>4 DEF FInv, OpenKept, SInv, Whereabouts, KeptTaken, Apart, QueueApart, LoopsApart
  <2>6. \A x \in Backlogged(m) : \A k \in Inbound : x \notin Running(k)
    BY <2>4, RunningAlone
  <2>7. \A x \in E : /\ fate[x] = "open" /\ x \in Inbound /\ pc[x] \notin NotYet
                     /\ x \notin Elems(queue)
                     /\ \A k \in Inbound : x \in Kept(k) \/ x \in Running(k) => k = m
    BY <2>3, <2>5, <2>6
  <2>8. \A x \in Inbound : x \notin E => fate'[x] = fate[x]
    BY <2>1, <2>2
  <2> HIDE DEF E
  <2>9. Ends(E)
    BY <1>0, <1>00, <2>1, <2>7, <2>8 DEF Ends
  <2> QED
    BY <2>9
<1> QED
  BY <1>1, <1>2, <1>3, <1>4, <1>5 DEF Quiet

LEMMA IdleEnds == ASSUME Interrupt \/ SubagentsReport \/ UNCHANGED vars PROVE Ends({})
BY DEF Ends, Interrupt, SubagentsReport, vars, control, data, history


LEMMA SameRan == ASSUME Rest, ran' = ran, fate' = fate PROVE FateStep
<1>1. Len(ran') = Len(ran) /\ Len(ran) \in Nat
  BY DEF Rest, RunOK
<1>2. (Len(ran) + 1)..Len(ran') = {}
  BY <1>1
<1> QED
  BY <1>2 DEF FateStep

LEMMA SubmitFInv ==
    ASSUME Shapes, Rest, SInv, FInv, NEW m \in Inbound, Submit(m) PROVE FInv' /\ FateStep
<1>1. /\ pc[m] = "spawned" /\ fate' = fate /\ ran' = ran
      /\ pc' = [pc EXCEPT ![m] = IF reserved THEN "absent" ELSE "start"]
      /\ reserved => queue' = Append(queue, m) /\ UNCHANGED <<current, backlog>>
      /\ ~reserved => /\ queue' = <<>> /\ current' = [current EXCEPT ![m] = <<m>>]
                      /\ backlog' = [backlog EXCEPT ![m] = EmptyBacklog]
  BY DEF Submit, RunNow, Enqueue
<1>2. /\ \A n \in Inbound : n # m => pc'[n] = pc[n] /\ current'[n] = current[n]
                                     /\ backlog'[n] = backlog[n]
      /\ pc'[m] \in {"absent", "start"}
      /\ pc'[m] = "start" => current'[m] = <<m>> /\ backlog'[m] = EmptyBacklog
  BY <1>1 DEF Shapes, Rest, DataOK
<1>3. fate[m] = "open"
  BY <1>1 DEF FInv, OpenKept, NotYet
<1>4. \A x \in Elems(queue') : fate[x] = "open"
  <2>1. queue \in Seq(Inbound)
    BY DEF Rest, DataOK
  <2>3. Elems(Append(queue, m)) = Elems(queue) \cup {m}
    BY <2>1, AppendFacts
  <2>2. Elems(queue') \subseteq Elems(queue) \cup {m}
    BY <1>1, <2>3, ElemsEmpty
  <2> QED
    BY <1>3, <2>2 DEF FInv, OpenKept
<1>5. \A n \in Inbound : n # m =>
         /\ pc'[n] \in Holding => \A x \in Kept(n)' : fate'[x] = "open"
         /\ \A x \in Running(n)' : fate'[x] = "open"
         /\ Running(n)' = Running(n)
  <2> SUFFICES ASSUME NEW n \in Inbound, n # m
               PROVE  /\ pc'[n] \in Holding => \A x \in Kept(n)' : fate'[x] = "open"
                      /\ \A x \in Running(n)' : fate'[x] = "open"
                      /\ Running(n)' = Running(n)
    OBVIOUS
  <2>2. pc'[n] = pc[n] /\ current'[n] = current[n] /\ backlog'[n] = backlog[n]
    BY <1>2
  <2>1. Kept(n)' = Kept(n) /\ Running(n)' = Running(n)
    BY <2>2 DEF Kept, Backlogged, Batch, Running, Elems
  <2> QED
    BY <1>1, <2>1, <2>2 DEF FInv, OpenKept
<1>6. /\ Running(m)' = {}
      /\ pc'[m] \in Holding => \A x \in Kept(m)' : fate'[x] = "open"
  <2>1. Running(m)' = {}
    BY <1>2 DEF Running
  <2>2. ASSUME pc'[m] \in Holding, NEW x \in Kept(m)' PROVE fate'[x] = "open"
    <3>1. pc'[m] = "start"
      BY <1>2, <2>2 DEF Holding, LoopPcs
    <3>2. backlog'[m].regular = <<>> /\ backlog'[m].scheduled = <<>>
      BY <1>2, <3>1 DEF EmptyBacklog
    <3>4. Elems(backlog'[m].regular) = {} /\ Elems(backlog'[m].scheduled) = {}
      BY <3>2, ElemsEmpty
    <3>5. Elems(current'[m]) = {m}
      BY <1>2, <3>1, ElemsOne
    <3>3. Backlogged(m)' = {} /\ Batch(m)' = {m}
      BY <3>1, <3>4, <3>5 DEF Backlogged, Batch, AboutToRun, Elems
    <3> QED
      BY <1>1, <1>3, <2>2, <3>3 DEF Kept
  <2> QED
    BY <2>1, <2>2
<1>7. OpenKept'
  <2>1. \A n \in Inbound : pc'[n] \in NotYet => fate'[n] = "open"
    BY <1>1, <1>2 DEF FInv, OpenKept, NotYet
  <2>2. \A x \in Elems(queue)' : fate'[x] = "open"
    BY <1>1, <1>4 DEF Elems
  <2> QED
    BY <1>5, <1>6, <2>1, <2>2 DEF OpenKept
<1>8. RunningRan'
  <2> SUFFICES ASSUME NEW n \in Inbound, NEW x \in Running(n)'
               PROVE  \E i \in 1..Len(ran) : ran[i].loop = n /\ ran[i].msg = x
    BY <1>1 DEF RunningRan
  <2>1. n # m
    BY <1>6
  <2> QED
    BY <1>5, <2>1 DEF FInv, RunningRan
<1> QED
  BY <1>1, <1>7, <1>8, SameRan DEF FInv

LEMMA StartFInv ==
    ASSUME Shapes, Rest, FInv, NEW m \in Inbound, StartTurn(m) PROVE FInv' /\ FateStep
<1>1. /\ pc[m] = "start" /\ pc' = [pc EXCEPT ![m] = "turn"]
      /\ UNCHANGED <<queue, current, backlog, fate>>
  BY DEF StartTurn
<1>2. pc'[m] = "turn" /\ \A n \in Inbound : n # m => pc'[n] = pc[n]
  BY <1>1 DEF Shapes
<1>3. /\ Len(ran) \in Nat /\ Len(current[m]) \in Nat
      /\ Len(ran') = Len(ran) + Len(current[m])
      /\ \A k \in 1..Len(ran) : ran'[k] = ran[k]
      /\ \A k \in 1..Len(current[m]) :
            /\ ran'[Len(ran) + k].loop = m
            /\ ran'[Len(ran) + k].msg = current[m][k]
  BY Starts DEF Rest
<1>4. \A x \in Elems(current[m]) : x \in Kept(m) /\ fate[x] = "open"
  BY <1>1 DEF FInv, OpenKept, Kept, Batch, AboutToRun, Holding, LoopPcs
<1>5. FateStep
  <2> SUFFICES ASSUME NEW i \in (Len(ran) + 1)..Len(ran') PROVE fate[ran'[i].msg] = "open"
    BY <1>1 DEF FateStep
  <2>1. i \in 1..Len(ran') /\ i \notin 1..Len(ran)
    BY <1>3
  <2>2. ran'[i].msg \in Elems(current[m])
    BY <2>1, StartCases
  <2> QED
    BY <1>4, <2>2
<1>6. /\ \A n \in Inbound : n # m => Kept(n)' = Kept(n) /\ Running(n)' = Running(n)
      /\ Kept(m)' \subseteq Kept(m) /\ Running(m)' = Elems(current[m])
  BY <1>1, <1>2 DEF Kept, Backlogged, Batch, Running, Elems, AboutToRun
<1>7. OpenKept'
  <2>1. \A n \in Inbound : pc'[n] \in NotYet => fate'[n] = "open"
    BY <1>1, <1>2 DEF FInv, OpenKept, NotYet
  <2>2. \A x \in Elems(queue)' : fate'[x] = "open"
    BY <1>1 DEF Elems, FInv, OpenKept
  <2>3. \A n \in Inbound : pc'[n] \in Holding => \A x \in Kept(n)' : fate'[x] = "open"
    BY <1>1, <1>2, <1>6 DEF FInv, OpenKept, Holding, LoopPcs
  <2>4. \A n \in Inbound : \A x \in Running(n)' : fate'[x] = "open"
    BY <1>1, <1>4, <1>6 DEF FInv, OpenKept
  <2> QED
    BY <2>1, <2>2, <2>3, <2>4 DEF OpenKept
<1>8. RunningRan'
  <2> SUFFICES ASSUME NEW n \in Inbound, NEW x \in Running(n)'
               PROVE  \E i \in 1..Len(ran') : ran'[i].loop = n /\ ran'[i].msg = x
    BY DEF RunningRan
  <2>1. CASE n = m
    <3>1. PICK k \in 1..Len(current[m]) : current[m][k] = x
      BY <1>6, <2>1 DEF Elems
    <3>2. Len(ran) + k \in 1..Len(ran')
      BY <1>3
    <3> QED
      BY <1>3, <2>1, <3>1, <3>2
  <2>2. CASE n # m
    <3>1. PICK i \in 1..Len(ran) : ran[i].loop = n /\ ran[i].msg = x
      BY <1>6, <2>2 DEF FInv, RunningRan
    <3>2. i \in 1..Len(ran') /\ ran'[i] = ran[i]
      BY <1>3
    <3> QED
      BY <3>1, <3>2
  <2> QED
    BY <2>1, <2>2
<1> QED
  BY <1>5, <1>7, <1>8 DEF FInv

LEMMA TakesFInv ==
    ASSUME Shapes, Rest, SInv, FInv, NEW m \in Inbound, NEW next, Takes(m, next)
    PROVE  FInv' /\ FateStep
<1>1. /\ fate' = fate /\ ran' = ran /\ queue' = <<>> /\ pc[m] \in {"poll", "again", "finish"}
      /\ pc'[m] \in {"start", "gap", "check", "finish", "done"}
      /\ backlog'[m] = next.rest
      /\ pc'[m] \in AboutToRun => current'[m] = next.batch
      /\ \A n \in Inbound : n # m => pc'[n] = pc[n] /\ current'[n] = current[n]
                                     /\ backlog'[n] = backlog[n]
  <2>1. CASE next.batch # <<>>
    BY <2>1 DEF Takes, Shapes, Rest, DataOK, history, AboutToRun
  <2>2. CASE next.batch = <<>>
    BY <2>2 DEF Takes, Shapes, Rest, DataOK, history, AboutToRun
  <2> QED
    BY <2>1, <2>2
<1>2. Deals(backlog[m], queue, next.batch, next.rest)
  BY TakesDeals
<1>3. \A x \in Backlogged(m) \cup Elems(queue) : fate[x] = "open"
  BY <1>1 DEF FInv, OpenKept, Kept, Holding, LoopPcs
<1>4. Running(m)' = {} /\ Kept(m)' \subseteq Backlogged(m) \cup Elems(queue)
  <2>1. Backlogged(m)' = Elems(next.rest.regular) \cup Elems(next.rest.scheduled)
    BY <1>1 DEF Backlogged, Elems
  <2>2. Batch(m)' \subseteq Elems(next.batch)
    BY <1>1 DEF Batch, Elems
  <2>3. Kept(m)' = Backlogged(m)' \cup Batch(m)'
    BY DEF Kept
  <2>4. Running(m)' = {}
    BY <1>1 DEF Running
  <2> QED
    BY <1>2, <2>1, <2>2, <2>3, <2>4 DEF Deals, Backlogged
<1>5. \A n \in Inbound : n # m => Kept(n)' = Kept(n) /\ Running(n)' = Running(n)
  <2> SUFFICES ASSUME NEW n \in Inbound, n # m
               PROVE  Kept(n)' = Kept(n) /\ Running(n)' = Running(n)
    OBVIOUS
  <2>1. pc'[n] = pc[n] /\ current'[n] = current[n] /\ backlog'[n] = backlog[n]
    BY <1>1
  <2> QED
    BY <2>1 DEF Kept, Backlogged, Batch, Running, Elems
<1>6. OpenKept'
  <2>1. \A n \in Inbound : pc'[n] \in NotYet => fate'[n] = "open"
    BY <1>1 DEF FInv, OpenKept, NotYet
  <2>2. Elems(queue)' = {}
    BY <1>1, ElemsEmpty DEF Elems
  <2>3. \A n \in Inbound : pc'[n] \in Holding => \A x \in Kept(n)' : fate'[x] = "open"
    BY <1>1, <1>3, <1>4, <1>5 DEF FInv, OpenKept
  <2>4. \A n \in Inbound : \A x \in Running(n)' : fate'[x] = "open"
    BY <1>1, <1>4, <1>5 DEF FInv, OpenKept
  <2> QED
    BY <2>1, <2>2, <2>3, <2>4 DEF OpenKept
<1>7. RunningRan'
  BY <1>1, <1>4, <1>5 DEF FInv, RunningRan
<1> QED
  BY <1>1, <1>6, <1>7, SameRan DEF FInv

LEMMA NextFInv == IInv /\ Rest /\ SInv /\ FInv /\ [Next]_vars => FInv' /\ FateStep
<1> SUFFICES ASSUME Shapes, Rest, SInv, FInv, [Next]_vars PROVE FInv' /\ FateStep
  BY DEF IInv
<1>1. ASSUME NEW m \in Inbound, Quiet(m) PROVE FInv' /\ FateStep
  BY <1>1, QuietEnds, EndsFInv
<1>2. ASSUME NEW m \in Inbound, StartTurn(m) PROVE FInv' /\ FateStep
  BY <1>2, StartFInv
<1>3. ASSUME NEW m \in Inbound, Submit(m) PROVE FInv' /\ FateStep
  BY <1>3, SubmitFInv
<1>4. ASSUME NEW m \in Inbound, NEW next, Takes(m, next) PROVE FInv' /\ FateStep
  BY <1>4, TakesFInv
<1>5. CASE Interrupt \/ SubagentsReport \/ UNCHANGED vars
  BY <1>5, IdleEnds, EndsFInv
<1> QED
  BY <1>1, <1>2, <1>3, <1>4, <1>5, Steps

\* What became of a message is settled once: a message that ran, was cut short,
\* fell to a panic, was forgotten with an interrupted loop's backlog or lost in
\* the gap keeps that fate and starts no turn (handler.rs:540-561, 627-646,
\* main.rs:328-364).
THEOREM FateTheorem == Spec => FateFinal
<1>1. IInv /\ Rest /\ SInv /\ FInv /\ [Next]_vars => FInv'
  BY NextFInv
<1>2. IInv /\ Rest /\ SInv /\ FInv /\ [Next]_vars => [FateStep]_vars
  BY NextFInv
<1> QED
  BY Placed, InitFInv, <1>1, <1>2, PTL DEF Spec, FateFinal, FateStep
=============================================================================
