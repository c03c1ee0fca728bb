------------------------- MODULE SessionTurnsProofs -------------------------
(***************************************************************************)
(* Theorems about SessionTurns for any messages, workers and bounds: the   *)
(* queue has one deliverer, its rows reach the runtime in order, and none  *)
(* reaches it twice unless its sender could not write down that it had.    *)
(* The session's turn plays no part in these.  Late events set the session *)
(* idle at any time; what protects the queue is that a claim takes only    *)
(* the first row that is not delivered, and only if its lease is free.     *)
(* And an idle session with rows to deliver has somebody who will look at  *)
(* them, or is left by a release that enqueues nothing.                    *)
(***************************************************************************)
EXTENDS SessionTurns, TLAPS

WorkerState == [at : {"idle", "post", "record", "release", "unlock",
                      "release drained", "unlock drained"},
                msg : Messages \cup {None}, try : 0..MaxRetry]

\* The part of TypeOK the argument uses.
Shapes ==
    /\ queue \in Seq(Messages)
    /\ row \in [Messages -> {"none", "pending", "processing", "delivered"}]
    /\ leased \in [Messages -> BOOLEAN]
    /\ worker \in [Workers -> WorkerState]
    /\ sender \in [Messages -> {"new", "post", "record", "release", "enqueue", "done"}]
    /\ posted \in Seq(Messages)

\* A message joins the queue once, before anybody posts it; one that is posted
\* directly never joins it.
QueueDistinct == \A i, j \in 1..Len(queue) : queue[i] = queue[j] => i = j
NewIsUnknown ==
    \A m \in Messages : sender[m] = "new" =>
        m \notin Elems(queue) /\ m \notin Elems(posted)
DirectIsNotQueued ==
    \A m \in Posts : sender[m] = "post" => m \notin Elems(queue)

\* Who holds a row holds its lease, and everything before it is delivered.
HolderLeases ==
    \A w \in Workers : Holding(w) =>
        /\ worker[w].msg \in Elems(queue)
        /\ row[worker[w].msg] = "processing"
        /\ leased[worker[w].msg]
HolderIsFirst ==
    \A w \in Workers : Holding(w) =>
        \A i, j \in 1..Len(queue) :
            queue[i] = worker[w].msg /\ j < i => row[queue[j]] = "delivered"

\* A row is marked delivered after the runtime has the message.
RecordedIsPosted ==
    \A w \in Workers : worker[w].at = "record" => worker[w].msg \in Elems(posted)
DeliveredIsPosted ==
    \A m \in Messages : row[m] = "delivered" => m \in Elems(posted)

QueueInv == QueueDistinct /\ NewIsUnknown /\ DirectIsNotQueued
HolderInv == HolderLeases /\ HolderIsFirst /\ OneDeliverer
PostInv == RecordedIsPosted /\ DeliveredIsPosted /\ PostedInOrder

IInv == Shapes /\ QueueInv /\ HolderInv /\ PostInv
-----------------------------------------------------------------------------
LEMMA AppendFacts ==
    ASSUME NEW S, NEW s \in Seq(S), NEW e \in S
    PROVE  /\ Append(s, e) \in Seq(S)
           /\ Len(Append(s, e)) = Len(s) + 1
           /\ \A i \in 1..Len(s) : Append(s, e)[i] = s[i]
           /\ Append(s, e)[Len(s) + 1] = e
           /\ Elems(Append(s, e)) = Elems(s) \cup {e}
<1>1. /\ Append(s, e) \in Seq(S)
      /\ Len(Append(s, e)) = Len(s) + 1
      /\ \A i \in 1..Len(s) : Append(s, e)[i] = s[i]
      /\ Append(s, e)[Len(s) + 1] = e
  OBVIOUS
<1>2. Len(s) \in Nat
  OBVIOUS
<1>3. Elems(Append(s, e)) = Elems(s) \cup {e}
  BY <1>1, <1>2 DEF Elems
<1> QED
  BY <1>1, <1>3

LEMMA InitIInv == Init => IInv
<1> SUFFICES ASSUME Init PROVE IInv
  OBVIOUS
<1>1. Elems(queue) = {} /\ Elems(posted) = {} /\ Len(queue) = 0
  BY DEF Init, Elems
<1>2. Shapes
  BY BoundsAssumption DEF Init, Shapes, WorkerState, Idle
<1>3. \A w \in Workers : worker[w].at = "idle"
  BY DEF Init, Idle
<1>4. \A m \in Messages : row[m] = "none" /\ sender[m] = "new"
  BY DEF Init
<1>5. QueueInv
  BY <1>1, <1>4 DEF QueueInv, QueueDistinct, NewIsUnknown, DirectIsNotQueued
<1>6. HolderInv
  BY <1>3 DEF HolderInv, HolderLeases, HolderIsFirst, OneDeliverer, Holding
<1>7. PostInv
  BY <1>1, <1>3, <1>4 DEF PostInv, RecordedIsPosted, DeliveredIsPosted, PostedInOrder
<1> QED
  BY <1>2, <1>5, <1>6, <1>7 DEF IInv

\* The steps that touch neither rows nor workers nor what the runtime accepted.
core == <<queue, row, leased, worker, sender, posted>>
LEMMA CoreIInv == IInv /\ UNCHANGED core => IInv'
<1> SUFFICES ASSUME IInv, UNCHANGED core PROVE IInv'
  OBVIOUS
<1> USE DEF core
<1>1. Elems(queue)' = Elems(queue) /\ Elems(posted)' = Elems(posted)
  BY DEF Elems
<1>2. \A w \in Workers : Holding(w)' = Holding(w)
  BY DEF Holding
<1>3. Shapes'
  BY DEF IInv, Shapes
<1>4. QueueInv'
  BY <1>1 DEF IInv, QueueInv, QueueDistinct, NewIsUnknown, DirectIsNotQueued
<1>5. HolderInv'
  BY <1>1, <1>2 DEF IInv, HolderInv, HolderLeases, HolderIsFirst, OneDeliverer
<1>6. PostInv'
  BY <1>1 DEF IInv, PostInv, RecordedIsPosted, DeliveredIsPosted, PostedInOrder
<1> QED
  BY <1>3, <1>4, <1>5, <1>6 DEF IInv
-----------------------------------------------------------------------------
(* The senders. *)

\* A message joins the queue at its end.
LEMMA JoinIInv ==
    ASSUME IInv, NEW m \in Messages, NEW next \in {"done", "enqueue"},
           sender[m] = "new",
           queue' = Append(queue, m),
           row' = [row EXCEPT ![m] = "pending"],
           sender' = [sender EXCEPT ![m] = next],
           UNCHANGED <<leased, worker, posted>>
    PROVE  IInv'
<1> USE DEF IInv
<1>1. /\ queue' \in Seq(Messages)
      /\ Len(queue') = Len(queue) + 1 /\ Len(queue) \in Nat
      /\ \A i \in 1..Len(queue) : queue'[i] = queue[i]
      /\ queue'[Len(queue) + 1] = m
      /\ Elems(queue)' = Elems(queue) \cup {m}
      /\ Elems(posted)' = Elems(posted)
  BY AppendFacts DEF Shapes, Elems
<1>2. m \notin Elems(queue) /\ m \notin Elems(posted)
  BY DEF QueueInv, NewIsUnknown
<1>3. \A i \in 1..Len(queue) : queue[i] # m
  BY <1>2 DEF Elems
<1>4. \A i \in 1..Len(queue)' : i \in 1..Len(queue) \/ i = Len(queue) + 1
  BY <1>1
<1>5. Shapes'
  BY <1>1 DEF Shapes
<1>6. QueueInv'
  <2>1. QueueDistinct'
    BY <1>1, <1>3, <1>4 DEF QueueInv, QueueDistinct
  <2>2. NewIsUnknown' /\ DirectIsNotQueued'
    BY <1>1, <1>2 DEF QueueInv, NewIsUnknown, DirectIsNotQueued, Shapes, Messages
  <2> QED
    BY <2>1, <2>2 DEF QueueInv
<1>7. HolderInv'
  <2>1. \A w \in Workers : Holding(w)' = Holding(w)
    BY DEF Holding
  <2>2. \A w \in Workers : Holding(w) => worker[w].msg # m
    BY <1>2 DEF HolderInv, HolderLeases
  <2>3. HolderLeases'
    BY <1>1, <2>1, <2>2 DEF HolderInv, HolderLeases, Shapes
  <2>4. HolderIsFirst'
    <3> SUFFICES ASSUME NEW w \in Workers, Holding(w),
                        NEW i \in 1..Len(queue)', NEW j \in 1..Len(queue)',
                        queue'[i] = worker[w].msg, j < i
                 PROVE  row'[queue'[j]] = "delivered"
      BY <2>1 DEF HolderIsFirst
    <3>1. i \in 1..Len(queue) /\ j \in 1..Len(queue)
      BY <1>1, <1>4, <2>2
    <3>2. row[queue[j]] = "delivered" /\ queue[j] # m
      BY <1>1, <1>3, <3>1 DEF HolderInv, HolderIsFirst
    <3> QED
      BY <1>1, <3>1, <3>2 DEF Shapes
  <2> QED
    BY <2>1, <2>3, <2>4 DEF HolderInv, OneDeliverer
<1>8. PostInv'
  <2>1. RecordedIsPosted' /\ DeliveredIsPosted'
    BY <1>1, <1>2 DEF PostInv, RecordedIsPosted, DeliveredIsPosted, Shapes
  <2>2. PostedInOrder'
    <3>1. ASSUME NEW i \in 1..Len(queue)', NEW j \in 1..Len(queue)',
                 i < j, queue'[j] \in Elems(posted)
          PROVE  \E p \in 1..Len(posted) :
                     /\ posted[p] = queue'[i]
                     /\ \A q \in 1..(p - 1) : posted[q] # queue'[j]
      <4>1. j \in 1..Len(queue) /\ i \in 1..Len(queue)
        BY <1>1, <1>2, <1>4, <3>1
      <4> QED
        BY <1>1, <3>1, <4>1 DEF PostInv, PostedInOrder
    <3>2. posted' = posted /\ Elems(posted)' = Elems(posted)
      BY <1>1
    <3> QED
      BY ONLY <3>1, <3>2 DEF PostedInOrder
  <2> QED
    BY <2>1, <2>2 DEF PostInv
<1> QED
  BY <1>5, <1>6, <1>7, <1>8

\* A sender moves on, and the message stays where it is.
LEMMA SenderIInv ==
    ASSUME IInv, NEW m \in Messages,
           NEW next \in {"post", "record", "release", "done"},
           sender' = [sender EXCEPT ![m] = next],
           next = "post" => m \notin Elems(queue),
           UNCHANGED <<queue, row, leased, worker, posted>>
    PROVE  IInv'
<1> USE DEF IInv
<1>1. Elems(queue)' = Elems(queue) /\ Elems(posted)' = Elems(posted)
  BY DEF Elems
<1>2. \A w \in Workers : Holding(w)' = Holding(w)
  BY DEF Holding
<1>3. Shapes'
  BY DEF Shapes
<1>4. QueueInv'
  BY <1>1 DEF Shapes, QueueInv, QueueDistinct, NewIsUnknown, DirectIsNotQueued, Messages
<1>5. HolderInv'
  BY <1>1, <1>2 DEF HolderInv, HolderLeases, HolderIsFirst, OneDeliverer
<1>6. PostInv'
  BY <1>1 DEF PostInv, RecordedIsPosted, DeliveredIsPosted, PostedInOrder
<1> QED
  BY <1>3, <1>4, <1>5, <1>6

\* The runtime accepts a message whose predecessors in the queue it has had.
LEMMA AcceptInOrder ==
    ASSUME IInv, NEW m \in Messages,
           posted' = Append(posted, m), UNCHANGED queue,
           \A i, j \in 1..Len(queue) : queue[j] = m /\ i < j => queue[i] \in Elems(posted)
    PROVE  PostedInOrder'
<1>1. /\ Len(posted') = Len(posted) + 1 /\ Len(posted) \in Nat
      /\ \A p \in 1..Len(posted) : posted'[p] = posted[p]
      /\ Elems(posted)' = Elems(posted) \cup {m}
  BY AppendFacts DEF IInv, Shapes
<1> SUFFICES ASSUME NEW i \in 1..Len(queue), NEW j \in 1..Len(queue),
                    i < j, queue[j] \in Elems(posted)'
             PROVE  \E p \in 1..Len(posted') :
                        /\ posted'[p] = queue[i]
                        /\ \A q \in 1..(p - 1) : posted'[q] # queue[j]
  BY DEF PostedInOrder
<1>2. \E p \in 1..Len(posted) :
          /\ posted[p] = queue[i]
          /\ \A q \in 1..(p - 1) : posted[q] # queue[j]
  <2>1. CASE queue[j] \in Elems(posted)
    BY <2>1 DEF IInv, PostInv, PostedInOrder
  <2>2. CASE queue[j] \notin Elems(posted)
    <3>1. queue[i] \in Elems(posted)
      BY <1>1, <2>2
    <3>2. PICK p \in 1..Len(posted) : posted[p] = queue[i]
      BY <3>1 DEF Elems
    <3>3. \A q \in 1..(p - 1) : posted[q] # queue[j]
      BY <1>1, <2>2 DEF Elems
    <3> QED
      BY <3>2, <3>3
  <2> QED
    BY <2>1, <2>2
<1>3. PICK p \in 1..Len(posted) :
          /\ posted[p] = queue[i]
          /\ \A q \in 1..(p - 1) : posted[q] # queue[j]
  BY <1>2
<1>4. p \in 1..Len(posted') /\ posted'[p] = queue[i]
  BY <1>1, <1>3
<1>5. \A q \in 1..(p - 1) : posted'[q] # queue[j]
  BY <1>1, <1>3
<1> QED
  BY <1>4, <1>5

LEMMA PostDirectIInv ==
    ASSUME IInv, NEW m \in Posts, PostDirect(m) PROVE IInv'
<1>1. m \in Messages
  BY DEF Messages
<1>2. sender[m] = "post" /\ m \notin Elems(queue)
  BY DEF PostDirect, IInv, QueueInv, DirectIsNotQueued
<1>3. PICK next \in {"record", "release"} : sender' = [sender EXCEPT ![m] = next]
  BY DEF PostDirect
<1>4. UNCHANGED <<queue, row, leased, worker>>
  BY DEF PostDirect, rows
<1>5. CASE UNCHANGED posted
  BY <1>1, <1>3, <1>4, <1>5, SenderIInv
<1>6. CASE posted' = Append(posted, m)
  <2> USE DEF IInv
  <2>1. /\ posted' \in Seq(Messages)
        /\ Elems(posted)' = Elems(posted) \cup {m}
    BY <1>1, <1>6, AppendFacts DEF Shapes
  <2>0. Elems(queue)' = Elems(queue)
    BY <1>4 DEF Elems
  <2>2. \A w \in Workers : Holding(w)' = Holding(w)
    BY <1>4 DEF Holding
  <2>3. Shapes'
    BY <1>1, <1>3, <1>4, <2>1 DEF Shapes
  <2>4. QueueInv'
    BY <1>1, <1>2, <1>3, <1>4, <2>0, <2>1 DEF Shapes, QueueInv, QueueDistinct, NewIsUnknown,
       DirectIsNotQueued, Messages
  <2>5. HolderInv'
    BY <1>4, <2>0, <2>1, <2>2 DEF HolderInv, HolderLeases, HolderIsFirst, OneDeliverer
  <2>6. PostedInOrder'
    BY <1>1, <1>2, <1>4, <1>6, AcceptInOrder DEF Elems
  <2>7. PostInv'
    BY <1>4, <2>1, <2>6 DEF PostInv, RecordedIsPosted, DeliveredIsPosted
  <2> QED
    BY <2>3, <2>4, <2>5, <2>7
<1> QED
  BY <1>5, <1>6 DEF PostDirect, Accept, Refuse

LEMMA SendersIInv ==
    ASSUME IInv, NEW m \in Messages
    PROVE  /\ m \in Posts /\ CreateIntent(m) => IInv'
           /\ m \in Posts /\ (RecordDirect(m) \/ ReleaseDirect(m)) => IInv'
           /\ AppendTrigger(m) => IInv'
           /\ EnqueueTrigger(m) => IInv'
<1>1. ASSUME CreateIntent(m) PROVE IInv'
  <2>1. CASE status = "active"
    <3>1. /\ sender[m] = "new"
          /\ queue' = Append(queue, m)
          /\ row' = [row EXCEPT ![m] = "pending"]
          /\ sender' = [sender EXCEPT ![m] = "done"]
          /\ UNCHANGED <<leased, worker, posted>>
      BY <1>1, <2>1 DEF CreateIntent
    <3> QED
      BY <3>1, JoinIInv
  <2>2. CASE status # "active"
    <3>1. /\ sender[m] = "new"
          /\ sender' = [sender EXCEPT ![m] = "post"]
          /\ UNCHANGED <<queue, row, leased, worker, posted>>
      BY <1>1, <2>2 DEF CreateIntent
    <3>2. m \notin Elems(queue)
      BY <3>1 DEF IInv, QueueInv, NewIsUnknown
    <3> QED
      BY <3>1, <3>2, SenderIInv
  <2> QED
    BY <2>1, <2>2
<1>2. ASSUME RecordDirect(m) \/ ReleaseDirect(m) PROVE IInv'
  <2>1. /\ sender' = [sender EXCEPT ![m] = "done"]
        /\ UNCHANGED <<queue, row, leased, worker, posted>>
    BY <1>2 DEF RecordDirect, ReleaseDirect, rows
  <2> QED
    BY <2>1, SenderIInv
<1>3. ASSUME AppendTrigger(m) PROVE IInv'
  <2>1. /\ sender[m] = "new"
        /\ queue' = Append(queue, m)
        /\ row' = [row EXCEPT ![m] = "pending"]
        /\ sender' = [sender EXCEPT ![m] = "enqueue"]
        /\ UNCHANGED <<leased, worker, posted>>
    BY <1>3 DEF AppendTrigger, history
  <2> QED
    BY <2>1, JoinIInv
<1>4. ASSUME EnqueueTrigger(m) PROVE IInv'
  <2>1. /\ sender' = [sender EXCEPT ![m] = "done"]
        /\ UNCHANGED <<queue, row, leased, worker, posted>>
    BY <1>4 DEF EnqueueTrigger, rows, history
  <2> QED
    BY <2>1, SenderIInv
<1> QED
  BY <1>1, <1>2, <1>3, <1>4
-----------------------------------------------------------------------------
(* The workers. *)

\* A worker that takes a row finds nobody holding one: the row of a holder is
\* leased and every row before it delivered, so no other row can be claimed.
LEMMA ClaimFindsNoHolder ==
    ASSUME IInv, NEW i \in 1..Len(queue), Claimable(i), NEW w \in Workers
    PROVE  ~ Holding(w)
<1> USE DEF IInv
<1> SUFFICES ASSUME Holding(w) PROVE FALSE
  OBVIOUS
<1>1. /\ worker[w].msg \in Elems(queue)
      /\ row[worker[w].msg] = "processing"
      /\ leased[worker[w].msg]
  BY DEF HolderInv, HolderLeases
<1>2. PICK h \in 1..Len(queue) : queue[h] = worker[w].msg
  BY <1>1 DEF Elems
<1>3. Len(queue) \in Nat
  BY DEF Shapes
<1>4. CASE h < i
  BY <1>1, <1>2, <1>3, <1>4 DEF Claimable
<1>5. CASE h = i
  BY <1>1, <1>2, <1>5 DEF Claimable
<1>6. CASE i < h
  BY <1>2, <1>6 DEF HolderInv, HolderIsFirst, Claimable
<1> QED
  BY <1>3, <1>4, <1>5, <1>6

LEMMA ClaimNextIInv ==
    ASSUME IInv, NEW w \in Workers, NEW k \in 0..MaxRetry,
           NEW i \in 1..Len(queue), ClaimNext(w, k, i)
    PROVE  IInv'
<1> USE DEF IInv
<1>1. /\ Claimable(i)
      /\ row' = [row EXCEPT ![queue[i]] = "processing"]
      /\ leased' = [leased EXCEPT ![queue[i]] = TRUE]
      /\ worker' = [worker EXCEPT ![w] = [at |-> "post", msg |-> queue[i], try |-> k]]
      /\ UNCHANGED <<queue, sender, posted>>
  BY DEF ClaimNext, history
<1>2. queue[i] \in Messages /\ queue[i] \in Elems(queue) /\ Len(queue) \in Nat
  BY DEF Shapes, Elems
<1>3. Elems(queue)' = Elems(queue) /\ Elems(posted)' = Elems(posted)
  BY <1>1 DEF Elems
<1>4. \A v \in Workers : ~ Holding(v)
  BY <1>1, ClaimFindsNoHolder
<1>5. \A v \in Workers : v # w => worker'[v] = worker[v]
  BY <1>1 DEF Shapes
<1>6. worker'[w].msg = queue[i] /\ worker'[w].at = "post"
  BY <1>1 DEF Shapes
<1>7. \A v \in Workers : Holding(v)' => v = w
  BY <1>4, <1>5 DEF Holding
<1>8. row[queue[i]] # "delivered"
  BY <1>1 DEF Claimable
<1>9. Shapes'
  BY <1>1, <1>2 DEF Shapes, WorkerState
<1>10. QueueInv'
  BY <1>1, <1>3 DEF QueueInv, QueueDistinct, NewIsUnknown, DirectIsNotQueued
<1>11. HolderInv'
  <2>1. HolderLeases'
    BY <1>1, <1>2, <1>3, <1>6, <1>7 DEF HolderLeases, Shapes
  <2>2. HolderIsFirst'
    <3> SUFFICES ASSUME NEW g \in 1..Len(queue), NEW j \in 1..Len(queue),
                        queue[g] = queue[i], j < g
                 PROVE  row'[queue[j]] = "delivered"
      BY <1>1, <1>6, <1>7 DEF HolderIsFirst
    <3>1. g = i
      BY DEF QueueInv, QueueDistinct
    <3>2. row[queue[j]] = "delivered"
      BY <1>1, <1>2, <3>1 DEF Claimable
    <3> QED
      BY <1>1, <1>8, <3>2 DEF Shapes
  <2> QED
    BY <1>7, <2>1, <2>2 DEF HolderInv, OneDeliverer
<1>12. PostInv'
  <2>1. RecordedIsPosted'
    BY <1>1, <1>3, <1>5, <1>6 DEF PostInv, RecordedIsPosted
  <2>2. DeliveredIsPosted'
    BY <1>1, <1>2, <1>3 DEF PostInv, DeliveredIsPosted, Shapes
  <2> QED
    BY <1>1, <1>3, <2>1, <2>2 DEF PostInv, PostedInOrder
<1> QED
  BY <1>9, <1>10, <1>11, <1>12

\* Idle, or about to give the session's turn back: the row is no longer held.
AwayFromRow == {x \in WorkerState : x.at \in {"idle", "unlock", "unlock drained"}}

\* A worker settles the row it holds.  It was the only holder.
LEMMA SettleIInv ==
    ASSUME IInv, NEW w \in Workers, Holding(w), NEW x \in AwayFromRow,
           NEW s \in {"pending", "delivered"},
           s = "delivered" => worker[w].msg \in Elems(posted),
           row' = [row EXCEPT ![worker[w].msg] = s],
           leased' = [leased EXCEPT ![worker[w].msg] = FALSE],
           worker' = [worker EXCEPT ![w] = x],
           UNCHANGED <<queue, sender, posted>>
    PROVE  IInv'
<1> USE DEF IInv
<1>1. Elems(queue)' = Elems(queue) /\ Elems(posted)' = Elems(posted)
  BY DEF Elems
<1>2. \A v \in Workers : v # w => worker'[v] = worker[v] /\ ~ Holding(v)
  BY DEF Shapes, HolderInv, OneDeliverer
<1>3. worker'[w] = x /\ x.at \in {"idle", "unlock", "unlock drained"}
  BY DEF Shapes, AwayFromRow
<1>4. \A v \in Workers : ~ Holding(v)'
  BY <1>2, <1>3 DEF Holding
<1>5. Shapes'
  BY DEF Shapes, AwayFromRow
<1>6. QueueInv'
  BY <1>1 DEF QueueInv, QueueDistinct, NewIsUnknown, DirectIsNotQueued
<1>7. HolderInv'
  BY <1>4 DEF HolderInv, HolderLeases, HolderIsFirst, OneDeliverer
<1>8. PostInv'
  <2>1. RecordedIsPosted'
    BY <1>1, <1>2, <1>3 DEF PostInv, RecordedIsPosted
  <2>2. DeliveredIsPosted'
    BY <1>1 DEF PostInv, DeliveredIsPosted, Shapes
  <2> QED
    BY <1>1, <2>1, <2>2 DEF PostInv, PostedInOrder
<1> QED
  BY <1>5, <1>6, <1>7, <1>8

\* A worker stops, and the row stays as it is.
LEMMA StopIInv ==
    ASSUME IInv, NEW w \in Workers, NEW x \in AwayFromRow,
           worker' = [worker EXCEPT ![w] = x],
           UNCHANGED <<queue, row, leased, sender, posted>>
    PROVE  IInv'
<1> USE DEF IInv
<1>1. Elems(queue)' = Elems(queue) /\ Elems(posted)' = Elems(posted)
  BY DEF Elems
<1>2. \A v \in Workers : v # w => worker'[v] = worker[v]
  BY DEF Shapes
<1>3. worker'[w] = x /\ x.at \in {"idle", "unlock", "unlock drained"}
  BY DEF Shapes, AwayFromRow
<1>4. \A v \in Workers : Holding(v)' => Holding(v) /\ worker'[v] = worker[v]
  BY <1>2, <1>3 DEF Holding
<1>5. Shapes'
  BY DEF Shapes, AwayFromRow
<1>6. QueueInv'
  BY <1>1 DEF QueueInv, QueueDistinct, NewIsUnknown, DirectIsNotQueued
<1>7. HolderInv'
  <2>1. HolderLeases' /\ OneDeliverer'
    BY <1>1, <1>4 DEF HolderInv, HolderLeases, OneDeliverer
  <2>2. HolderIsFirst'
    BY <1>4 DEF HolderInv, HolderIsFirst
  <2> QED
    BY <2>1, <2>2 DEF HolderInv
<1>8. PostInv'
  <2>1. RecordedIsPosted'
    BY <1>1, <1>2, <1>3 DEF PostInv, RecordedIsPosted
  <2> QED
    BY <1>1, <2>1 DEF PostInv, DeliveredIsPosted, PostedInOrder
<1> QED
  BY <1>5, <1>6, <1>7, <1>8

AfterPost == {"record", "release", "release drained"}
LEMMA PostClaimIInv ==
    ASSUME IInv, NEW w \in Workers, NEW m, m = worker[w].msg, PostClaim(w)
    PROVE  IInv'
<1> USE DEF IInv
<1>1. Holding(w) /\ UNCHANGED <<queue, row, leased, sender>>
  BY DEF PostClaim, Holding, rows
<1>2. PICK pc \in AfterPost :
          /\ worker' = [worker EXCEPT ![w].at = pc]
          /\ pc = "record" => posted' = Append(posted, m)
  BY DEF PostClaim, Accept, AfterPost
<1>3. posted' = posted \/ posted' = Append(posted, m)
  BY DEF PostClaim, Accept, Refuse
<1>4. m \in Elems(queue) /\ m \in Messages
  <2>1. m \in Elems(queue)
    BY <1>1 DEF HolderInv, HolderLeases
  <2> QED
    BY <2>1 DEF Shapes, Elems
<1>5. /\ posted' \in Seq(Messages)
      /\ Elems(posted) \subseteq Elems(posted)'
      /\ posted' = Append(posted, m) => m \in Elems(posted)'
  <2>1. CASE posted' = posted
    <3>1. Elems(posted)' = Elems(posted)
      BY <2>1 DEF Elems
    <3>2. posted' # Append(posted, m)
      <4>1. Len(Append(posted, m)) = Len(posted) + 1 /\ Len(posted) \in Nat
        BY <1>4, AppendFacts DEF Shapes
      <4> QED
        BY <2>1, <4>1
    <3> QED
      BY <2>1, <3>1, <3>2 DEF Shapes
  <2>2. CASE posted' = Append(posted, m)
    <3>1. Append(posted, m) \in Seq(Messages)
             /\ Elems(Append(posted, m)) = Elems(posted) \cup {m}
      BY <1>4, AppendFacts DEF Shapes
    <3> QED
      BY <2>2, <3>1
  <2> QED
    BY <1>3, <2>1, <2>2
<1>6. Elems(queue)' = Elems(queue)
  BY <1>1 DEF Elems
<1>7. /\ \A v \in Workers : v # w => worker'[v] = worker[v]
      /\ worker'[w].msg = m /\ worker'[w].at = pc
  BY <1>2 DEF Shapes, WorkerState
<1>8. \A v \in Workers : Holding(v)' = Holding(v) /\ worker'[v].msg = worker[v].msg
  <2>1. Holding(w)'
    BY <1>7 DEF Holding, AfterPost
  <2>2. \A v \in Workers : v # w => Holding(v)' = Holding(v)
    BY <1>7 DEF Holding
  <2>3. Holding(w)' = Holding(w)
    <3>1. Holding(w)' \in BOOLEAN /\ Holding(w) \in BOOLEAN
      BY DEF Holding
    <3> QED
      BY <1>1, <2>1, <3>1
  <2>4. \A v \in Workers : worker'[v].msg = worker[v].msg
    BY <1>7
  <2> QED
    BY <2>2, <2>3, <2>4
<1>9. Shapes'
  BY <1>1, <1>2, <1>5 DEF Shapes, WorkerState, AfterPost
<1>10. QueueInv'
  <2>1. NewIsUnknown'
    <3>1. sender[m] # "new"
      BY <1>4 DEF QueueInv, NewIsUnknown
    <3>2. \A n \in Messages : n \in Elems(posted)' => n \in Elems(posted) \/ n = m
      <4>1. CASE posted' = posted
        BY <4>1 DEF Elems
      <4>2. CASE posted' = Append(posted, m)
        <5>1. Elems(Append(posted, m)) = Elems(posted) \cup {m}
          BY <1>4, AppendFacts DEF Shapes
        <5> QED
          BY <4>2, <5>1
      <4> QED
        BY <1>3, <4>1, <4>2
    <3> QED
      BY <1>1, <1>6, <3>1, <3>2 DEF QueueInv, NewIsUnknown
  <2> QED
    BY <1>1, <1>6, <2>1 DEF QueueInv, QueueDistinct, DirectIsNotQueued
<1>11. HolderInv'
  <2>1. HolderLeases'
    BY <1>1, <1>6, <1>8 DEF HolderInv, HolderLeases
  <2>2. HolderIsFirst'
    BY <1>1, <1>8 DEF HolderInv, HolderIsFirst
  <2>3. OneDeliverer'
    BY <1>8 DEF HolderInv, OneDeliverer
  <2> QED
    BY <2>1, <2>2, <2>3 DEF HolderInv
<1>12. PostInv'
  <2>1. RecordedIsPosted'
    BY <1>2, <1>5, <1>7 DEF PostInv, RecordedIsPosted
  <2>2. DeliveredIsPosted'
    BY <1>1, <1>5 DEF PostInv, DeliveredIsPosted
  <2>3. PostedInOrder'
    <3>1. CASE posted' = posted
      <4>1. Elems(posted)' = Elems(posted)
        BY <3>1 DEF Elems
      <4> QED
        BY <1>1, <3>1, <4>1 DEF PostInv, PostedInOrder
    <3>2. CASE posted' = Append(posted, m)
      <4>1. \A i, j \in 1..Len(queue) :
                queue[j] = m /\ i < j => queue[i] \in Elems(posted)
        <5> SUFFICES ASSUME NEW i \in 1..Len(queue), NEW j \in 1..Len(queue),
                            queue[j] = m, i < j
                     PROVE  queue[i] \in Elems(posted)
          OBVIOUS
        <5>1. row[queue[i]] = "delivered"
          BY <1>1 DEF HolderInv, HolderIsFirst
        <5>2. queue[i] \in Messages
          BY DEF Shapes
        <5> QED
          BY <5>1, <5>2 DEF PostInv, DeliveredIsPosted
      <4> QED
        BY <1>1, <1>4, <3>2, <4>1, AcceptInOrder
    <3> QED
      BY <1>3, <3>1, <3>2
  <2> QED
    BY <2>1, <2>2, <2>3 DEF PostInv
<1> QED
  BY <1>9, <1>10, <1>11, <1>12

LEMMA WorkersIInv ==
    ASSUME IInv, NEW w \in Workers
    PROVE  /\ MarkDelivered(w) => IInv'
           /\ ReleaseClaim(w) => IInv'
           /\ ReleaseTurn(w) \/ Abandon(w) => IInv'
<1>1. Idle \in AwayFromRow
  <2>1. 0 \in 0..MaxRetry
    BY BoundsAssumption
  <2> QED
    BY <2>1 DEF Idle, AwayFromRow, WorkerState
<1>2. ASSUME MarkDelivered(w) PROVE IInv'
  <2>1. /\ Holding(w)
        /\ worker[w].msg \in Elems(posted)
        /\ row' = [row EXCEPT ![worker[w].msg] = "delivered"]
        /\ leased' = [leased EXCEPT ![worker[w].msg] = FALSE]
        /\ worker' = [worker EXCEPT ![w] = Idle]
        /\ UNCHANGED <<queue, sender, posted>>
    BY <1>2 DEF MarkDelivered, Holding, history, IInv, PostInv, RecordedIsPosted
  <2> QED
    BY <1>1, <2>1, SettleIInv
<1>3. ASSUME ReleaseClaim(w) PROVE IInv'
  <2> DEFINE x == [worker[w] EXCEPT !.at =
                      IF @ = "release" THEN "unlock" ELSE "unlock drained"]
  <2>1. /\ Holding(w)
        /\ worker[w] \in WorkerState
        /\ row[worker[w].msg] = "processing"
    BY <1>3 DEF ReleaseClaim, Holding, IInv, Shapes, HolderInv, HolderLeases
  <2>2. x \in AwayFromRow
    BY <2>1 DEF AwayFromRow, WorkerState
  <2>3. /\ row' = [row EXCEPT ![worker[w].msg] = "pending"]
        /\ leased' = [leased EXCEPT ![worker[w].msg] = FALSE]
        /\ UNCHANGED <<queue, sender, posted>>
    BY <1>3, <2>1 DEF ReleaseClaim, history
  <2>4. worker' = [worker EXCEPT ![w] = x]
    BY <1>3 DEF ReleaseClaim, IInv, Shapes, WorkerState
  <2> QED
    BY <2>1, <2>2, <2>3, <2>4, SettleIInv
<1>4. ASSUME ReleaseTurn(w) \/ Abandon(w) PROVE IInv'
  <2>1. /\ worker' = [worker EXCEPT ![w] = Idle]
        /\ UNCHANGED <<queue, row, leased, sender, posted>>
    BY <1>4 DEF ReleaseTurn, Abandon, rows
  <2> QED
    BY <1>1, <2>1, StopIInv
<1> QED
  BY <1>2, <1>3, <1>4

\* A lease runs out only when no worker is left with the row.
LEMMA LeaseExpiresIInv ==
    ASSUME IInv, NEW m \in Messages, LeaseExpires(m) PROVE IInv'
<1> USE DEF IInv
<1>1. /\ leased' = [leased EXCEPT ![m] = FALSE]
      /\ \A w \in Workers : worker[w].msg # m
      /\ UNCHANGED <<queue, row, worker, sender, posted>>
  BY DEF LeaseExpires, actors, history
<1>2. Elems(queue)' = Elems(queue) /\ Elems(posted)' = Elems(posted)
  BY <1>1 DEF Elems
<1>3. \A w \in Workers : Holding(w)' = Holding(w)
  BY <1>1 DEF Holding
<1>4. Shapes'
  BY <1>1 DEF Shapes
<1>5. QueueInv'
  BY <1>1, <1>2 DEF QueueInv, QueueDistinct, NewIsUnknown, DirectIsNotQueued
<1>6. HolderInv'
  <2>1. HolderLeases'
    BY <1>1, <1>2, <1>3 DEF HolderInv, HolderLeases, Shapes
  <2>2. HolderIsFirst' /\ OneDeliverer'
    BY <1>1, <1>3 DEF HolderInv, HolderIsFirst, OneDeliverer
  <2> QED
    BY <2>1, <2>2 DEF HolderInv
<1>7. PostInv'
  BY <1>1, <1>2 DEF PostInv, RecordedIsPosted, DeliveredIsPosted, PostedInOrder
<1> QED
  BY <1>4, <1>5, <1>6, <1>7
-----------------------------------------------------------------------------
(* The runtime, the stream, the interrupt and the watchdog write the session  *)
(* and the task counts; nothing the invariant is about.                       *)
LEMMA OthersIInv ==
    ASSUME IInv PROVE
      /\ RuntimeStart \/ RuntimeFinish \/ RuntimeCrash \/ Drain => IInv'
      /\ Project \/ ProjectFails \/ (\E e \in unacked : ProjectAgain(e)) => IInv'
      /\ (\E e \in callbacks : Callback(e)) => IInv'
      /\ Interrupt \/ InterruptRelease \/ InterruptEnqueue \/ Watchdog => IInv'
      /\ UNCHANGED vars => IInv'
<1>1. ASSUME RuntimeStart \/ RuntimeFinish \/ RuntimeCrash \/ Drain PROVE UNCHANGED core
  BY <1>1 DEF RuntimeStart, RuntimeFinish, RuntimeCrash, Drain, core, rows, actors
<1>2. ASSUME Project \/ ProjectFails \/ (\E e \in unacked : ProjectAgain(e))
      PROVE  UNCHANGED core
  BY <1>2 DEF Project, ProjectFails, ProjectAgain, core, rows, actors, history
<1>3. ASSUME \E e \in callbacks : Callback(e) PROVE UNCHANGED core
  BY <1>3 DEF Callback, core, rows, actors
<1>4. ASSUME Interrupt \/ InterruptRelease \/ InterruptEnqueue \/ Watchdog
      PROVE  UNCHANGED core
  BY <1>4 DEF Interrupt, InterruptRelease, InterruptEnqueue, Watchdog, core, rows,
     actors, history
<1>5. ASSUME UNCHANGED vars PROVE UNCHANGED core
  BY <1>5 DEF vars, core, rows, actors, history
<1> QED
  BY <1>1, <1>2, <1>3, <1>4, <1>5, CoreIInv

LEMMA DropTaskIInv ==
    ASSUME IInv, NEW w \in Workers, NEW k \in 0..MaxRetry, DropTask(w, k) PROVE IInv'
<1>1. UNCHANGED core
  BY DEF DropTask, core, rows
<1> QED
  BY <1>1, CoreIInv

LEMMA NextIInv == IInv /\ [Next]_vars => IInv'
<1> SUFFICES ASSUME IInv, [Next]_vars PROVE IInv'
  OBVIOUS
<1>1. ASSUME NEW m \in Posts, CreateIntent(m) PROVE IInv'
  BY <1>1, SendersIInv DEF Messages
<1>2. ASSUME NEW m \in Triggers, AppendTrigger(m) PROVE IInv'
  BY <1>2, SendersIInv DEF Messages
<1>3. ASSUME NEW m \in Messages, SenderStep(m) PROVE IInv'
  BY <1>3, SendersIInv, PostDirectIInv DEF SenderStep
<1>4. ASSUME NEW m \in Messages, LeaseExpires(m) PROVE IInv'
  BY <1>4, LeaseExpiresIInv
<1>5. ASSUME NEW w \in Workers, WorkerStep(w) PROVE IInv'
  BY <1>5, DropTaskIInv, ClaimNextIInv, PostClaimIInv, WorkersIInv DEF WorkerStep
<1>6. ASSUME NEW w \in Workers, Abandon(w) PROVE IInv'
  BY <1>6, WorkersIInv
<1> QED
  BY <1>1, <1>2, <1>3, <1>4, <1>5, <1>6, OthersIInv DEF Next

LEMMA Inductive == Spec => []IInv
<1> QED
  BY InitIInv, NextIInv, PTL DEF Spec

\* However late events move the session's turn, and however tasks fail, are
\* retried or lose their leases, at most one worker has a row of the queue in
\* its hands (claimNext, session_message_deliver_claim.go:36-51).
THEOREM OneDelivererTheorem == Spec => []OneDeliverer
<1>1. IInv => OneDeliverer
  BY DEF IInv, HolderInv
<1> QED
  BY <1>1, Inductive, PTL

\* The rows of the queue reach the runtime in the order of their sequence
\* numbers (claimNext's NOT EXISTS and ORDER BY, markDelivered, releaseClaim).
THEOREM PostedInOrderTheorem == Spec => []PostedInOrder
<1>1. IInv => PostedInOrder
  BY DEF IInv, PostInv
<1> QED
  BY <1>1, Inductive, PTL
-----------------------------------------------------------------------------
(* The rest of the types: the session's turn, the counts of delivery tasks,  *)
(* and what is in the runtime and in its stream.                             *)

SessionOK ==
    /\ status \in {"idle", "active"} /\ turn \in Messages \cup {None}
    /\ status = "idle" => turn = None
TasksOK == tasks \in [0..MaxRetry -> Nat]
InterruptOK == interrupt \in {"none", "release", "count"}
RuntimeOK == inbox \in Seq(Messages) /\ running \in Messages \cup {None} /\ draining \in BOOLEAN
EventsOK == stream \in Seq(Event) /\ unacked \subseteq Event /\ callbacks \subseteq Event

Rest == SessionOK /\ TasksOK /\ InterruptOK /\ RuntimeOK /\ EventsOK

LEMMA TypeParts == IInv /\ Rest => TypeOK
BY DEF IInv, Shapes, WorkerState, Rest, SessionOK, TasksOK, InterruptOK, RuntimeOK, EventsOK,
   TypeOK

LEMMA InitRest == Init => Rest
<1> SUFFICES ASSUME Init PROVE Rest
  OBVIOUS
<1>1. SessionOK /\ InterruptOK
  BY DEF Init, SessionOK, InterruptOK
<1>2. TasksOK
  BY DEF Init, TasksOK
<1>3. inbox \in Seq(Messages) /\ stream \in Seq(Event)
  BY DEF Init
<1>4. RuntimeOK /\ EventsOK
  BY <1>3 DEF Init, RuntimeOK, EventsOK
<1> QED
  BY <1>1, <1>2, <1>4 DEF Rest

\* The ways a step writes the turn and the counts.
LEMMA Writes ==
    /\ Starting \/ Released => SessionOK'
    /\ \A t \in Messages : Active(t) => SessionOK'
    /\ SessionOK /\ UNCHANGED session => SessionOK'
    /\ TasksOK /\ Enqueue => TasksOK'
    /\ \A k \in 0..MaxRetry : TasksOK /\ Retry(k) => TasksOK'
    /\ \A k \in 0..MaxRetry : TasksOK /\ tasks[k] > 0 /\ tasks' = [tasks EXCEPT ![k] = @ - 1] => TasksOK'
    /\ TasksOK /\ UNCHANGED tasks => TasksOK'
    /\ InterruptOK /\ UNCHANGED interrupt => InterruptOK'
<1>1. /\ Starting \/ Released => SessionOK'
      /\ \A t \in Messages : Active(t) => SessionOK'
      /\ SessionOK /\ UNCHANGED session => SessionOK'
  BY DEF Starting, Released, Active, SessionOK, session
<1>2. /\ TasksOK /\ Enqueue => TasksOK'
      /\ TasksOK /\ UNCHANGED tasks => TasksOK'
      /\ InterruptOK /\ UNCHANGED interrupt => InterruptOK'
  BY BoundsAssumption DEF TasksOK, Enqueue, InterruptOK
<1>3. ASSUME NEW k \in 0..MaxRetry, TasksOK PROVE Retry(k) => TasksOK'
  BY <1>3, BoundsAssumption DEF TasksOK, Retry
<1>4. ASSUME NEW k \in 0..MaxRetry, TasksOK, tasks[k] > 0,
             tasks' = [tasks EXCEPT ![k] = @ - 1]
      PROVE  TasksOK'
  BY <1>4 DEF TasksOK
<1> QED
  BY <1>1, <1>2, <1>3, <1>4

LEMMA Idles ==
    /\ RuntimeOK /\ UNCHANGED runtime => RuntimeOK'
    /\ EventsOK /\ UNCHANGED events => EventsOK'
BY DEF RuntimeOK, EventsOK, runtime, events

\* A message reaches the runtime, or does not.
LEMMA Arrives ==
    ASSUME RuntimeOK, NEW m \in Messages, Accept(m) \/ Refuse, UNCHANGED <<running, draining>>
    PROVE  RuntimeOK'
BY DEF RuntimeOK, Accept, Refuse

LEMMA SendersRest ==
    ASSUME Rest, NEW m \in Messages
    PROVE  /\ CreateIntent(m) \/ AppendTrigger(m) => Rest'
           /\ PostDirect(m) => Rest'
           /\ RecordDirect(m) \/ ReleaseDirect(m) \/ EnqueueTrigger(m) => Rest'
           /\ LeaseExpires(m) => Rest'
<1> USE Writes, Idles DEF Rest
<1>1. ASSUME CreateIntent(m) \/ AppendTrigger(m) PROVE Rest'
  BY <1>1 DEF CreateIntent, AppendTrigger
<1>2. ASSUME PostDirect(m) PROVE Rest'
  <2>1. /\ Accept(m) \/ Refuse
        /\ UNCHANGED <<running, draining, tasks, interrupt, session, events>>
    BY <1>2 DEF PostDirect
  <2> QED
    BY <2>1, Arrives
<1>3. ASSUME RecordDirect(m) \/ ReleaseDirect(m) \/ EnqueueTrigger(m) PROVE Rest'
  BY <1>3 DEF RecordDirect, ReleaseDirect, EnqueueTrigger
<1>4. ASSUME LeaseExpires(m) PROVE Rest'
  BY <1>4 DEF LeaseExpires, actors
<1> QED
  BY <1>1, <1>2, <1>3, <1>4

\* A worker past its claim has a message of the queue in its hands.
LEMMA Held ==
    ASSUME IInv, NEW w \in Workers, Holding(w) PROVE worker[w].msg \in Messages
BY DEF IInv, HolderInv, HolderLeases, Shapes, Elems

LEMMA WorkersRest ==
    ASSUME IInv, Rest, NEW w \in Workers
    PROVE  /\ WorkerStep(w) => Rest'
           /\ Abandon(w) => Rest'
<1> USE Writes, Idles DEF Rest
<1>0. worker[w].try \in 0..MaxRetry
  BY DEF IInv, Shapes, WorkerState
<1>1. ASSUME NEW k \in 0..MaxRetry, DropTask(w, k) PROVE Rest'
  BY <1>1 DEF DropTask
<1>2. ASSUME NEW k \in 0..MaxRetry, NEW i \in 1..Len(queue), ClaimNext(w, k, i) PROVE Rest'
  BY <1>2 DEF ClaimNext
<1>3. ASSUME PostClaim(w) PROVE Rest'
  <2>1. /\ worker[w].msg \in Messages
        /\ Accept(worker[w].msg) \/ Refuse
        /\ UNCHANGED <<running, draining, tasks, interrupt, session, events>>
    BY <1>3, Held DEF PostClaim, Holding
  <2> QED
    BY <2>1, Arrives
<1>4. ASSUME MarkDelivered(w) PROVE Rest'
  <2>1. worker[w].msg \in Messages
    BY <1>4, Held DEF MarkDelivered, Holding
  <2> QED
    BY <1>4, <2>1 DEF MarkDelivered
<1>5. ASSUME ReleaseClaim(w) PROVE Rest'
  BY <1>5 DEF ReleaseClaim
<1>6. ASSUME ReleaseTurn(w) PROVE Rest'
  BY <1>0, <1>6 DEF ReleaseTurn
<1>7. ASSUME Abandon(w) PROVE Rest'
  BY <1>0, <1>7 DEF Abandon
<1> QED
  BY <1>1, <1>2, <1>3, <1>4, <1>5, <1>6, <1>7 DEF WorkerStep

LEMMA RuntimeRest ==
    ASSUME Rest
    PROVE  /\ RuntimeStart \/ RuntimeFinish => Rest'
           /\ RuntimeCrash \/ Drain => Rest'
<1> USE Writes, Idles DEF Rest
<1>1. ASSUME NEW kind \in {"started", "ended"}, NEW t \in Messages, Emit(kind, t),
             UNCHANGED unacked
      PROVE  EventsOK'
  <2>1. [kind |-> kind, turn |-> t] \in Event
    BY DEF Event
  <2> QED
    BY <1>1, <2>1 DEF Emit, EventsOK
<1>2. ASSUME RuntimeStart PROVE Rest'
  <2>1. Head(inbox) \in Messages
    BY <1>2 DEF RuntimeStart, RuntimeOK
  <2>2. RuntimeOK'
    BY <1>2, <2>1 DEF RuntimeStart, RuntimeOK
  <2>3. EventsOK'
    BY <1>1, <1>2, <2>1 DEF RuntimeStart
  <2> QED
    BY <1>2, <2>2, <2>3 DEF RuntimeStart, actors
<1>3. ASSUME RuntimeFinish PROVE Rest'
  <2>1. running \in Messages
    BY <1>3 DEF RuntimeFinish, RuntimeOK
  <2>2. RuntimeOK'
    BY <1>3 DEF RuntimeFinish, RuntimeOK
  <2>3. EventsOK'
    BY <1>1, <1>3, <2>1 DEF RuntimeFinish
  <2> QED
    BY <1>3, <2>2, <2>3 DEF RuntimeFinish, actors
<1>4. ASSUME RuntimeCrash \/ Drain PROVE Rest'
  <2>1. CASE RuntimeCrash
    BY <2>1 DEF RuntimeCrash, RuntimeOK, actors
  <2>2. CASE Drain
    <3>1. inbox' \in Seq(Messages) /\ running' \in Messages \cup {None} /\ draining' \in BOOLEAN
      BY <2>2, Zenon DEF Drain, RuntimeOK
    <3> QED
      BY <2>2, <3>1 DEF Drain, RuntimeOK, actors
  <2> QED
    BY <1>4, <2>1, <2>2
<1> QED
  BY <1>2, <1>3, <1>4

LEMMA ReleasesRest ==
    ASSUME Rest
    PROVE  /\ Project \/ ProjectFails \/ (\E e \in unacked : ProjectAgain(e)) => Rest'
           /\ (\E e \in callbacks : Callback(e)) => Rest'
           /\ Interrupt \/ InterruptRelease \/ InterruptEnqueue \/ Watchdog => Rest'
           /\ UNCHANGED vars => Rest'
<1> USE Writes, Idles DEF Rest
<1>1. ASSUME NEW e \in Event PROVE ProjectSessionState(e) => SessionOK' /\ TasksOK'
  <2>1. e.turn \in Messages
    BY DEF Event
  <2> QED
    BY <2>1 DEF ProjectSessionState
<1>2. ASSUME stream # <<>>
      PROVE  Head(stream) \in Event /\ Head(stream).turn \in Messages /\ Tail(stream) \in Seq(Event)
  <2>1. Head(stream) \in Event /\ Tail(stream) \in Seq(Event)
    BY <1>2 DEF EventsOK
  <2> QED
    BY <2>1 DEF Event
<1>3. ASSUME Project PROVE Rest'
  <2>1. EventsOK'
    BY <1>2, <1>3 DEF Project, EventsOK
  <2> QED
    BY <1>1, <1>2, <1>3, <2>1 DEF Project
<1>4. ASSUME ProjectFails PROVE Rest'
  <2>1. EventsOK'
    BY <1>2, <1>4 DEF ProjectFails, EventsOK
  <2>2. SessionOK' /\ TasksOK'
    BY <1>1, <1>2, <1>4 DEF ProjectFails
  <2> QED
    BY <1>4, <2>1, <2>2 DEF ProjectFails
<1>5. ASSUME NEW e \in unacked, ProjectAgain(e) PROVE Rest'
  <2>1. EventsOK' /\ e \in Event
    BY <1>5 DEF ProjectAgain, EventsOK
  <2> QED
    BY <1>1, <1>5, <2>1 DEF ProjectAgain
<1>6. ASSUME NEW e \in callbacks, Callback(e) PROVE Rest'
  <2>1. EventsOK' /\ e \in Event /\ e.turn \in Messages
    BY <1>6 DEF Callback, EventsOK, Event
  <2>2. SessionOK'
    BY <1>6, <2>1 DEF Callback
  <2> QED
    BY <1>6, <2>1, <2>2 DEF Callback, actors
<1>7. ASSUME Interrupt \/ InterruptRelease \/ InterruptEnqueue \/ Watchdog PROVE Rest'
  <2>1. InterruptOK'
    BY <1>7 DEF Interrupt, InterruptRelease, InterruptEnqueue, Watchdog, InterruptOK, actors
  <2> QED
    BY <1>7, <2>1 DEF Interrupt, InterruptRelease, InterruptEnqueue, Watchdog, actors
<1>8. ASSUME UNCHANGED vars PROVE Rest'
  BY <1>8 DEF vars, actors
<1> QED
  BY <1>3, <1>4, <1>5, <1>6, <1>7, <1>8

LEMMA NextRest == IInv /\ Rest /\ [Next]_vars => Rest'
<1> SUFFICES ASSUME IInv, Rest, [Next]_vars PROVE Rest'
  OBVIOUS
<1>1. ASSUME NEW m \in Messages, SenderStep(m) PROVE Rest'
  BY <1>1, SendersRest DEF SenderStep
<1>2. ASSUME NEW m \in Messages, CreateIntent(m) \/ AppendTrigger(m) PROVE Rest'
  BY <1>2, SendersRest
<1>3. ASSUME NEW m \in Messages, LeaseExpires(m) PROVE Rest'
  BY <1>3, SendersRest
<1> QED
  BY <1>1, <1>2, <1>3, WorkersRest, RuntimeRest, ReleasesRest DEF Next, Messages

\* Every reachable state of a session is typed; in particular an idle session
\* has no turn's id (releaseSessionTurn, projectSessionState, applyRuntimeTurnState).
THEOREM TypeCorrect == Spec => []TypeOK
<1>1. Init => IInv /\ Rest
  BY InitIInv, InitRest
<1>2. IInv /\ Rest /\ [Next]_vars => IInv' /\ Rest'
  BY NextIInv, NextRest
<1> QED
  BY <1>1, <1>2, TypeParts, PTL DEF Spec

-----------------------------------------------------------------------------
(* Deliveries are not repeated.                                              *)

\* A row that is not delivered and whose message the runtime has: its worker is
\* about to write it down, or could not.
WaitingIsNew ==
    \A m \in Elems(queue) : row[m] # "delivered" /\ m \in Elems(posted) =>
        \/ m \in lost
        \/ \E w \in Workers : worker[w].at = "record" /\ worker[w].msg = m

\* A request posts a message once.
DirectIsNew == \A m \in Posts : sender[m] = "post" => m \notin Elems(posted)

OInv == WaitingIsNew /\ DirectIsNew /\ PostedOnce

\* The runtime accepts what it has not had, or what was lost on the way back.
LEMMA AcceptOnce ==
    ASSUME IInv, PostedOnce, NEW m \in Messages, posted' = Append(posted, m),
           lost \subseteq lost', m \in Elems(posted) => m \in lost'
    PROVE  PostedOnce'
<1>1. /\ Len(posted') = Len(posted) + 1 /\ Len(posted) \in Nat
      /\ \A p \in 1..Len(posted) : posted'[p] = posted[p]
      /\ posted'[Len(posted) + 1] = m
  BY AppendFacts DEF IInv, Shapes
<1> SUFFICES ASSUME NEW p \in 1..Len(posted'), NEW q \in 1..Len(posted'),
                    p < q, posted'[p] = posted'[q]
             PROVE  posted'[p] \in lost'
  BY DEF PostedOnce
<1>2. p \in 1..Len(posted) /\ posted'[p] = posted[p]
  BY <1>1
<1>3. CASE q \in 1..Len(posted)
  <2>1. posted[p] = posted[q]
    BY <1>1, <1>2, <1>3
  <2>2. posted[p] \in lost
    BY <1>2, <1>3, <2>1 DEF PostedOnce
  <2> QED
    BY <1>2, <2>2
<1>4. CASE q = Len(posted) + 1
  <2>1. posted[p] = m
    BY <1>1, <1>2, <1>4
  <2>2. m \in Elems(posted)
    BY <1>2, <2>1 DEF Elems
  <2> QED
    BY <1>2, <2>1, <2>2
<1> QED
  BY <1>1, <1>3, <1>4

\* A step at which the runtime accepts nothing: what was written down stays
\* written down, and a worker between the runtime and its row keeps at it,
\* writes it, or loses the message.
LEMMA NothingAccepted ==
    ASSUME OInv, UNCHANGED posted, lost \subseteq lost',
           \A m \in Posts : sender'[m] = "post" =>
               sender[m] = "post" \/ m \notin Elems(posted),
           \A m \in Elems(queue') : row'[m] # "delivered" =>
               (m \in Elems(queue) /\ row[m] # "delivered") \/ m \notin Elems(posted),
           \A w \in Workers : worker[w].at = "record" =>
               \/ worker'[w] = worker[w]
               \/ worker[w].msg \in lost'
               \/ row'[worker[w].msg] = "delivered"
    PROVE  OInv'
<1>1. Elems(posted') = Elems(posted)
  OBVIOUS
<1>2. PostedOnce'
  BY DEF OInv, PostedOnce
<1>3. DirectIsNew'
  BY <1>1 DEF OInv, DirectIsNew, Elems
<1>4. WaitingIsNew'
  <2> SUFFICES ASSUME NEW m \in Elems(queue'), row'[m] # "delivered", m \in Elems(posted')
               PROVE  \/ m \in lost'
                      \/ \E w \in Workers : worker'[w].at = "record" /\ worker'[w].msg = m
    BY DEF WaitingIsNew, Elems
  <2>1. m \in Elems(queue) /\ row[m] # "delivered" /\ m \in Elems(posted)
    BY <1>1
  <2>2. CASE m \in lost
    BY <2>2
  <2>3. ASSUME NEW w \in Workers, worker[w].at = "record", worker[w].msg = m
        PROVE  \/ m \in lost'
               \/ \E v \in Workers : worker'[v].at = "record" /\ worker'[v].msg = m
    <3>1. worker'[w] = worker[w] \/ m \in lost'
      BY <2>3
    <3> QED
      BY <2>3, <3>1
  <2> QED
    BY <2>1, <2>2, <2>3 DEF OInv, WaitingIsNew
<1> QED
  BY <1>2, <1>3, <1>4 DEF OInv

LEMMA InitOInv == Init => OInv
<1> SUFFICES ASSUME Init PROVE OInv
  OBVIOUS
<1>1. posted = <<>> /\ Elems(posted) = {}
  BY DEF Init, Elems
<1> QED
  BY <1>1 DEF OInv, WaitingIsNew, DirectIsNew, PostedOnce

\* The steps that touch none of it.
story == <<queue, row, worker, sender, posted, lost>>
LEMMA StoryOInv == OInv /\ UNCHANGED story => OInv'
<1> SUFFICES ASSUME OInv, UNCHANGED story PROVE OInv'
  OBVIOUS
<1> USE DEF story
<1>1. Elems(queue') = Elems(queue)
  OBVIOUS
<1> QED
  BY <1>1, NothingAccepted

LEMMA JoinOInv ==
    ASSUME IInv, OInv, NEW m \in Messages, NEW next \in {"done", "enqueue"},
           sender[m] = "new",
           queue' = Append(queue, m),
           row' = [row EXCEPT ![m] = "pending"],
           sender' = [sender EXCEPT ![m] = next],
           UNCHANGED <<worker, posted, lost>>
    PROVE  OInv'
<1>1. queue \in Seq(Messages) /\ row \in [Messages -> {"none", "pending", "processing", "delivered"}]
      /\ DOMAIN sender = Messages
  BY DEF IInv, Shapes
<1>2. Elems(queue') = Elems(queue) \cup {m}
  BY <1>1, AppendFacts
<1>3. m \notin Elems(posted)
  BY DEF IInv, QueueInv, NewIsUnknown
<1>4. \A n \in Elems(queue') : row'[n] # "delivered" =>
          (n \in Elems(queue) /\ row[n] # "delivered") \/ n \notin Elems(posted)
  BY <1>1, <1>2, <1>3
<1>5. \A n \in Posts : sender'[n] = "post" => sender[n] = "post" \/ n \notin Elems(posted)
  BY <1>1, <1>3 DEF Messages
<1> QED
  BY <1>4, <1>5, NothingAccepted

LEMMA SenderOInv ==
    ASSUME IInv, OInv, NEW m \in Messages,
           NEW next \in {"post", "record", "release", "done"},
           sender' = [sender EXCEPT ![m] = next],
           next = "post" => m \notin Elems(posted),
           lost \subseteq lost',
           UNCHANGED <<queue, row, worker, posted>>
    PROVE  OInv'
<1>1. Elems(queue') = Elems(queue)
  OBVIOUS
<1>2. \A n \in Posts : sender'[n] = "post" => sender[n] = "post" \/ n \notin Elems(posted)
  BY DEF IInv, Shapes, Messages
<1> QED
  BY <1>1, <1>2, NothingAccepted

LEMMA PostDirectOInv ==
    ASSUME IInv, OInv, NEW m \in Posts, PostDirect(m) PROVE OInv'
<1>1. m \in Messages
  BY DEF Messages
<1>2. sender[m] = "post" /\ m \notin Elems(queue) /\ m \notin Elems(posted)
  BY DEF PostDirect, IInv, QueueInv, DirectIsNotQueued, OInv, DirectIsNew
<1>3. PICK next \in {"record", "release"} : sender' = [sender EXCEPT ![m] = next]
  BY DEF PostDirect
<1>4. UNCHANGED <<queue, row, worker>> /\ lost \subseteq lost'
  BY DEF PostDirect, rows
<1>5. CASE UNCHANGED posted
  BY <1>1, <1>3, <1>4, <1>5, SenderOInv
<1>6. CASE posted' = Append(posted, m)
  <2>1. Elems(posted') = Elems(posted) \cup {m}
    BY <1>1, <1>6, AppendFacts DEF IInv, Shapes
  <2>2. WaitingIsNew'
    <3> SUFFICES ASSUME NEW n \in Elems(queue), row[n] # "delivered", n \in Elems(posted')
                 PROVE  \/ n \in lost'
                        \/ \E w \in Workers : worker[w].at = "record" /\ worker[w].msg = n
      BY <1>4 DEF WaitingIsNew, Elems
    <3>1. n \in Elems(posted)
      BY <1>2, <2>1
    <3> QED
      BY <1>4, <3>1 DEF OInv, WaitingIsNew
  <2>3. DirectIsNew'
    <3> SUFFICES ASSUME NEW n \in Posts, sender'[n] = "post" PROVE n \notin Elems(posted')
      BY DEF DirectIsNew, Elems
    <3>1. n # m /\ sender[n] = "post"
      BY <1>1, <1>3 DEF IInv, Shapes, Messages
    <3> QED
      BY <2>1, <3>1 DEF OInv, DirectIsNew
  <2>4. PostedOnce'
    BY <1>1, <1>2, <1>4, <1>6, AcceptOnce DEF OInv
  <2> QED
    BY <2>2, <2>3, <2>4 DEF OInv
<1> QED
  BY <1>5, <1>6 DEF PostDirect, Accept, Refuse

LEMMA SendersOInv ==
    ASSUME IInv, OInv, NEW m \in Messages
    PROVE  /\ m \in Posts /\ CreateIntent(m) => OInv'
           /\ m \in Posts /\ (RecordDirect(m) \/ ReleaseDirect(m)) => OInv'
           /\ AppendTrigger(m) => OInv'
           /\ EnqueueTrigger(m) => OInv'
<1>1. ASSUME CreateIntent(m) PROVE OInv'
  <2>1. CASE status = "active"
    <3>1. /\ sender[m] = "new"
          /\ queue' = Append(queue, m)
          /\ row' = [row EXCEPT ![m] = "pending"]
          /\ sender' = [sender EXCEPT ![m] = "done"]
          /\ UNCHANGED <<worker, posted, lost>>
      BY <1>1, <2>1 DEF CreateIntent
    <3> QED
      BY <3>1, JoinOInv
  <2>2. CASE status # "active"
    <3>1. /\ sender[m] = "new"
          /\ sender' = [sender EXCEPT ![m] = "post"]
          /\ UNCHANGED <<queue, row, worker, posted, lost>>
      BY <1>1, <2>2 DEF CreateIntent
    <3>2. m \notin Elems(posted)
      BY <3>1 DEF IInv, QueueInv, NewIsUnknown
    <3> QED
      BY <3>1, <3>2, SenderOInv
  <2> QED
    BY <2>1, <2>2
<1>2. ASSUME RecordDirect(m) \/ ReleaseDirect(m) PROVE OInv'
  <2>1. /\ sender' = [sender EXCEPT ![m] = "done"]
        /\ UNCHANGED <<queue, row, worker, posted, lost>>
    BY <1>2 DEF RecordDirect, ReleaseDirect, rows
  <2> QED
    BY <2>1, SenderOInv
<1>3. ASSUME AppendTrigger(m) PROVE OInv'
  <2>1. /\ sender[m] = "new"
        /\ queue' = Append(queue, m)
        /\ row' = [row EXCEPT ![m] = "pending"]
        /\ sender' = [sender EXCEPT ![m] = "enqueue"]
        /\ UNCHANGED <<worker, posted, lost>>
    BY <1>3 DEF AppendTrigger, history
  <2> QED
    BY <2>1, JoinOInv
<1>4. ASSUME EnqueueTrigger(m) PROVE OInv'
  <2>1. /\ sender' = [sender EXCEPT ![m] = "done"]
        /\ UNCHANGED <<queue, row, worker, posted, lost>>
    BY <1>4 DEF EnqueueTrigger, rows, history
  <2> QED
    BY <2>1, SenderOInv
<1> QED
  BY <1>1, <1>2, <1>3, <1>4

\* Of a row that somebody holds and is not about to write down, the runtime has
\* nothing, or has it from somebody who could not say so.
LEMMA HeldIsNew ==
    ASSUME IInv, OInv, NEW w \in Workers, Holding(w), worker[w].at # "record"
    PROVE  worker[w].msg \in Elems(posted) => worker[w].msg \in lost
<1>1. /\ worker[w].msg \in Elems(queue) /\ row[worker[w].msg] = "processing"
      /\ OneDeliverer
  BY DEF IInv, HolderInv, HolderLeases
<1>2. ASSUME NEW v \in Workers, worker[v].at = "record" PROVE FALSE
  <2>1. Holding(v)
    BY <1>2 DEF Holding
  <2> QED
    BY <1>1, <1>2, <2>1 DEF OneDeliverer
<1>3. row[worker[w].msg] # "delivered"
  BY <1>1
<1> QED
  BY <1>1, <1>2, <1>3 DEF OInv, WaitingIsNew

LEMMA PostClaimOInv ==
    ASSUME IInv, OInv, NEW w \in Workers, NEW m, m = worker[w].msg, PostClaim(w)
    PROVE  OInv'
<1>1. /\ worker[w].at = "post" /\ Holding(w) /\ UNCHANGED <<queue, row, sender>>
      /\ lost \subseteq lost'
  BY DEF PostClaim, Holding, rows
<1>2. m \in Elems(queue) /\ m \in Messages /\ (m \in Elems(posted) => m \in lost)
  <2>1. m \in Elems(queue)
    BY <1>1 DEF IInv, HolderInv, HolderLeases
  <2>2. m \in Elems(posted) => m \in lost
    BY <1>1, HeldIsNew
  <2> QED
    BY <2>1, <2>2 DEF IInv, Shapes, Elems
<1>3. \A v \in Workers : v # w => worker'[v] = worker[v]
  BY DEF PostClaim, IInv, Shapes
<1>4. CASE posted' = posted
  <2>1. Elems(queue') = Elems(queue)
    BY <1>1
  <2>2. \A v \in Workers : worker[v].at = "record" => worker'[v] = worker[v]
    BY <1>1, <1>3
  <2> QED
    BY <1>1, <1>4, <2>1, <2>2, NothingAccepted
<1>5. CASE posted' = Append(posted, m)
  <2>1. Elems(posted') = Elems(posted) \cup {m}
    BY <1>2, <1>5, AppendFacts DEF IInv, Shapes
  <2>2. m \in lost' \/ (worker'[w].at = "record" /\ worker'[w].msg = m)
    <3>1. posted # Append(posted, m)
      <4>1. Len(Append(posted, m)) = Len(posted) + 1 /\ Len(posted) \in Nat
        BY <1>2, AppendFacts DEF IInv, Shapes
      <4> QED
        BY <4>1
    <3>2. \/ worker' = [worker EXCEPT ![w].at = "record"]
          \/ lost' = lost \cup {m}
      BY <1>5, <3>1 DEF PostClaim, Refuse
    <3>3. worker \in [Workers -> WorkerState]
      BY DEF IInv, Shapes
    <3> QED
      BY <3>2, <3>3 DEF WorkerState
  <2>3. WaitingIsNew'
    <3> SUFFICES ASSUME NEW n \in Elems(queue), row[n] # "delivered", n \in Elems(posted')
                 PROVE  \/ n \in lost'
                        \/ \E v \in Workers : worker'[v].at = "record" /\ worker'[v].msg = n
      BY <1>1 DEF WaitingIsNew, Elems
    <3>1. CASE n = m
      BY <2>2, <3>1
    <3>2. CASE n \in Elems(posted)
      <4>1. n \in lost \/ \E v \in Workers : worker[v].at = "record" /\ worker[v].msg = n
        BY <3>2 DEF OInv, WaitingIsNew
      <4>2. \A v \in Workers : worker[v].at = "record" => worker'[v] = worker[v]
        BY <1>1, <1>3
      <4> QED
        BY <1>1, <4>1, <4>2
    <3> QED
      BY <2>1, <3>1, <3>2
  <2>4. DirectIsNew'
    <3> SUFFICES ASSUME NEW n \in Posts, sender[n] = "post" PROVE n \notin Elems(posted')
      BY <1>1 DEF DirectIsNew, Elems
    <3>1. n # m
      BY <1>2 DEF IInv, QueueInv, DirectIsNotQueued
    <3> QED
      BY <2>1, <3>1 DEF OInv, DirectIsNew
  <2>5. PostedOnce'
    BY <1>1, <1>2, <1>5, AcceptOnce DEF OInv
  <2> QED
    BY <2>3, <2>4, <2>5 DEF OInv
<1> QED
  BY <1>4, <1>5 DEF PostClaim, Accept, Refuse

LEMMA WorkersOInv ==
    ASSUME IInv, OInv, NEW w \in Workers
    PROVE  /\ \A k \in 0..MaxRetry : DropTask(w, k) => OInv'
           /\ \A k \in 0..MaxRetry, i \in 1..Len(queue) : ClaimNext(w, k, i) => OInv'
           /\ MarkDelivered(w) => OInv'
           /\ ReleaseClaim(w) => OInv'
           /\ ReleaseTurn(w) \/ Abandon(w) => OInv'
<1>0. /\ worker \in [Workers -> WorkerState] /\ queue \in Seq(Messages)
      /\ row \in [Messages -> {"none", "pending", "processing", "delivered"}]
  BY DEF IInv, Shapes
<1>1. ASSUME NEW k \in 0..MaxRetry, DropTask(w, k) PROVE OInv'
  <2>1. UNCHANGED story
    BY <1>1 DEF DropTask, story, rows
  <2> QED
    BY <2>1, StoryOInv
<1>2. ASSUME NEW k \in 0..MaxRetry, NEW i \in 1..Len(queue), ClaimNext(w, k, i) PROVE OInv'
  <2>1. /\ worker[w] = Idle /\ Claimable(i) /\ row' = [row EXCEPT ![queue[i]] = "processing"]
        /\ worker' = [worker EXCEPT ![w] = [at |-> "post", msg |-> queue[i], try |-> k]]
        /\ UNCHANGED <<queue, sender, posted, lost>>
    BY <1>2 DEF ClaimNext, history
  <2>2. queue[i] \in Messages /\ row[queue[i]] # "delivered" /\ Elems(queue') = Elems(queue)
    BY <1>0, <2>1 DEF Claimable
  <2>3. \A n \in Elems(queue') : row'[n] # "delivered" => row[n] # "delivered"
    <3> SUFFICES ASSUME NEW n \in Elems(queue), row'[n] # "delivered" PROVE row[n] # "delivered"
      BY <2>2
    <3>1. n \in Messages
      BY <1>0 DEF Elems
    <3> QED
      BY <1>0, <2>1, <2>2, <3>1
  <2>4. \A v \in Workers : worker[v].at = "record" => worker'[v] = worker[v]
    BY <1>0, <2>1 DEF Idle
  <2> QED
    BY <2>1, <2>2, <2>3, <2>4, NothingAccepted
<1>3. ASSUME MarkDelivered(w) PROVE OInv'
  <2>1. /\ worker[w].at = "record"
        /\ row' = [row EXCEPT ![worker[w].msg] = "delivered"]
        /\ worker' = [worker EXCEPT ![w] = Idle]
        /\ UNCHANGED <<queue, sender, posted, lost>>
    BY <1>3 DEF MarkDelivered, history
  <2>2. worker[w].msg \in Messages /\ Elems(queue') = Elems(queue)
    BY <2>1, Held DEF Holding
  <2>3. row'[worker[w].msg] = "delivered"
    BY <1>0, <2>1, <2>2
  <2>4. \A n \in Elems(queue') : row'[n] # "delivered" => row[n] # "delivered"
    <3> SUFFICES ASSUME NEW n \in Elems(queue), row'[n] # "delivered" PROVE row[n] # "delivered"
      BY <2>2
    <3>1. n \in Messages
      BY <1>0 DEF Elems
    <3> QED
      BY <1>0, <2>1, <2>2, <3>1
  <2>5. \A v \in Workers : v # w => worker'[v] = worker[v]
    BY <1>0, <2>1
  <2> QED
    BY <2>1, <2>2, <2>3, <2>4, <2>5, NothingAccepted
<1>4. ASSUME ReleaseClaim(w) PROVE OInv'
  <2>1. /\ worker[w].at # "record" /\ Holding(w)
        /\ \A v \in Workers : v # w => worker'[v] = worker[v]
        /\ UNCHANGED <<queue, sender, posted, lost>>
    BY <1>0, <1>4 DEF ReleaseClaim, history, Holding
  <2>2. row' = [row EXCEPT ![worker[w].msg] = "pending"] /\ row[worker[w].msg] = "processing"
    BY <1>4, <2>1 DEF ReleaseClaim, IInv, HolderInv, HolderLeases
  <2>3. \A n \in Elems(queue') : row'[n] # "delivered" => n \in Elems(queue) /\ row[n] # "delivered"
    <3> SUFFICES ASSUME NEW n \in Elems(queue), row'[n] # "delivered" PROVE row[n] # "delivered"
      BY <2>1
    <3>1. n \in Messages /\ worker[w].msg \in Messages
      BY <1>0, <2>1, Held DEF Elems
    <3> QED
      BY <1>0, <2>2, <3>1
  <2>4. \A v \in Workers : worker[v].at = "record" => worker'[v] = worker[v]
    BY <2>1
  <2> QED
    BY <2>1, <2>3, <2>4, NothingAccepted
<1>5. ASSUME ReleaseTurn(w) \/ Abandon(w) PROVE OInv'
  <2>1. /\ \A v \in Workers : v # w => worker'[v] = worker[v]
        /\ worker[w].at = "record" => worker[w].msg \in lost'
        /\ lost \subseteq lost'
        /\ UNCHANGED <<queue, row, sender, posted>>
    BY <1>0, <1>5 DEF ReleaseTurn, Abandon, rows
  <2>2. Elems(queue') = Elems(queue)
    BY <2>1
  <2> QED
    BY <2>1, <2>2, NothingAccepted
<1> QED
  BY <1>1, <1>2, <1>3, <1>4, <1>5

LEMMA NextOInv == IInv /\ OInv /\ [Next]_vars => OInv'
<1> SUFFICES ASSUME IInv, OInv, [Next]_vars PROVE OInv'
  OBVIOUS
<1>1. ASSUME NEW m \in Posts, CreateIntent(m) PROVE OInv'
  BY <1>1, SendersOInv DEF Messages
<1>2. ASSUME NEW m \in Triggers, AppendTrigger(m) PROVE OInv'
  BY <1>2, SendersOInv DEF Messages
<1>3. ASSUME NEW m \in Messages, SenderStep(m) PROVE OInv'
  BY <1>3, SendersOInv, PostDirectOInv DEF SenderStep
<1>4. ASSUME NEW m \in Messages, LeaseExpires(m) PROVE OInv'
  <2>1. UNCHANGED story
    BY <1>4 DEF LeaseExpires, story, actors, history
  <2> QED
    BY <2>1, StoryOInv
<1>5. ASSUME NEW w \in Workers, WorkerStep(w) PROVE OInv'
  BY <1>5, WorkersOInv, PostClaimOInv DEF WorkerStep
<1>6. ASSUME NEW w \in Workers, Abandon(w) PROVE OInv'
  BY <1>6, WorkersOInv
<1>7. ASSUME RuntimeStart \/ RuntimeFinish \/ RuntimeCrash \/ Drain PROVE UNCHANGED story
  BY <1>7 DEF RuntimeStart, RuntimeFinish, RuntimeCrash, Drain, story, rows, actors
<1>8. ASSUME Project \/ ProjectFails \/ (\E e \in unacked : ProjectAgain(e))
      PROVE  UNCHANGED story
  BY <1>8 DEF Project, ProjectFails, ProjectAgain, story, rows, actors, history
<1>9. ASSUME \E e \in callbacks : Callback(e) PROVE UNCHANGED story
  BY <1>9 DEF Callback, story, rows, actors
<1>10. ASSUME Interrupt \/ InterruptRelease \/ InterruptEnqueue \/ Watchdog
       PROVE  UNCHANGED story
  BY <1>10 DEF Interrupt, InterruptRelease, InterruptEnqueue, Watchdog, story, rows,
     actors, history
<1>11. ASSUME UNCHANGED vars PROVE UNCHANGED story
  BY <1>11 DEF vars, story, rows, actors, history
<1> QED
  BY <1>1, <1>2, <1>3, <1>4, <1>5, <1>6, <1>7, <1>8, <1>9, <1>10, <1>11, StoryOInv DEF Next

\* A message reaches the runtime twice only if whoever brought it could not write
\* down that it had: a retried task, an expired lease or a late event alone never
\* repeats one (claimNext, deliverClaim, markDelivered, createSessionMessageIntent).
THEOREM PostedOnceTheorem == Spec => []PostedOnce
<1>1. Init => IInv /\ OInv
  BY InitIInv, InitOInv
<1>2. IInv /\ OInv /\ [Next]_vars => IInv' /\ OInv'
  BY NextIInv, NextOInv
<1>3. OInv => PostedOnce
  BY DEF OInv
<1> QED
  BY <1>1, <1>2, <1>3, PTL DEF Spec

-----------------------------------------------------------------------------
(* Rows to deliver are not forgotten.                                        *)

\* Who will look at the queue: a task, a worker, the trigger's own task, the
\* interrupt, or the end of a turn on its way to the projector.  A turn that
\* still runs and a direct delivery under way are not needed.
Hand ==
    \/ \E k \in 0..MaxRetry : tasks[k] > 0
    \/ \E w \in Workers : worker[w] # Idle
    \/ \E m \in Messages : sender[m] = "enqueue"
    \/ interrupt = "count"
    \/ Ends(Elems(stream)) \/ Ends(unacked)

InHand == status = "idle" => Hand \/ Undelivered \subseteq stranded

LEMMA InHandIsCarried == InHand => Carried
BY DEF InHand, Carried, Hand, Carrier

LEMMA InitInHand == Init => InHand
BY DEF Init, InHand, Undelivered

\* A step that leaves the session's status and takes nobody away who would look.
LEMMA StillInHand ==
    ASSUME InHand, UNCHANGED status, Hand => Hand',
           Undelivered' \subseteq Undelivered, stranded \subseteq stranded'
    PROVE  InHand'
BY DEF InHand

\* The ways a step leaves somebody who will look, or notes that nobody does.
LEMMA Someone ==
    /\ TasksOK /\ Enqueue => Hand'
    /\ \A k \in 0..MaxRetry : TasksOK /\ k < MaxRetry /\ Retry(k) => Hand'
    /\ Hand' => InHand'
    /\ status' = "active" => InHand'
    /\ Undelivered' \subseteq stranded' => InHand'
<1>1. ASSUME TasksOK, Enqueue PROVE Hand'
  <2>1. 0 \in 0..MaxRetry /\ tasks[0] \in Nat
    BY <1>1, BoundsAssumption DEF TasksOK
  <2>2. tasks'[0] > 0
    BY <1>1, <2>1 DEF TasksOK, Enqueue
  <2> QED
    BY <2>1, <2>2 DEF Hand
<1>2. ASSUME NEW k \in 0..MaxRetry, TasksOK, k < MaxRetry, Retry(k) PROVE Hand'
  <2>1. k + 1 \in 0..MaxRetry
    BY <1>2, BoundsAssumption
  <2>2. tasks[k + 1] \in Nat /\ DOMAIN tasks = 0..MaxRetry
    BY <1>2, <2>1 DEF TasksOK
  <2>3. tasks' = [tasks EXCEPT ![k + 1] = @ + 1]
    BY <1>2 DEF Retry
  <2>4. tasks'[k + 1] > 0
    BY <2>1, <2>2, <2>3
  <2> QED
    BY <2>1, <2>4 DEF Hand
<1> QED
  BY <1>1, <1>2 DEF InHand

\* What the steps below leave alone, name by name.
LEMMA SameHand ==
    ASSUME UNCHANGED <<tasks, worker, sender, interrupt, stream, unacked>>
    PROVE  Hand' = Hand
<1>1. Elems(stream') = Elems(stream)
  OBVIOUS
<1>2. /\ (\E k \in 0..MaxRetry : tasks'[k] > 0) = (\E k \in 0..MaxRetry : tasks[k] > 0)
      /\ (\E w \in Workers : worker'[w] # Idle) = (\E w \in Workers : worker[w] # Idle)
      /\ (\E m \in Messages : sender'[m] = "enqueue")
             = (\E m \in Messages : sender[m] = "enqueue")
      /\ (interrupt' = "count") = (interrupt = "count")
      /\ Ends(Elems(stream')) = Ends(Elems(stream)) /\ Ends(unacked') = Ends(unacked)
  BY <1>1
<1> QED
  BY ONLY <1>2 DEF Hand

LEMMA SendersInHand ==
    ASSUME IInv, Rest, InHand, NEW m \in Messages
    PROVE  /\ CreateIntent(m) => InHand'
           /\ AppendTrigger(m) => InHand'
           /\ PostDirect(m) => InHand'
           /\ RecordDirect(m) => InHand'
           /\ ReleaseDirect(m) => InHand'
           /\ EnqueueTrigger(m) => InHand'
           /\ LeaseExpires(m) => InHand'
<1> USE Someone
<1>0. DOMAIN sender = Messages /\ SessionOK /\ TasksOK
  BY DEF IInv, Shapes, Rest
<1>1. ASSUME CreateIntent(m) PROVE InHand'
  <2>1. status' = "active"
    BY <1>1 DEF CreateIntent, Starting, session
  <2> QED
    BY <2>1
<1>2. ASSUME AppendTrigger(m) PROVE InHand'
  <2>1. sender'[m] = "enqueue"
    BY <1>0, <1>2 DEF AppendTrigger
  <2>2. Hand'
    BY <2>1 DEF Hand
  <2> QED
    BY <2>2
\* Another step of a sender than the one that appends or enqueues.
<1>3. ASSUME sender[m] # "enqueue", NEW next, sender' = [sender EXCEPT ![m] = next],
             UNCHANGED <<tasks, worker, interrupt, stream, unacked, row, stranded, status>>
      PROVE  InHand'
  <2>1. \A n \in Messages : sender[n] = "enqueue" => sender'[n] = "enqueue"
    BY <1>0, <1>3
  <2>2. Elems(stream') = Elems(stream) /\ Undelivered' = Undelivered
    BY <1>3 DEF Undelivered
  <2>3. Hand => Hand'
    BY <1>3, <2>1, <2>2 DEF Hand
  <2> QED
    BY <1>3, <2>2, <2>3, StillInHand
<1>4. ASSUME PostDirect(m) PROVE InHand'
  <2>1. PICK next \in {"record", "release"} : sender' = [sender EXCEPT ![m] = next]
    BY <1>4 DEF PostDirect
  <2>2. /\ sender[m] # "enqueue"
        /\ UNCHANGED <<tasks, worker, interrupt, stream, unacked, row, stranded, status>>
    BY <1>4 DEF PostDirect, session, rows, events
  <2> QED
    BY <1>3, <2>1, <2>2
<1>5. ASSUME RecordDirect(m) PROVE InHand'
  <2>1. /\ sender[m] # "enqueue" /\ sender' = [sender EXCEPT ![m] = "done"]
        /\ status' = "active" \/ status' = status
        /\ UNCHANGED <<tasks, worker, interrupt, stream, unacked, row, stranded>>
    BY <1>5 DEF RecordDirect, Active, session, rows, events
  <2> QED
    BY <1>3, <2>1
<1>6. ASSUME ReleaseDirect(m) PROVE InHand'
  <2>1. CASE stranded' = stranded \cup Undelivered
    <3>1. Undelivered' \subseteq stranded'
      BY <1>6, <2>1 DEF ReleaseDirect, rows, Undelivered
    <3> QED
      BY <3>1
  <2>2. CASE UNCHANGED <<session, stranded>>
    <3>1. /\ sender[m] # "enqueue" /\ sender' = [sender EXCEPT ![m] = "done"]
          /\ UNCHANGED <<tasks, worker, interrupt, stream, unacked, row, stranded, status>>
      BY <1>6, <2>2 DEF ReleaseDirect, session, rows, events
    <3> QED
      BY <1>3, <3>1
  <2> QED
    BY <1>6, <2>1, <2>2 DEF ReleaseDirect
<1>7. ASSUME EnqueueTrigger(m) PROVE InHand'
  <2>1. CASE Enqueue
    BY <1>0, <2>1
  <2>2. CASE stranded' = stranded \cup Undelivered
    <3>1. Undelivered' \subseteq stranded'
      BY <1>7, <2>2 DEF EnqueueTrigger, rows, Undelivered
    <3> QED
      BY <3>1
  <2> QED
    BY <1>7, <2>1, <2>2 DEF EnqueueTrigger
<1>8. ASSUME LeaseExpires(m) PROVE InHand'
  <2>1. UNCHANGED <<tasks, worker, sender, interrupt, stream, unacked, row, stranded, status>>
    BY <1>8 DEF LeaseExpires, session, actors, events, history
  <2>2. Undelivered' = Undelivered
    BY <2>1 DEF Undelivered
  <2>3. Hand' = Hand
    BY <2>1, SameHand
  <2> QED
    BY <2>1, <2>2, <2>3, StillInHand
<1> QED
  BY <1>1, <1>2, <1>4, <1>5, <1>6, <1>7, <1>8

LEMMA WorkersInHand ==
    ASSUME IInv, Rest, InHand, NEW w \in Workers
    PROVE  WorkerStep(w) \/ Abandon(w) => InHand'
<1> USE Someone
<1>0. /\ worker \in [Workers -> WorkerState] /\ SessionOK /\ TasksOK
      /\ worker[w].try \in 0..MaxRetry
  BY DEF IInv, Shapes, WorkerState, Rest
\* A worker that is busy, or stays so, is somebody.
<1>1. ASSUME NEW v \in Workers, worker'[v].at # "idle" PROVE InHand'
  <2>1. worker'[v] # Idle
    BY <1>1 DEF Idle
  <2>2. Hand'
    BY <2>1 DEF Hand
  <2> QED
    BY <2>2
<1>2. ASSUME NEW k \in 0..MaxRetry, DropTask(w, k) PROVE InHand'
  <2>1. UNCHANGED <<worker, status, row>> /\ Undelivered' = Undelivered
    BY <1>2 DEF DropTask, session, rows, Undelivered
  <2>2. CASE \E v \in Workers : Holding(v)
    BY <1>1, <2>1, <2>2 DEF Holding
  <2>3. CASE status # "idle"
    BY <2>1, <2>3 DEF InHand
  <2>4. CASE status = "idle" /\ \A v \in Workers : ~ Holding(v)
    <3>1. stranded' = stranded \cup Undelivered
      BY <1>2, <2>4 DEF DropTask
    <3> QED
      BY <2>1, <3>1
  <2> QED
    BY <2>2, <2>3, <2>4
<1>3. ASSUME NEW k \in 0..MaxRetry, NEW i \in 1..Len(queue), ClaimNext(w, k, i) PROVE InHand'
  BY <1>3 DEF ClaimNext, Starting
<1>4. ASSUME PostClaim(w) PROVE InHand'
  <2>1. PICK pc \in AfterPost : worker' = [worker EXCEPT ![w].at = pc]
    BY <1>4 DEF PostClaim, AfterPost
  <2>2. worker'[w].at = pc /\ pc # "idle"
    BY <1>0, <2>1 DEF WorkerState, AfterPost
  <2> QED
    BY <1>1, <2>2
<1>5. ASSUME MarkDelivered(w) PROVE InHand'
  BY <1>5 DEF MarkDelivered, Active
<1>6. ASSUME ReleaseClaim(w) PROVE InHand'
  <2>1. worker'[w].at \in {"unlock", "unlock drained"}
    BY <1>0, <1>6 DEF ReleaseClaim, WorkerState
  <2> QED
    BY <1>1, <2>1
<1>7. ASSUME ReleaseTurn(w) PROVE InHand'
  <2>1. CASE worker[w].at = "unlock" /\ worker[w].try < MaxRetry
    BY <1>0, <1>7, <2>1 DEF ReleaseTurn
  <2>2. CASE ~ (worker[w].at = "unlock" /\ worker[w].try < MaxRetry)
    <3>1. stranded' = stranded \cup Undelivered /\ Undelivered' = Undelivered
      BY <1>7, <2>2 DEF ReleaseTurn, rows, Undelivered
    <3> QED
      BY <3>1
  <2> QED
    BY <2>1, <2>2
<1>8. ASSUME Abandon(w) PROVE InHand'
  <2>1. stranded' = stranded \cup Undelivered /\ Undelivered' = Undelivered
    BY <1>8 DEF Abandon, rows, Undelivered
  <2> QED
    BY <2>1
<1> QED
  BY <1>2, <1>3, <1>4, <1>5, <1>6, <1>7, <1>8 DEF WorkerStep


\* Nothing but the runtime, the session's status and the events moves.
LEMMA EventsInHand ==
    ASSUME InHand, UNCHANGED <<tasks, worker, sender, interrupt, row, stranded, status>>,
           Ends(Elems(stream)) \/ Ends(unacked) => Ends(Elems(stream')) \/ Ends(unacked')
    PROVE  InHand'
<1>1. Undelivered' = Undelivered
  BY DEF Undelivered
<1>2. Hand => Hand'
  BY DEF Hand, Elems
<1> QED
  BY <1>1, <1>2, StillInHand

LEMMA RuntimeInHand ==
    ASSUME Rest, InHand
    PROVE  /\ RuntimeStart \/ RuntimeFinish => InHand'
           /\ RuntimeCrash \/ Drain => InHand'
<1>0. stream \in Seq(Event)
  BY DEF Rest, EventsOK
<1>1. ASSUME NEW kind \in {"started", "ended"}, NEW t \in Messages, Emit(kind, t)
      PROVE  Ends(Elems(stream)) => Ends(Elems(stream'))
  <2>1. [kind |-> kind, turn |-> t] \in Event
    BY DEF Event
  <2>2. stream' = Append(stream, [kind |-> kind, turn |-> t])
    BY <1>1 DEF Emit
  <2>3. Elems(stream') = Elems(stream) \cup {[kind |-> kind, turn |-> t]}
    BY <1>0, <2>1, <2>2, AppendFacts
  <2> QED
    BY <2>3 DEF Ends
<1>2. ASSUME RuntimeStart PROVE InHand'
  <2>1. Head(inbox) \in Messages
    BY <1>2 DEF RuntimeStart, Rest, RuntimeOK
  <2>2. Ends(Elems(stream)) => Ends(Elems(stream'))
    BY <1>1, <1>2, <2>1 DEF RuntimeStart
  <2>3. UNCHANGED <<tasks, worker, sender, interrupt, row, stranded, status, unacked>>
    BY <1>2 DEF RuntimeStart, session, rows, actors
  <2> QED
    BY <2>2, <2>3, EventsInHand
<1>3. ASSUME RuntimeFinish PROVE InHand'
  <2>1. running \in Messages
    BY <1>3 DEF RuntimeFinish, Rest, RuntimeOK
  <2>2. Ends(Elems(stream)) => Ends(Elems(stream'))
    BY <1>1, <1>3, <2>1 DEF RuntimeFinish
  <2>3. UNCHANGED <<tasks, worker, sender, interrupt, row, stranded, status, unacked>>
    BY <1>3 DEF RuntimeFinish, session, rows, actors
  <2> QED
    BY <2>2, <2>3, EventsInHand
<1>4. ASSUME RuntimeCrash \/ Drain PROVE InHand'
  <2>1. UNCHANGED <<tasks, worker, sender, interrupt, row, stranded, status, stream, unacked>>
    BY <1>4 DEF RuntimeCrash, Drain, session, rows, actors, events
  <2> QED
    BY <2>1, EventsInHand
<1> QED
  BY <1>2, <1>3, <1>4

\* Each thing that gives the turn back enqueues for the queue, is followed by an
\* event or a request that does, or is among those that enqueue nothing.
LEMMA ReleasesInHand ==
    ASSUME Rest, InHand
    PROVE  /\ Project => InHand'
           /\ ProjectFails => InHand'
           /\ (\E e \in unacked : ProjectAgain(e)) => InHand'
           /\ (\E e \in callbacks : Callback(e)) => InHand'
           /\ Interrupt => InHand'
           /\ InterruptRelease => InHand'
           /\ InterruptEnqueue => InHand'
           /\ Watchdog => InHand'
           /\ UNCHANGED vars => InHand'
<1> USE Someone
<1>0. /\ stream \in Seq(Event) /\ unacked \subseteq Event /\ callbacks \subseteq Event
      /\ TasksOK /\ SessionOK
  BY DEF Rest, EventsOK
<1>1. \A e \in Event : e.kind = "started" \/ e.kind = "ended"
  BY DEF Event
<1>2. ASSUME NEW e \in Event, ProjectSessionState(e), UNCHANGED row PROVE InHand'
  <2>1. CASE e.kind = "started"
    BY <1>2, <2>1 DEF ProjectSessionState, Active
  <2>2. CASE e.kind = "ended" /\ Undelivered # {}
    BY <1>0, <1>2, <2>2 DEF ProjectSessionState
  <2>3. CASE Undelivered = {}
    <3>1. Undelivered' = {}
      BY <1>2, <2>3 DEF Undelivered
    <3> QED
      BY <3>1
  <2> QED
    BY <1>1, <2>1, <2>2, <2>3
<1>3. ASSUME stream # <<>> PROVE Head(stream) \in Event
  BY <1>0, <1>3
<1>4. ASSUME Project PROVE InHand'
  BY <1>2, <1>3, <1>4 DEF Project, rows
<1>5. ASSUME ProjectFails PROVE InHand'
  <2> DEFINE e == Head(stream)
  <2>1. /\ stream # <<>> /\ stream' = Tail(stream) /\ unacked' = unacked \cup {e}
        /\ UNCHANGED <<row, worker, sender, interrupt, stranded>>
        /\ e \in Event
    BY <1>3, <1>5 DEF ProjectFails, rows
  <2>2. CASE UNCHANGED <<session, tasks>>
    <3>1. Elems(stream) \subseteq Elems(stream') \cup {e}
      <4>1. \A i \in 1..Len(stream) : i = 1 \/ (i - 1 \in 1..Len(stream') /\ stream'[i - 1] = stream[i])
        BY <1>0, <2>1
      <4> QED
        BY <2>1, <4>1 DEF Elems
    <3>2. Ends(Elems(stream)) \/ Ends(unacked) => Ends(Elems(stream')) \/ Ends(unacked')
      BY <2>1, <3>1 DEF Ends
    <3>3. UNCHANGED <<tasks, worker, sender, interrupt, row, stranded, status>>
      BY <2>1, <2>2 DEF session
    <3> QED
      BY <3>2, <3>3, EventsInHand
  <2>3. CASE IF e.kind = "started" THEN Active(e.turn) ELSE Released
    <3>1. CASE e.kind = "started"
      BY <2>3, <3>1 DEF Active
    <3>2. CASE e.kind = "ended"
      <4>1. Ends(unacked')
        BY <2>1, <3>2 DEF Ends
      <4>2. Hand'
        BY <4>1 DEF Hand, Ends
      <4> QED
        BY <4>2
    <3> QED
      BY <1>1, <2>1, <3>1, <3>2
  <2> QED
    BY <1>5, <2>2, <2>3 DEF ProjectFails, ProjectSessionState
<1>6. ASSUME NEW e \in unacked, ProjectAgain(e) PROVE InHand'
  BY <1>0, <1>2, <1>6 DEF ProjectAgain, rows
<1>7. ASSUME NEW e \in callbacks, Callback(e) PROVE InHand'
  <2> DEFINE applies == status = "active" /\ (turn = e.turn \/ (e.kind = "started" /\ turn = None))
             late == e \notin Elems(stream) \cup unacked
  <2>1. /\ UNCHANGED <<row, tasks, worker, sender, interrupt, stream, unacked>>
        /\ IF ~applies THEN UNCHANGED session
           ELSE IF e.kind = "started" THEN Active(e.turn) ELSE Released
        /\ stranded' = IF applies /\ e.kind = "ended" /\ late
                       THEN stranded \cup Undelivered ELSE stranded
    BY <1>7 DEF Callback, rows, actors
  <2>2. Undelivered' = Undelivered
    BY <2>1 DEF Undelivered
  <2>3. CASE ~applies
    <3>1. UNCHANGED <<tasks, worker, sender, interrupt, row, stranded, status, stream, unacked>>
      BY <2>1, <2>3 DEF session
    <3> QED
      BY <3>1, EventsInHand
  <2>4. CASE applies /\ e.kind = "started"
    BY <2>1, <2>4 DEF Active
  <2>5. CASE applies /\ e.kind = "ended" /\ late
    BY <2>1, <2>2, <2>5
  <2>6. CASE e.kind = "ended" /\ ~late
    <3>1. Ends(Elems(stream)) \/ Ends(unacked)
      BY <2>6 DEF Ends
    <3>2. Hand'
      BY <2>1, <3>1, SameHand DEF Hand
    <3> QED
      BY <3>2
  <2>7. e.kind = "started" \/ e.kind = "ended"
    BY <1>0, <1>1
  <2> HIDE DEF applies, late
  <2> QED
    BY <2>3, <2>4, <2>5, <2>6, <2>7
<1>8. ASSUME Interrupt PROVE InHand'
  <2>1. /\ interrupt = "none"
        /\ UNCHANGED <<tasks, worker, sender, row, stranded, status, stream, unacked>>
    BY <1>8 DEF Interrupt, session, rows, events
  <2>2. Hand => Hand'
    BY <2>1 DEF Hand, Elems
  <2>3. Undelivered' = Undelivered
    BY <2>1 DEF Undelivered
  <2> QED
    BY <2>1, <2>2, <2>3, StillInHand
<1>9. ASSUME InterruptRelease PROVE InHand'
  <2>1. CASE interrupt' = "count"
    <3>1. Hand'
      BY <2>1 DEF Hand
    <3> QED
      BY <3>1
  <2>2. CASE UNCHANGED session
    <3>1. /\ interrupt = "release"
          /\ UNCHANGED <<tasks, worker, sender, row, stranded, status, stream, unacked>>
      BY <1>9, <2>2 DEF InterruptRelease, session, rows, events
    <3>2. Hand => Hand'
      BY <3>1 DEF Hand, Elems
    <3>3. Undelivered' = Undelivered
      BY <3>1 DEF Undelivered
    <3> QED
      BY <3>1, <3>2, <3>3, StillInHand
  <2> QED
    BY <1>9, <2>1, <2>2 DEF InterruptRelease
<1>10. ASSUME InterruptEnqueue PROVE InHand'
  <2>1. CASE Enqueue
    BY <1>0, <2>1
  <2>2. CASE Undelivered = {} \/ stranded' = stranded \cup Undelivered
    <3>1. Undelivered' \subseteq stranded'
      BY <1>10, <2>2 DEF InterruptEnqueue, rows, Undelivered
    <3> QED
      BY <3>1
  <2> QED
    BY <1>10, <2>1, <2>2 DEF InterruptEnqueue
<1>11. ASSUME Watchdog PROVE InHand'
  <2>1. stranded' = stranded \cup Undelivered /\ Undelivered' = Undelivered
    BY <1>11 DEF Watchdog, rows, Undelivered
  <2> QED
    BY <2>1
<1>12. ASSUME UNCHANGED vars PROVE InHand'
  <2>1. UNCHANGED <<tasks, worker, sender, interrupt, row, stranded, status, stream, unacked>>
    BY <1>12 DEF vars, session, rows, actors, events, history
  <2> QED
    BY <2>1, EventsInHand
<1> QED
  BY <1>4, <1>5, <1>6, <1>7, <1>8, <1>9, <1>10, <1>11, <1>12

LEMMA NextInHand == IInv /\ Rest /\ InHand /\ [Next]_vars => InHand'
<1> SUFFICES ASSUME IInv, Rest, InHand, [Next]_vars PROVE InHand'
  OBVIOUS
<1>1. ASSUME NEW m \in Messages, CreateIntent(m) \/ AppendTrigger(m) PROVE InHand'
  BY <1>1, SendersInHand
<1>2. ASSUME NEW m \in Messages, SenderStep(m) \/ LeaseExpires(m) PROVE InHand'
  BY <1>2, SendersInHand DEF SenderStep
<1>3. ASSUME NEW w \in Workers, WorkerStep(w) \/ Abandon(w) PROVE InHand'
  BY <1>3, WorkersInHand
<1> QED
  BY <1>1, <1>2, <1>3, RuntimeInHand, ReleasesInHand DEF Next, Messages

\* An idle session with rows to deliver has somebody who will, unless one of the
\* steps that enqueue nothing left them behind: a release by the watchdog, by a
\* failed direct delivery, by a callback that comes last, by a task refused, out
\* of retries, abandoned or dropped at a leased row; an interrupt that releases
\* and then fails to count or to enqueue; a trigger's task out of retries
\* (releaseSessionTurn, projectSessionState, DispatchNext, applyRuntimeTurnState,
\* releaseSessionTurnAfterInterrupt, enqueueTriggerSessionMessage).
THEOREM CarriedTheorem == Spec => []Carried
<1>1. Init => IInv /\ Rest /\ InHand
  BY InitIInv, InitRest, InitInHand
<1>2. IInv /\ Rest /\ InHand /\ [Next]_vars => IInv' /\ Rest' /\ InHand'
  BY NextIInv, NextRest, NextInHand
<1> QED
  BY <1>1, <1>2, InHandIsCarried, PTL DEF Spec
=============================================================================
