------------------------ MODULE TriggerDeliveryProofs ------------------------
(***************************************************************************)
(* Theorems about TriggerDelivery for any events, tasks, connections and   *)
(* numbers of faults: a key is in one message, a message that may be       *)
(* delivered does not change any more, and a key whose tasks are done is   *)
(* in the queue unless a claim was left behind.                            *)
(***************************************************************************)
EXTENDS TriggerDelivery, FiniteSetTheorems, TLAPS

Steps == {"due", "append", "ask", "done"}
Statuses == {"buffering", "pending", "processing", "delivered"}
RowType == [keys : SUBSET Keys, batch : {"none", "routed", "triggered"}, status : Statuses]

\* A key is in one row.
OneRow == \A e \in Keys : \A i, j \in DOMAIN queue :
    e \in queue[i].keys /\ e \in queue[j].keys => i = j

Held(e) == \E i \in DOMAIN queue : e \in queue[i].keys

\* A claim stands for a key that is in the queue, or for a task that will put it there,
\* or it was left behind.  Routed tasks make no claim.
ClaimsStand ==
    \A d \in Deliveries \ Routed : ClaimOf[d] \in claims =>
        \/ Held(Key(d)) \/ ClaimOf[d] \in lost
        \/ \E f \in Deliveries \ Routed : ClaimOf[f] = ClaimOf[d] /\ at[f].step = "append"

\* A task that has gone past its claim leaves its key in the queue, or another task of the
\* same claim is still to bring it there, or the claim was left behind.
PastClaim ==
    \A d \in Deliveries : at[d].step \in {"ask", "done"} =>
        \/ Held(Key(d))
        \/ /\ d \notin Routed
           /\ \/ ClaimOf[d] \in lost
              \/ \E f \in Deliveries \ Routed :
                    ClaimOf[f] = ClaimOf[d] /\ at[f].step \in {"due", "append"}

IInv == TypeOK /\ OneRow /\ ClaimsStand /\ PastClaim
-----------------------------------------------------------------------------
LEMMA RowsFinite == Cardinality(Keys) \in Nat /\ Rows = 1..Cardinality(Keys)
<1> DEFINE f == [d \in Deliveries |-> Key(d)]
<1>1. f \in Surjection(Deliveries, Keys)
  BY DEF Surjection, Keys
<1>2. IsFiniteSet(Keys)
  BY <1>1, ShapeAssumption, FS_Surjection
<1> QED
  BY <1>2, FS_CardinalityType DEF Rows

LEMMA NoneIsNoRow == None \notin Rows
BY RowsFinite, ShapeAssumption

\* Tasks that share a claim share the key they bring, unless one of them is routed.
LEMMA KeysOfTasks ==
    /\ \A d \in Deliveries : Key(d) \in Keys /\ ClaimOf[d] \in Claims
    /\ \A d, f \in Deliveries \ Routed : ClaimOf[d] = ClaimOf[f] => Key(d) = Key(f)
<1>1. \A d \in Deliveries : Key(d) \in Keys /\ ClaimOf[d] \in Claims
  BY DEF Claims, Keys
<1>2. ASSUME NEW d \in Deliveries \ Routed, NEW f \in Deliveries \ Routed,
             ClaimOf[d] = ClaimOf[f]
      PROVE  Key(d) = Key(f)
  BY <1>2, ShapeAssumption DEF Key
<1> QED
  BY <1>1, <1>2

LEMMA MoreType == \A n \in 0..MaxTasks : More(n) \in 0..MaxTasks
BY ShapeAssumption DEF More

\* A set without two different members has at most one.
LEMMA AtMostOne ==
    ASSUME NEW S, \A x, y \in S : x = y
    PROVE  Cardinality(S) <= 1
<1>1. CASE S = {}
  BY <1>1, FS_EmptySet
<1>2. CASE S # {}
  <2>1. PICK x \in S : TRUE
    BY <1>2
  <2>2. S = {x}
    BY <2>1
  <2> QED
    BY <2>2, FS_Singleton
<1> QED
  BY <1>1, <1>2

LEMMA InitIInv == Init => IInv
<1> SUFFICES ASSUME Init PROVE IInv
  OBVIOUS
<1> USE DEF Init
<1>1. DOMAIN queue = {} /\ Len(queue) = 0 /\ queue \in Seq(RowType)
  OBVIOUS
<1>2. TypeOK
  <2>1. Len(queue) <= Cardinality(Keys)
    BY <1>1, RowsFinite
  <2>2. \A d \in Deliveries : at[d].step = "due" /\ at[d].row = None
    OBVIOUS
  <2>3. at \in [Deliveries -> [step : {"due", "append", "ask", "done"}, row : Rows \cup {None}]]
    OBVIOUS
  <2>4. /\ flushes \in [Rows -> 0..MaxTasks] /\ \A i \in Rows : ~ flushes[i] > 0
        /\ delivers \in 0..MaxTasks /\ faults \in 0..MaxFaults
    BY ShapeAssumption
  <2> QED
    BY <1>1, <2>1, <2>2, <2>3, <2>4 DEF TypeOK, RowType, Statuses, Review
<1>3. OneRow /\ ClaimsStand /\ PastClaim
  BY <1>1 DEF OneRow, ClaimsStand, PastClaim
<1> QED
  BY <1>2, <1>3 DEF IInv
-----------------------------------------------------------------------------
(* What the steps do to the queue.                                           *)

\* A step of the queue that keeps rows and keys in place.
Keeps == /\ queue' \in Seq(RowType) /\ DOMAIN queue' = DOMAIN queue
         /\ \A i \in DOMAIN queue : queue'[i].keys = queue[i].keys

LEMMA SetKeeps ==
    ASSUME TypeOK, NEW i \in DOMAIN queue,
           NEW st \in Statuses, Set(i, st)
    PROVE  /\ Keeps /\ queue'[i].status = st
           /\ \A j \in DOMAIN queue : j # i => queue'[j] = queue[j]
<1>1. queue \in Seq(RowType)
  BY DEF TypeOK, RowType, Statuses
<1>2. queue' = [queue EXCEPT ![i].status = st]
  BY DEF Set
<1>3. queue[i] \in RowType
  BY <1>1
<1>4. [queue[i] EXCEPT !.status = st] \in RowType
  BY <1>3 DEF RowType
<1>5. queue' = [queue EXCEPT ![i] = [queue[i] EXCEPT !.status = st]]
  BY <1>2
<1>6. queue' \in Seq(RowType)
  BY <1>1, <1>4, <1>5
<1> QED
  BY <1>1, <1>2, <1>3, <1>6 DEF Keeps, RowType

LEMMA SameKeeps == ASSUME TypeOK, UNCHANGED queue PROVE Keeps
BY DEF TypeOK, RowType, Statuses, Keeps

LEMMA KeepsOneRow ==
    ASSUME IInv, Keeps
    PROVE  OneRow' /\ (\A e \in Keys : Held(e)' <=> Held(e)) /\ Len(queue') = Len(queue)
<1>1. queue \in Seq(RowType) /\ queue' \in Seq(RowType) /\ DOMAIN queue = DOMAIN queue'
  BY DEF IInv, TypeOK, RowType, Statuses, Keeps
<1>2. Len(queue') = Len(queue)
  BY <1>1
<1>3. OneRow'
  BY <1>1 DEF IInv, OneRow, Keeps
<1>4. \A e \in Keys : Held(e)' <=> Held(e)
  BY <1>1 DEF Held, Keeps
<1> QED
  BY <1>2, <1>3, <1>4

\* The write of a key puts it in one row and leaves the others where they are.
LEMMA WrittenFacts ==
    ASSUME IInv, NEW d \in Deliveries, NEW i \in Rows, Written(d, i)
    PROVE  /\ queue' \in Seq(RowType) /\ Len(queue') <= Cardinality(Keys)
           /\ DOMAIN queue \subseteq DOMAIN queue' /\ i \in DOMAIN queue'
           /\ OneRow' /\ Held(Key(d))'
           /\ \A e \in Keys : Held(e) => Held(e)'
           /\ \A j \in DOMAIN queue : queue[j].status # "buffering" => queue'[j] = queue[j]
<1> DEFINE e == Key(d)
<1>0. e \in Keys /\ i \in Nat /\ i <= Cardinality(Keys) /\ Cardinality(Keys) \in Nat
  BY KeysOfTasks, RowsFinite
<1>1. /\ queue \in Seq(RowType) /\ Len(queue) <= Cardinality(Keys)
      /\ DOMAIN queue = 1..Len(queue) /\ Len(queue) \in Nat
  BY DEF IInv, TypeOK, RowType, Statuses
<1>2. OneRow
  BY DEF IInv
<1>3. CASE i \in Known(d) /\ UNCHANGED queue
  BY <1>0, <1>1, <1>2, <1>3 DEF Known, Holding, Held, OneRow
<1>4. CASE /\ Known(d) = {} /\ Review(d) /\ i \in Batches(d)
           /\ queue' = [queue EXCEPT ![i].keys = @ \cup {e}]
  <2>1. i \in DOMAIN queue /\ queue[i].status = "buffering"
    BY <1>4 DEF Batches
  <2>2. ~ Held(e)
    BY <1>4 DEF Known, Holding, Held
  <2>3. /\ [queue[i] EXCEPT !.keys = @ \cup {e}] \in RowType
        /\ queue' = [queue EXCEPT ![i] = [queue[i] EXCEPT !.keys = @ \cup {e}]]
    <3>1. queue[i] \in RowType
      BY <1>1, <2>1
    <3>2. [queue[i] EXCEPT !.keys = @ \cup {e}] \in RowType
      BY <1>0, <3>1 DEF RowType
    <3> QED
      BY <1>4, <3>2
  <2>4. /\ queue' \in Seq(RowType) /\ DOMAIN queue' = DOMAIN queue /\ Len(queue') = Len(queue)
        /\ \A j \in DOMAIN queue : j # i => queue'[j] = queue[j]
    BY <1>1, <2>1, <2>3
  <2>5. queue'[i].keys = queue[i].keys \cup {e}
    BY <1>1, <2>1, <2>3 DEF RowType
  <2>6. OneRow'
    BY <1>2, <2>1, <2>2, <2>4, <2>5 DEF OneRow, Held
  <2>7. Held(e)' /\ \A g \in Keys : Held(g) => Held(g)'
    BY <2>1, <2>4, <2>5 DEF Held
  <2> QED
    BY <1>1, <2>1, <2>4, <2>6, <2>7
<1>5. CASE /\ Known(d) = {} /\ i = Len(queue) + 1
           /\ queue' = Append(queue, Row(d))
  <2> DEFINE r == Row(d)
  <2>0. /\ BatchKey(d) \in {"none", "routed", "triggered"}
        /\ (IF Review(d) THEN "buffering" ELSE "pending") \in Statuses
    BY DEF BatchKey, Statuses
  <2>1. r \in RowType /\ r.keys = {e}
    BY <1>0, <2>0 DEF RowType, Row
  <2>2. ~ Held(e)
    BY <1>5 DEF Known, Holding, Held
  <2> HIDE DEF r, e
  <2>3. /\ queue' \in Seq(RowType) /\ Len(queue') = Len(queue) + 1
        /\ DOMAIN queue' = 1..(Len(queue) + 1)
        /\ queue'[Len(queue) + 1] = r
        /\ \A j \in 1..Len(queue) : queue'[j] = queue[j]
    BY <1>1, <1>5, <2>1 DEF r, e
  <2>4. OneRow'
    BY <1>1, <1>2, <2>1, <2>2, <2>3 DEF OneRow, Held
  <2>5. Held(e)' /\ \A g \in Keys : Held(g) => Held(g)'
    BY <1>1, <2>1, <2>3 DEF Held
  <2> QED
    BY <1>0, <1>1, <1>5, <2>3, <2>4, <2>5 DEF e
<1> QED
  BY <1>3, <1>4, <1>5 DEF Written
-----------------------------------------------------------------------------
(* What the steps do to the tasks.                                           *)

AtType == [Deliveries -> [step : Steps, row : Rows \cup {None}]]
RowsKnown ==
    \A d \in Deliveries :
        /\ at[d].row # None => at[d].row \in DOMAIN queue
        /\ at[d].step = "ask" /\ Review(d) => at[d].row # None
Counters ==
    /\ claims \subseteq Claims /\ lost \subseteq Claims
    /\ flushes \in [Rows -> 0..MaxTasks] /\ delivers \in 0..MaxTasks
    /\ faults \in 0..MaxFaults /\ stranded \in BOOLEAN
QueueOK == /\ queue \in Seq(RowType) /\ Len(queue) <= Cardinality(Keys)
           /\ flushing \subseteq DOMAIN queue
           /\ \A i \in Rows : flushes[i] > 0 => i \in DOMAIN queue

LEMMA TypeParts ==
    /\ TypeOK <=> at \in AtType /\ RowsKnown /\ Counters /\ QueueOK
    /\ TypeOK' <=> at' \in AtType /\ RowsKnown' /\ Counters' /\ QueueOK'
BY DEF TypeOK, AtType, RowsKnown, Counters, QueueOK, RowType, Statuses, Steps

LEMMA GoesFacts ==
    ASSUME TypeOK, NEW d \in Deliveries, NEW step \in Steps, Goes(d, step)
    PROVE  /\ at' \in AtType /\ at'[d].step = step /\ at'[d].row = at[d].row
           /\ \A f \in Deliveries : f # d => at'[f] = at[f]
BY TypeParts DEF Goes, AtType

LEMMA RetriesFacts ==
    ASSUME TypeOK, NEW d \in Deliveries, Retries(d)
    PROVE  /\ at' \in AtType /\ at'[d].step = "due" /\ at'[d].row = None
           /\ \A f \in Deliveries : f # d => at'[f] = at[f]
BY TypeParts DEF Retries, AtType, Steps

LEMMA FaultType == TypeOK /\ Fault => faults' \in 0..MaxFaults
BY ShapeAssumption DEF TypeOK, Fault

LEMMA KeepsQueueOK ==
    ASSUME IInv, Keeps, flushing' \subseteq DOMAIN queue,
           \A i \in Rows : flushes'[i] > 0 => i \in DOMAIN queue
    PROVE  QueueOK'
BY KeepsOneRow, TypeParts DEF IInv, QueueOK, Keeps

\* A dispatch task keeps the types.
LEMMA DispatchType ==
    ASSUME IInv, NEW d \in Deliveries, Dispatches(d) \/ DispatchDies(d)
    PROVE  TypeOK'
<1> USE TypeParts, KeysOfTasks
<1>0. TypeOK /\ at \in AtType /\ RowsKnown /\ Counters /\ QueueOK
  BY DEF IInv
<1>1. CASE Route(d)
  <2>1. at' \in AtType /\ RowsKnown'
    BY <1>0, <1>1, GoesFacts DEF Route, RowsKnown, Steps, Review
  <2> QED
    BY <1>0, <1>1, <2>1 DEF Route, Counters, QueueOK
<1>2. CASE Claim(d)
  <2>1. at' \in AtType /\ RowsKnown'
    <3>1. CASE Goes(d, "append")
      BY <1>0, <1>2, <3>1, GoesFacts DEF Claim, RowsKnown, Steps, Review
    <3>2. CASE Goes(d, IF Review(d) THEN "done" ELSE "ask")
      <4>1. CASE Review(d)
        BY <1>0, <1>2, <3>2, <4>1, GoesFacts DEF Claim, RowsKnown, Steps, Review
      <4>2. CASE ~ Review(d)
        BY <1>0, <1>2, <3>2, <4>2, GoesFacts DEF Claim, RowsKnown, Steps, Review
      <4> QED
        BY <4>1, <4>2
    <3>3. CASE UNCHANGED at
      BY <1>0, <1>2, <3>3 DEF Claim, RowsKnown, Review
    <3> QED
      BY <1>2, <3>1, <3>2, <3>3 DEF Claim
  <2>2. Counters' /\ QueueOK'
    BY <1>0, <1>2, FaultType DEF Claim, Counters, QueueOK
  <2> QED
    BY <2>1, <2>2
<1>3. CASE Write(d)
  <2>1. CASE /\ \E i \in Rows : /\ Written(d, i)
                              /\ at' = [at EXCEPT ![d] = [step |-> "ask", row |-> i]]
             /\ UNCHANGED <<claims, faults, lost>>
    <3>1. PICK i \in Rows : /\ Written(d, i)
                            /\ at' = [at EXCEPT ![d] = [step |-> "ask", row |-> i]]
      BY <2>1
    <3>2. at' \in AtType
      BY <1>0, <3>1 DEF AtType, Steps
    <3>3. RowsKnown'
      <4>1. \A f \in Deliveries : f # d => at'[f] = at[f]
        BY <1>0, <3>1 DEF AtType
      <4>2. at'[d].row = i
        BY <1>0, <3>1 DEF AtType
      <4> QED
        BY <1>0, <3>1, <4>1, <4>2, WrittenFacts, NoneIsNoRow DEF RowsKnown, Review
    <3>4. QueueOK'
      BY <1>0, <1>3, <3>1, WrittenFacts DEF QueueOK, Write
    <3> QED
      BY <1>0, <1>3, <2>1, <3>2, <3>3, <3>4 DEF Write, Counters
  <2>2. CASE Fault /\ Retries(d) /\ UNCHANGED queue
    <3>1. at' \in AtType /\ RowsKnown'
      BY <1>0, <2>2, RetriesFacts DEF RowsKnown, Review
    <3>2. claims' \subseteq Claims /\ lost' \subseteq Claims
      BY <1>0, <1>3, <2>2 DEF Write, Release, Counters
    <3>3. Counters' /\ QueueOK'
      BY <1>0, <1>3, <2>2, <3>2, FaultType DEF Write, Counters, QueueOK
    <3> QED
      BY <3>1, <3>3
  <2> QED
    BY <1>3, <2>1, <2>2 DEF Write
<1>4. CASE Ask(d)
  <2>1. at' \in AtType /\ RowsKnown'
    <3>1. CASE Goes(d, "done")
      BY <1>0, <1>4, <3>1, GoesFacts DEF Ask, RowsKnown, Steps, Review
    <3>2. CASE Retries(d)
      BY <1>0, <1>4, <3>2, RetriesFacts DEF Ask, RowsKnown, Review
    <3> QED
      BY <1>4, <3>1, <3>2 DEF Ask
  <2>2. flushes' \in [Rows -> 0..MaxTasks] /\ delivers' \in 0..MaxTasks
    <3>1. Review(d) => at[d].row \in Rows
      BY <1>0, <1>4 DEF Ask, RowsKnown, AtType
    <3> QED
      BY <1>0, <1>4, <3>1, MoreType DEF Ask, Counters
  <2>3. faults' \in 0..MaxFaults /\ stranded' \in BOOLEAN
    BY <1>0, <1>4, FaultType DEF Ask, Counters
  <2>4. \A i \in Rows : flushes'[i] > 0 => i \in DOMAIN queue
    <3>1. Review(d) => at[d].row \in DOMAIN queue
      BY <1>0, <1>4 DEF Ask, RowsKnown
    <3> QED
      BY <1>0, <1>4, <3>1 DEF Ask, Counters, QueueOK
  <2> QED
    BY <1>0, <1>4, <2>1, <2>2, <2>3, <2>4 DEF Ask, Counters, QueueOK
<1>5. CASE DispatchDies(d)
  <2>1. at' \in AtType /\ RowsKnown'
    BY <1>0, <1>5, RetriesFacts DEF DispatchDies, RowsKnown, Review
  <2>2. faults' \in 0..MaxFaults /\ stranded' \in BOOLEAN
    BY <1>0, <1>5, FaultType DEF DispatchDies, Counters
  <2>3. lost' \subseteq Claims
    BY <1>0, <1>5 DEF DispatchDies, Counters
  <2> QED
    BY <1>0, <1>5, <2>1, <2>2, <2>3 DEF DispatchDies, Counters, QueueOK
<1> QED
  BY <1>1, <1>2, <1>3, <1>4, <1>5 DEF Dispatches

\* A flush and a delivery keep the types, and leave the tasks and the keys of every
\* row as they are.
LEMMA SetType ==
    ASSUME IInv, NEW i \in DOMAIN queue, NEW st \in Statuses,
           Set(i, st), UNCHANGED at
    PROVE  Keeps /\ RowsKnown' /\ at' \in AtType
<1>1. Keeps
  BY SetKeeps DEF IInv
<1>2. at \in AtType /\ RowsKnown
  BY TypeParts DEF IInv
<1>3. RowsKnown'
  BY <1>1, <1>2 DEF RowsKnown, Keeps, Review
<1> QED
  BY <1>1, <1>2, <1>3

LEMMA FlushType ==
    ASSUME IInv, NEW i \in Rows, FlushReleases(i) \/ FlushAsks(i)
    PROVE  TypeOK' /\ Keeps /\ UNCHANGED <<at, claims, lost>>
<1> USE TypeParts
<1>0. TypeOK /\ at \in AtType /\ RowsKnown /\ Counters /\ QueueOK /\ i \in Nat
  BY RowsFinite DEF IInv
<1>1. CASE FlushReleases(i)
  <2>1. i \in DOMAIN queue
    BY <1>0, <1>1 DEF FlushReleases, QueueOK
  <2>2. /\ flushes' \in [Rows -> 0..MaxTasks]
        /\ \A j \in Rows : flushes'[j] > 0 => flushes[j] > 0
    BY <1>0, <1>1, ShapeAssumption DEF FlushReleases, Counters
  <2>3. Counters'
    BY <1>0, <1>1, <2>2 DEF FlushReleases, Counters
  <2>4. flushing' \subseteq DOMAIN queue
    BY <1>0, <1>1, <2>1 DEF FlushReleases, QueueOK
  <2>5. Keeps /\ RowsKnown' /\ at' \in AtType
    <3>1. CASE Set(i, "pending")
      BY <1>1, <2>1, <3>1, SetType DEF FlushReleases, Statuses
    <3>2. CASE UNCHANGED queue
      BY <1>0, <1>1, <3>2, SameKeeps DEF FlushReleases, RowsKnown, Review
    <3> QED
      BY <1>1, <3>1, <3>2 DEF FlushReleases
  <2>6. QueueOK'
    BY <1>0, <2>2, <2>4, <2>5, KeepsQueueOK DEF QueueOK
  <2> QED
    BY <1>1, <2>3, <2>5, <2>6 DEF FlushReleases
<1>2. CASE FlushAsks(i)
  <2>1. i \in DOMAIN queue
    BY <1>0, <1>2 DEF FlushAsks, QueueOK
  <2>2. /\ flushes' \in [Rows -> 0..MaxTasks] /\ delivers' \in 0..MaxTasks
        /\ \A j \in Rows : flushes'[j] > 0 => j \in DOMAIN queue
    BY <1>0, <1>2, <2>1, MoreType DEF FlushAsks, Counters, QueueOK
  <2>3. faults' \in 0..MaxFaults /\ stranded' \in BOOLEAN
    BY <1>0, <1>2, FaultType DEF FlushAsks, Counters
  <2>4. Counters'
    BY <1>0, <1>2, <2>2, <2>3 DEF FlushAsks, Counters
  <2>5. Keeps /\ RowsKnown' /\ at' \in AtType
    <3>1. CASE Set(i, "buffering")
      BY <1>2, <2>1, <3>1, SetType DEF FlushAsks, Statuses
    <3>2. CASE UNCHANGED queue
      BY <1>0, <1>2, <3>2, SameKeeps DEF FlushAsks, RowsKnown, Review
    <3> QED
      BY <1>2, <3>1, <3>2 DEF FlushAsks, Reopen
  <2>6. QueueOK'
    BY <1>0, <1>2, <2>2, <2>5, KeepsQueueOK DEF QueueOK, FlushAsks
  <2> QED
    BY <1>2, <2>4, <2>5, <2>6 DEF FlushAsks
<1> QED
  BY <1>1, <1>2

LEMMA DeliverType ==
    ASSUME IInv, DeliverClaims \/ \E i \in Rows : DeliverPosts(i)
    PROVE  TypeOK' /\ Keeps /\ UNCHANGED <<at, claims, lost>>
<1> USE TypeParts
<1>0. TypeOK /\ at \in AtType /\ RowsKnown /\ Counters /\ QueueOK
  BY DEF IInv
<1>1. delivers' \in 0..MaxTasks
  <2>1. CASE DeliverClaims
    BY <1>0, <2>1, ShapeAssumption DEF DeliverClaims, Counters
  <2>2. CASE \E i \in Rows : DeliverPosts(i)
    BY <1>0, <2>2, MoreType DEF DeliverPosts, Counters
  <2> QED
    BY <2>1, <2>2
<1>2. faults' \in 0..MaxFaults
  BY <1>0, FaultType DEF DeliverClaims, DeliverPosts, Counters
<1>3. Keeps /\ RowsKnown' /\ at' \in AtType
  <2>1. CASE \E i \in DOMAIN queue, st \in Statuses : Set(i, st)
    BY <2>1, SetType DEF DeliverClaims, DeliverPosts
  <2>2. CASE UNCHANGED queue
    BY <1>0, <2>2, SameKeeps DEF DeliverClaims, DeliverPosts, RowsKnown, Review
  <2> QED
    BY <2>1, <2>2 DEF DeliverClaims, DeliverPosts, First, Undelivered, Statuses
<1>4. UNCHANGED <<at, claims, flushes, flushing, lost, stranded>>
  BY DEF DeliverClaims, DeliverPosts
<1>5. QueueOK'
  BY <1>0, <1>3, <1>4, KeepsQueueOK DEF QueueOK
<1> QED
  BY <1>0, <1>1, <1>2, <1>3, <1>4, <1>5 DEF Counters
-----------------------------------------------------------------------------
(* The claims.                                                               *)

LEMMA DispatchClaims ==
    ASSUME IInv, NEW d \in Deliveries, Dispatches(d) \/ DispatchDies(d)
    PROVE  OneRow' /\ ClaimsStand' /\ PastClaim'
<1> USE KeysOfTasks
<1>0. TypeOK /\ at \in AtType /\ OneRow /\ ClaimsStand /\ PastClaim
  BY TypeParts DEF IInv
<1>1. CASE Route(d)
  <2>1. UNCHANGED <<queue, claims, lost>> /\ d \in Routed /\ at[d].step = "due"
    BY <1>1 DEF Route
  <2>2. at'[d].step = "append" /\ \A f \in Deliveries : f # d => at'[f] = at[f]
    BY <1>0, <1>1, GoesFacts DEF Route, Steps
  <2> QED
    BY <1>0, <2>1, <2>2 DEF OneRow, ClaimsStand, PastClaim, Held
<1>2. CASE Claim(d)
  <2>0. UNCHANGED <<queue, lost>> /\ d \in Deliveries \ Routed /\ at[d].step = "due"
    BY <1>2 DEF Claim
  <2>1. CASE claims' = claims \cup {ClaimOf[d]} /\ Goes(d, "append")
    <3>1. at'[d].step = "append" /\ \A f \in Deliveries : f # d => at'[f] = at[f]
      BY <1>0, <2>1, GoesFacts DEF Steps
    <3> QED
      BY <1>0, <2>0, <2>1, <3>1 DEF OneRow, ClaimsStand, PastClaim, Held
  <2>2. CASE /\ ClaimOf[d] \in claims /\ Goes(d, IF Review(d) THEN "done" ELSE "ask")
             /\ UNCHANGED claims
    <3>1. /\ at'[d].step \in {"ask", "done"}
          /\ \A f \in Deliveries : f # d => at'[f] = at[f]
      <4>1. CASE Review(d)
        BY <1>0, <2>2, <4>1, GoesFacts DEF Steps
      <4>2. CASE ~ Review(d)
        BY <1>0, <2>2, <4>2, GoesFacts DEF Steps
      <4> QED
        BY <4>1, <4>2
    <3>2. \/ Held(Key(d)) \/ ClaimOf[d] \in lost
          \/ \E f \in Deliveries \ Routed : ClaimOf[f] = ClaimOf[d] /\ at[f].step = "append"
      BY <1>0, <2>0, <2>2 DEF ClaimsStand
    <3>3. ClaimsStand'
      BY <1>0, <2>0, <2>2, <3>1 DEF ClaimsStand, Held
    <3>4. PastClaim'
      BY <1>0, <2>0, <2>2, <3>1, <3>2 DEF PastClaim, Held
    <3> QED
      BY <1>0, <2>0, <3>3, <3>4 DEF OneRow
  <2>3. CASE UNCHANGED <<at, claims>>
    BY <1>0, <2>0, <2>3 DEF OneRow, ClaimsStand, PastClaim, Held
  <2> QED
    BY <1>2, <2>1, <2>2, <2>3 DEF Claim
<1>3. CASE Write(d)
  <2>1. CASE /\ \E i \in Rows : /\ Written(d, i)
                              /\ at' = [at EXCEPT ![d] = [step |-> "ask", row |-> i]]
             /\ UNCHANGED <<claims, faults, lost>>
    <3>1. PICK i \in Rows : /\ Written(d, i)
                            /\ at' = [at EXCEPT ![d] = [step |-> "ask", row |-> i]]
      BY <2>1
    <3>2. at'[d].step = "ask" /\ \A f \in Deliveries : f # d => at'[f] = at[f]
      BY <1>0, <3>1 DEF AtType
    <3>3. /\ OneRow' /\ Held(Key(d))'
          /\ \A e \in Keys : Held(e) => Held(e)'
      BY <3>1, WrittenFacts
    <3>4. ClaimsStand'
      BY <1>0, <2>1, <3>2, <3>3 DEF ClaimsStand
    <3>5. PastClaim'
      BY <1>0, <2>1, <3>2, <3>3 DEF PastClaim
    <3> QED
      BY <3>3, <3>4, <3>5
  <2>2. CASE /\ Retries(d) /\ UNCHANGED queue
             /\ \/ Release(d) /\ UNCHANGED lost
                \/ d \notin Routed /\ lost' = lost \cup {ClaimOf[d]} /\ UNCHANGED claims
    <3>1. at'[d].step = "due" /\ \A f \in Deliveries : f # d => at'[f] = at[f]
      BY <1>0, <2>2, RetriesFacts
    <3>2. OneRow' /\ (\A e : Held(e) <=> Held(e)')
      BY <1>0, <2>2 DEF OneRow, Held
    <3>3. claims' \subseteq claims /\ lost \subseteq lost'
      BY <2>2 DEF Release
    <3>4. d \notin Routed => ClaimOf[d] \notin claims' \/ ClaimOf[d] \in lost'
      BY <2>2 DEF Release
    <3>5. ClaimsStand'
      BY <1>0, <3>1, <3>2, <3>3, <3>4 DEF ClaimsStand
    <3>6. PastClaim'
      BY <1>0, <3>1, <3>2, <3>3, <3>4 DEF PastClaim
    <3> QED
      BY <3>2, <3>5, <3>6
  <2> QED
    BY <1>3, <2>1, <2>2 DEF Write
<1>4. CASE Ask(d)
  <2>1. UNCHANGED <<queue, claims, lost>> /\ at[d].step = "ask"
    BY <1>4 DEF Ask
  <2>2. at'[d].step \in {"due", "done"} /\ \A f \in Deliveries : f # d => at'[f] = at[f]
    BY <1>0, <1>4, GoesFacts, RetriesFacts DEF Ask, Steps
  <2> QED
    BY <1>0, <2>1, <2>2 DEF OneRow, ClaimsStand, PastClaim, Held
<1>5. CASE DispatchDies(d)
  <2>1. /\ UNCHANGED <<queue, claims>> /\ lost \subseteq lost'
        /\ at[d].step = "append" /\ d \notin Routed => ClaimOf[d] \in lost'
    BY <1>5 DEF DispatchDies
  <2>2. at'[d].step = "due" /\ \A f \in Deliveries : f # d => at'[f] = at[f]
    BY <1>0, <1>5, RetriesFacts DEF DispatchDies
  <2> QED
    BY <1>0, <2>1, <2>2 DEF OneRow, ClaimsStand, PastClaim, Held
<1> QED
  BY <1>1, <1>2, <1>3, <1>4, <1>5 DEF Dispatches

\* A step that leaves tasks, claims and the keys of the rows alone.
LEMMA OtherClaims ==
    ASSUME IInv, Keeps, UNCHANGED <<at, claims, lost>>
    PROVE  OneRow' /\ ClaimsStand' /\ PastClaim'
BY KeepsOneRow, KeysOfTasks DEF IInv, ClaimsStand, PastClaim
-----------------------------------------------------------------------------
LEMMA NextIInv == IInv /\ [Next]_vars => IInv'
<1> SUFFICES ASSUME IInv, [Next]_vars PROVE IInv'
  OBVIOUS
<1>1. CASE \E d \in Deliveries : Dispatches(d) \/ DispatchDies(d)
  BY <1>1, DispatchType, DispatchClaims DEF IInv
<1>2. CASE \E i \in Rows : FlushReleases(i) \/ FlushAsks(i)
  BY <1>2, FlushType, OtherClaims DEF IInv
<1>3. CASE DeliverClaims \/ \E i \in Rows : DeliverPosts(i)
  BY <1>3, DeliverType, OtherClaims DEF IInv
<1>4. CASE UNCHANGED vars
  <2>1. TypeOK'
    BY <1>4 DEF IInv, TypeOK, vars, Review
  <2>2. Keeps
    BY <1>4, SameKeeps DEF IInv, vars
  <2> QED
    BY <1>4, <2>1, <2>2, OtherClaims DEF IInv, vars
<1> QED
  BY <1>1, <1>2, <1>3, <1>4 DEF Next, Works, Finished

\* The tasks, the claims, the rows and the counters stay what they are meant to be.
THEOREM TypeCorrect == Spec => []TypeOK
<1>1. IInv => TypeOK
  BY DEF IInv
<1> QED
  BY InitIInv, NextIInv, <1>1, PTL DEF Spec

\* Redeliveries, retries, a second connection and a batch that is released under a review
\* put a key into one message: the stable key of an event, whoever brings it; the id that
\* a webhook drew, however often its task runs (triggerSessionEventID, prRouteEventID,
\* enqueueTriggerSessionMessage, enqueueGitHubReviewBatch).
THEOREM EachEventOnce == Spec => []OnceEach
<1>1. IInv => OnceEach
  <2> SUFFICES ASSUME IInv, NEW e \in Keys PROVE Cardinality(Holding(e)) <= 1
    BY DEF OnceEach
  <2>1. \A i, j \in Holding(e) : i = j
    BY DEF IInv, OneRow, Holding
  <2> QED
    BY <2>1, AtMostOne
<1> QED
  BY InitIInv, NextIInv, <1>1, PTL DEF Spec

\* A key whose tasks are done is in the queue: a task that finds its claim taken may stop
\* only because the claim's owner has written the row or will be retried
\* (claimTriggerDelivery, releaseTriggerDeliveryClaim).
THEOREM ClaimsKeepEvents == Spec => []Kept
<1>1. IInv => Kept
  <2> SUFFICES ASSUME IInv, NEW d \in Deliveries,
                      \A f \in Deliveries : Key(f) = Key(d) =>
                          at[f].step = "done" /\ ClaimOf[f] \notin lost
               PROVE  Holding(Key(d)) # {}
    BY DEF Kept, Keys
  <2>1. Held(Key(d))
    BY KeysOfTasks DEF IInv, PastClaim
  <2> QED
    BY <2>1 DEF Held, Holding
<1> QED
  BY InitIInv, NextIInv, <1>1, PTL DEF Spec

\* No review joins a batch that may be delivered, and no failed flush opens a batch the
\* session has read (SessionReviewBatchFlushHandler.Handle).
THEOREM MessagesAreSealed == Spec => Sealed
<1> DEFINE Stays == \A i \in DOMAIN queue :
          /\ queue[i].status # "buffering" => queue'[i].keys = queue[i].keys
          /\ queue[i].status = "delivered" => queue'[i].status = "delivered"
<1>1. IInv /\ [Next]_vars => [Stays]_vars
  <2> SUFFICES ASSUME IInv, Next PROVE Stays
    BY DEF vars
  <2>0. TypeOK /\ QueueOK
    BY TypeParts DEF IInv
  <2>1. CASE UNCHANGED queue
    BY <2>1
  <2>2. ASSUME NEW d \in Deliveries, Dispatches(d) \/ DispatchDies(d) PROVE Stays
    <3>1. CASE UNCHANGED queue
      BY <3>1
    <3>2. CASE \E i \in Rows : Written(d, i)
      BY <3>2, WrittenFacts
    <3> QED
      BY <2>2, <3>1, <3>2 DEF Dispatches, Route, Claim, Write, Ask, DispatchDies
  <2>3. ASSUME NEW i \in Rows, FlushReleases(i) \/ FlushAsks(i) PROVE Stays
    <3>1. CASE UNCHANGED queue
      BY <3>1
    <3>2. CASE /\ queue[i].status \in {"buffering", "pending"} /\ i \in DOMAIN queue
               /\ \E st \in {"buffering", "pending"} : Set(i, st)
      BY <2>0, <3>2, SetKeeps DEF Keeps, Statuses
    <3>3. i \in DOMAIN queue
      BY <2>0, <2>3 DEF QueueOK, FlushReleases, FlushAsks
    <3> QED
      BY <2>3, <3>1, <3>2, <3>3 DEF FlushReleases, FlushAsks, Reopen
  <2>4. CASE DeliverClaims \/ \E i \in Rows : DeliverPosts(i)
    <3>1. CASE \E i \in DOMAIN queue, st \in Statuses :
                  Set(i, st) /\ queue[i].status # "buffering" /\ queue[i].status # "delivered"
      BY <2>0, <3>1, SetKeeps DEF Keeps
    <3> QED
      BY <2>1, <2>4, <3>1 DEF DeliverClaims, DeliverPosts, First, Undelivered, Statuses
  <2> QED
    BY <2>1, <2>2, <2>3, <2>4 DEF Next, Works, Finished, vars
<1> QED
  BY InitIInv, NextIInv, <1>1, PTL DEF Spec, Sealed
=============================================================================
