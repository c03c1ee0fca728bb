------------------------ MODULE RuntimeStreamProofs ------------------------
(***************************************************************************)
(* Theorems about RuntimeStream for any numbers of events, sandboxes,      *)
(* deliveries and faults.  The store implements EventLog, and the runtime  *)
(* drops no event as delivered which the store has not taken: these do not *)
(* need the leases, for a delivery is acknowledged by the answer to its    *)
(* own frame only, after every event of the frame was found in the stream  *)
(* or put there (IInv).  That a settled row stays settled and that the     *)
(* store is sent no hole rest on the leases, and hold until one ends under *)
(* a delivery (HInv).                                                      *)
(***************************************************************************)
EXTENDS RuntimeStream, WellFoundedInduction, TLAPS

\* The parts of TypeOK.
RowType == [status : {"none", "pending", "delivered", "failed"}, leased : BOOLEAN,
            waiting : BOOLEAN, attempts : 0..(MaxAttempts - 1)]
DeliveryType ==
    [at : {"idle", "send", "sent", "acked", "failed", "unregistered", "postpone"},
     rows : SUBSET Seqs, tries : [Seqs -> 0..(MaxAttempts - 1)]]
FrameType == [by : Permits \cup {None}, box : 1..MaxBoxes, todo : (SUBSET Seqs) \ {{}}]
EntryType == [box : 1..MaxBoxes, seq : Seqs]
UsedType == [faults : 0..MaxFaults, lapses : 0..MaxLapses, crashes : 0..MaxCrashes,
             expiries : 0..MaxExpiries]

OutboxOK == box \in 1..MaxBoxes /\ lastSeq \in 0..MaxEvents /\ row \in [Seqs -> RowType]
DeliveryOK == delivery \in [Permits -> DeliveryType]
FramesOK == frames \subseteq FrameType
RedisOK == /\ last \in 0..MaxEvents /\ identity \in [Seqs -> 0..MaxBoxes]
           /\ stream \in Seq(EntryType)

\* A delivery that is under way has rows.
Busy == \A d \in Permits : delivery[d].at # "idle" => delivery[d].rows # {}

\* A frame somebody waits for is that of a delivery of this sandbox which is sent, and
\* what the handler has done of it is in the stream.
FrameOfSent(f) ==
    f.by # None =>
        /\ f.box = box /\ delivery[f.by].at = "sent"
        /\ \A s \in delivery[f.by].rows : s \in f.todo \/ InStream(box, s)
FramesOfSent == \A f \in frames : FrameOfSent(f)

\* Nobody waits for two frames.
OneFrame == \A f, g \in frames : f.by # None /\ f.by = g.by => f = g

AckedIn == \A d \in Permits :
    delivery[d].at = "acked" => \A s \in delivery[d].rows : InStream(box, s)

\* The index has no entry for an event that is not in the stream.
Indexed == \A s \in Seqs : identity[s] # 0 => InStream(identity[s], s)

Inv == Busy /\ FramesOfSent /\ OneFrame /\ AckedIn /\ Indexed /\ DeliveredAccepted
IInv == TypeOK /\ Inv
-----------------------------------------------------------------------------
LEMMA TypeParts ==
    /\ TypeOK <=> OutboxOK /\ DeliveryOK /\ FramesOK /\ RedisOK /\ used \in UsedType
    /\ TypeOK' <=> OutboxOK' /\ DeliveryOK' /\ FramesOK' /\ RedisOK' /\ used' \in UsedType
BY DEF TypeOK, OutboxOK, DeliveryOK, FramesOK, RedisOK, RowType, DeliveryType, FrameType,
       EntryType, UsedType

LEMMA LeastIn ==
    ASSUME NEW S \in SUBSET Nat, S # {}
    PROVE  Least(S) \in S /\ \A t \in S : Least(S) <= t
<1> DEFINE R == OpToRel(<, Nat)
<1>1. IsWellFoundedOn(R, Nat)
  BY NatLessThanWellFounded, Zenon
<1>2. ASSUME NEW x \in Nat, NEW y \in Nat, y < x PROVE <<y, x>> \in R
  BY <1>2, Zenon DEF OpToRel
<1> HIDE DEF R
<1>3. PICK x \in S : \A y \in S : <<y, x>> \notin R
  BY <1>1, WFMin
<1>4. \A y \in S : x <= y
  <2> SUFFICES ASSUME NEW y \in S PROVE x <= y
    OBVIOUS
  <2>1. x \in Nat /\ y \in Nat /\ <<y, x>> \notin R
    BY <1>3
  <2>2. ~ (y < x)
    BY <1>2, <2>1, Zenon
  <2> QED
    BY <2>1, <2>2
<1> QED
  BY <1>4 DEF Least

LEMMA SeqsFacts == Seqs \in SUBSET Nat /\ Seqs = 1..MaxEvents /\ MaxEvents \in Nat
BY LimitsAssumption DEF Seqs

LEMMA NonEmpty ==
    ASSUME NEW S, NEW x
    PROVE  x \in (SUBSET S) \ {{}} <=> x \in SUBSET S /\ x # {}
OBVIOUS

LEMMA FaultType == TypeOK /\ Fault => used' \in UsedType
BY LimitsAssumption, TypeParts DEF Fault, UsedType

\* The stream only grows.
LEMMA Grows ==
    ASSUME RedisOK, NEW e \in EntryType, stream' = Append(stream, e)
    PROVE  /\ stream' \in Seq(EntryType) /\ Len(stream') = Len(stream) + 1
           /\ Elems(stream)' = Elems(stream) \cup {e}
<1>1. stream \in Seq(EntryType) /\ Len(stream) \in Nat
  BY DEF RedisOK
<1>2. /\ stream' \in Seq(EntryType) /\ Len(stream') = Len(stream) + 1
      /\ \A i \in 1..Len(stream) : stream'[i] = stream[i]
      /\ stream'[Len(stream) + 1] = e
  BY <1>1
<1> QED
  BY <1>1, <1>2 DEF Elems

LEMMA InitIInv == Init => IInv
<1> SUFFICES ASSUME Init PROVE IInv
  OBVIOUS
<1> USE LimitsAssumption, SeqsFacts
<1>1. OutboxOK
  BY DEF Init, OutboxOK, RowType, NoRow
<1>2. Idle \in DeliveryType
  BY DEF Idle, DeliveryType
<1>3. DeliveryOK
  BY <1>2 DEF Init, DeliveryOK
<1>4. FramesOK /\ RedisOK /\ used \in UsedType
  BY DEF Init, FramesOK, RedisOK, UsedType
<1>5. Inv
  BY DEF Init, Inv, Busy, FramesOfSent, OneFrame, AckedIn, Indexed, DeliveredAccepted,
         Idle, NoRow
<1> QED
  BY <1>1, <1>3, <1>4, <1>5, TypeParts DEF IInv
-----------------------------------------------------------------------------
(* The outbox.                                                               *)

\* A step that touches the rows only, and marks none as delivered.
LEMMA RowsOnly ==
    ASSUME IInv, UNCHANGED <<box, delivery, frames, redis>>,
           \A s \in Seqs : row'[s].status = "delivered" => row[s].status = "delivered"
    PROVE  Inv'
<1>1. \A b, s : InStream(b, s)' <=> InStream(b, s)
  BY DEF redis, InStream, Elems
<1>2. UNCHANGED <<box, delivery, frames, identity>>
  BY DEF redis
<1>3. FramesOfSent' /\ OneFrame'
  BY <1>1, <1>2 DEF IInv, Inv, FramesOfSent, FrameOfSent, OneFrame
<1>4. Busy' /\ AckedIn' /\ Indexed' /\ DeliveredAccepted'
  BY <1>1, <1>2 DEF IInv, Inv, Busy, AckedIn, Indexed, DeliveredAccepted
<1> QED
  BY <1>3, <1>4 DEF Inv

LEMMA EmitStep == IInv /\ Emit => IInv'
<1> SUFFICES ASSUME IInv, Emit PROVE IInv'
  OBVIOUS
<1> USE LimitsAssumption, SeqsFacts, TypeParts
<1>1. OutboxOK
  BY DEF IInv
<1>2. lastSeq' \in Seqs /\ [NoRow EXCEPT !.status = "pending"] \in RowType
  <2>1. lastSeq' \in Seqs
    BY <1>1 DEF Emit, OutboxOK
  <2>2. NoRow \in RowType
    BY DEF NoRow, RowType
  <2>3. [NoRow EXCEPT !.status = "pending"] \in RowType
    BY <2>2 DEF RowType
  <2> QED
    BY <2>1, <2>3
<1>3. OutboxOK'
  BY <1>1, <1>2 DEF Emit, OutboxOK
<1>4. \A s \in Seqs : row'[s].status = "delivered" => row[s].status = "delivered"
  BY <1>1, <1>2 DEF Emit, OutboxOK, NoRow
<1>5. Inv'
  BY <1>4, RowsOnly DEF Emit
<1> QED
  BY <1>3, <1>5 DEF Emit, IInv, DeliveryOK, FramesOK, RedisOK, redis

LEMMA WaitsStep == ASSUME IInv, NEW s \in Seqs, RetryDue(s) \/ LeaseEnds(s) PROVE IInv'
<1> USE LimitsAssumption, TypeParts
<1>1. OutboxOK /\ row[s] \in RowType /\ used \in UsedType
  BY DEF IInv, OutboxOK
<1>2. /\ [row[s] EXCEPT !.waiting = FALSE] \in RowType
      /\ [row[s] EXCEPT !.leased = FALSE] \in RowType
  BY <1>1 DEF RowType
<1>3. /\ row' \in [Seqs -> RowType]
      /\ \A t \in Seqs : row'[t].status = row[t].status
  <2>1. CASE row' = [row EXCEPT ![s].waiting = FALSE]
    BY <1>1, <1>2, <2>1 DEF OutboxOK, RowType
  <2>2. CASE row' = [row EXCEPT ![s].leased = FALSE]
    BY <1>1, <1>2, <2>2 DEF OutboxOK, RowType
  <2> QED
    BY <2>1, <2>2 DEF RetryDue, LeaseEnds
<1>4. used' \in UsedType
  BY <1>1 DEF RetryDue, LeaseEnds, UsedType
<1>5. UNCHANGED <<box, lastSeq, delivery, frames, redis>>
  BY DEF RetryDue, LeaseEnds
<1>6. Inv'
  BY <1>3, <1>5, RowsOnly
<1> QED
  BY <1>1, <1>3, <1>4, <1>5, <1>6 DEF IInv, OutboxOK, DeliveryOK, FramesOK, RedisOK, redis
-----------------------------------------------------------------------------
(* A delivery.                                                               *)

LEMMA ClaimStep == ASSUME IInv, NEW d \in Permits, ClaimDue(d) PROVE IInv'
<1> USE LimitsAssumption, SeqsFacts, TypeParts
<1>0. OutboxOK /\ DeliveryOK /\ FramesOK /\ RedisOK /\ used \in UsedType /\ Inv
  BY DEF IInv
<1> DEFINE tries == [s \in Seqs |-> IF s \in Due THEN row[s].attempts ELSE 0]
           Of(at) == [at |-> at, rows |-> Due, tries |-> tries]
<1>1. Due \in SUBSET Seqs /\ Due # {}
  BY DEF ClaimDue, Due, Pending
<1>2. \A at \in {"send", "postpone"} : Of(at) \in DeliveryType
  <2>1. \A s \in Seqs : row[s].attempts \in 0..(MaxAttempts - 1)
    BY <1>0 DEF OutboxOK, RowType
  <2>2. tries \in [Seqs -> 0..(MaxAttempts - 1)]
    BY <2>1
  <2> QED
    BY <1>1, <2>2 DEF DeliveryType
<1>3. PICK at \in {"send", "postpone"} : delivery' = [delivery EXCEPT ![d] = Of(at)]
  BY DEF ClaimDue
<1>4. used' \in UsedType
  BY <1>0, FaultType DEF ClaimDue, IInv
<1>5. /\ row' \in [Seqs -> RowType]
      /\ \A s \in Seqs : row'[s].status = row[s].status
  <2>1. \A s \in Seqs : [row[s] EXCEPT !.leased = TRUE] \in RowType
    BY <1>0 DEF OutboxOK, RowType
  <2>2. \A s \in Seqs : [row[s] EXCEPT !.leased = TRUE].status = row[s].status
    BY <1>0 DEF OutboxOK, RowType
  <2> QED
    BY <1>0, <2>1, <2>2 DEF ClaimDue, OutboxOK
<1>6. /\ delivery'[d].at \in {"send", "postpone"} /\ delivery'[d].rows = Due
      /\ \A e \in Permits : e # d => delivery'[e] = delivery[e]
      /\ delivery' \in [Permits -> DeliveryType]
  BY <1>0, <1>2, <1>3 DEF DeliveryOK
<1>7. UNCHANGED <<box, lastSeq, frames, last, identity, stream>> /\ delivery[d].at = "idle"
  BY DEF ClaimDue, redis
<1>8. \A b, s : InStream(b, s)' <=> InStream(b, s)
  BY <1>7 DEF InStream, Elems
<1>9. Inv'
  <2>1. \A f \in frames : f.by # None => f.by # d /\ f.by \in Permits
    BY <1>0, <1>7 DEF Inv, FramesOfSent, FrameOfSent, FramesOK, FrameType
  <2>2. FramesOfSent' /\ OneFrame'
    BY <1>0, <1>6, <1>7, <1>8, <2>1 DEF Inv, FramesOfSent, FrameOfSent, OneFrame
  <2>3. Busy' /\ AckedIn' /\ Indexed' /\ DeliveredAccepted'
    BY <1>0, <1>1, <1>5, <1>6, <1>7, <1>8 DEF Inv, Busy, AckedIn, Indexed, DeliveredAccepted
  <2> QED
    BY <2>2, <2>3 DEF Inv
<1> QED
  BY <1>0, <1>4, <1>5, <1>6, <1>7, <1>9 DEF IInv, OutboxOK, DeliveryOK, FramesOK, RedisOK

\* A delivery that goes on to another state, none of its frames being awaited after it.
LEMMA MovesTo ==
    ASSUME IInv, NEW d \in Permits, NEW at \in {"sent", "failed", "unregistered"},
           delivery[d].at # "idle", delivery' = [delivery EXCEPT ![d].at = at]
    PROVE  /\ DeliveryOK' /\ Busy'
           /\ delivery'[d].at = at /\ delivery'[d].rows = delivery[d].rows
           /\ \A e \in Permits : e # d => delivery'[e] = delivery[e]
           /\ UNCHANGED <<box, stream>> => AckedIn'
<1>1. DeliveryOK
  BY TypeParts DEF IInv
<1>2. /\ DeliveryOK' /\ delivery'[d].at = at /\ delivery'[d].rows = delivery[d].rows
      /\ \A e \in Permits : e # d => delivery'[e] = delivery[e]
  BY <1>1 DEF DeliveryOK, DeliveryType
<1>3. Busy'
  BY <1>2 DEF IInv, Inv, Busy
<1>4. UNCHANGED <<box, stream>> => AckedIn'
  BY <1>2 DEF IInv, Inv, AckedIn, InStream, Elems
<1> QED
  BY <1>2, <1>3, <1>4

LEMMA SendStep == ASSUME IInv, NEW d \in Permits, Send(d) PROVE IInv'
<1> USE LimitsAssumption, SeqsFacts, TypeParts
<1>0. OutboxOK /\ DeliveryOK /\ FramesOK /\ RedisOK /\ used \in UsedType /\ Inv
  BY DEF IInv
<1>1. /\ UNCHANGED <<box, lastSeq, row, last, identity, stream>>
      /\ delivery[d].at = "send" /\ used' \in UsedType
  BY <1>0, FaultType DEF Send, outbox, redis, IInv
<1>2. \A b, s : InStream(b, s)' <=> InStream(b, s)
  BY <1>1 DEF InStream, Elems
<1>3. \A f \in frames : f.by # None => f.by # d /\ f.by \in Permits
  BY <1>0, <1>1 DEF Inv, FramesOfSent, FrameOfSent, FramesOK, FrameType
<1>4. PICK at \in {"sent", "failed", "unregistered"} : delivery' = [delivery EXCEPT ![d].at = at]
  BY DEF Send
<1>5. /\ DeliveryOK' /\ Busy' /\ AckedIn'
      /\ delivery'[d].at = at /\ delivery'[d].rows = delivery[d].rows
      /\ \A e \in Permits : e # d => delivery'[e] = delivery[e]
  BY <1>1, <1>4, MovesTo
<1>6. FramesOK' /\ FramesOfSent' /\ OneFrame'
  <2>1. CASE UNCHANGED frames
    BY <1>0, <1>1, <1>2, <1>3, <1>5, <2>1
       DEF Inv, FramesOfSent, FrameOfSent, OneFrame, FramesOK
  <2>2. CASE /\ delivery' = [delivery EXCEPT ![d].at = "sent"]
             /\ frames' \in {frames \cup {Frame(d)}, frames \cup {Frame(d), Orphan(Frame(d))}}
    <3>1. /\ Frame(d) \in FrameType /\ Orphan(Frame(d)) \in FrameType
          /\ Frame(d).by = d /\ Frame(d).box = box /\ Frame(d).todo = delivery[d].rows
          /\ Orphan(Frame(d)).by = None
      <4>1. /\ delivery[d].rows \in (SUBSET Seqs) \ {{}} /\ box \in 1..MaxBoxes
        <5>1. delivery[d] \in DeliveryType /\ delivery[d].rows # {}
          BY <1>0, <1>1 DEF DeliveryOK, Inv, Busy
        <5>2. delivery[d].rows \in SUBSET Seqs
          BY <5>1 DEF DeliveryType
        <5>3. delivery[d].rows \in (SUBSET Seqs) \ {{}}
          BY <5>1, <5>2, NonEmpty
        <5>4. box \in 1..MaxBoxes
          BY <1>0 DEF OutboxOK
        <5> QED
          BY <5>3, <5>4
      <4> QED
        BY <4>1 DEF Frame, Orphan, FrameType
    <3>2. delivery'[d].at = "sent"
      BY <1>0, <2>2 DEF DeliveryOK, DeliveryType
    <3>3. \A f \in frames' : f \in frames \/ f = Frame(d) \/ f.by = None
      BY <2>2, <3>1
    <3>4. FramesOK'
      BY <1>0, <2>2, <3>1 DEF FramesOK
    <3> HIDE DEF Frame
    <3>5. FramesOfSent'
      BY <1>0, <1>1, <1>2, <1>3, <1>5, <3>1, <3>2, <3>3 DEF Inv, FramesOfSent, FrameOfSent
    <3>6. OneFrame'
      BY <1>0, <1>3, <3>1, <3>3, PermitsAssumption DEF Inv, OneFrame
    <3> QED
      BY <3>4, <3>5, <3>6
  <2> QED
    BY <2>1, <2>2 DEF Send
<1>7. Indexed' /\ DeliveredAccepted'
  BY <1>0, <1>1, <1>2 DEF Inv, Indexed, DeliveredAccepted
<1> QED
  BY <1>0, <1>1, <1>5, <1>6, <1>7 DEF IInv, Inv, OutboxOK, RedisOK

LEMMA OrphanFacts ==
    ASSUME FramesOK, NEW f \in frames
    PROVE  /\ Orphan(f) \in FrameType /\ Orphan(f).by = None
           /\ f \in FrameType
BY DEF FramesOK, FrameType, Orphan

LEMMA GiveUpStep == ASSUME IInv, NEW d \in Permits, GiveUp(d) PROVE IInv'
<1> USE LimitsAssumption, SeqsFacts, TypeParts
<1>0. OutboxOK /\ DeliveryOK /\ FramesOK /\ RedisOK /\ used \in UsedType /\ Inv
  BY DEF IInv
<1>1. /\ UNCHANGED <<box, lastSeq, row, last, identity, stream>>
      /\ delivery[d].at = "sent" /\ used' \in UsedType
  BY <1>0, FaultType DEF GiveUp, Connected, outbox, redis, IInv
<1>2. \A b, s : InStream(b, s)' <=> InStream(b, s)
  BY <1>1 DEF InStream, Elems
<1>3. /\ DeliveryOK' /\ Busy' /\ AckedIn'
      /\ \A e \in Permits : e # d => delivery'[e] = delivery[e]
  BY <1>1, MovesTo DEF GiveUp
<1>4. \A f \in frames' : f \in FrameType /\ (f.by # None => f \in frames /\ f.by # d)
  BY <1>0, OrphanFacts DEF GiveUp, FramesOK
<1>5. FramesOK' /\ FramesOfSent' /\ OneFrame'
  <2>1. \A f \in frames' : f.by # None => f.by \in Permits
    BY <1>4 DEF FrameType
  <2> QED
    BY <1>0, <1>1, <1>2, <1>3, <1>4, <2>1
       DEF FramesOK, Inv, FramesOfSent, FrameOfSent, OneFrame
<1>6. Indexed' /\ DeliveredAccepted'
  BY <1>0, <1>1, <1>2 DEF Inv, Indexed, DeliveredAccepted
<1> QED
  BY <1>0, <1>1, <1>3, <1>5, <1>6 DEF IInv, Inv, OutboxOK, RedisOK

\* What a delivery leaves of a row.
LEMMA SettledFacts ==
    ASSUME OutboxOK, NEW s \in Seqs, NEW tries \in 0..(MaxAttempts - 1),
           NEW at \in {"acked", "failed", "unregistered", "postpone"}
    PROVE  /\ Settled(s, at, tries) \in RowType
           /\ Settled(s, at, tries).status = "delivered" => at = "acked"
<1> USE LimitsAssumption
<1>1. row[s] \in RowType
  BY DEF OutboxOK
<1>2. \A st \in {"delivered", "failed"} :
        Free(s, st) \in RowType /\ Free(s, st).status = st
  BY <1>1 DEF Free, RowType
<1>3. \A a \in 0..(MaxAttempts - 1), w \in BOOLEAN :
        Retry(a, w) \in RowType /\ Retry(a, w).status = "pending"
  BY DEF Retry, RowType
<1>4. ~ GivesUp(Attempts(tries)) => Attempts(tries) \in 0..(MaxAttempts - 1)
  BY DEF GivesUp, Attempts
<1> QED
  BY <1>2, <1>3, <1>4 DEF Settled

LEMMA SettleStep == ASSUME IInv, NEW d \in Permits, Settle(d) PROVE IInv'
<1> USE LimitsAssumption, SeqsFacts, TypeParts
<1> DEFINE D == delivery[d]
           s == Least(D.rows)
           rest == D.rows \ {s}
<1>0. OutboxOK /\ DeliveryOK /\ FramesOK /\ RedisOK /\ used \in UsedType /\ Inv
  BY DEF IInv
<1>1. /\ UNCHANGED <<box, lastSeq, frames, last, identity, stream>>
      /\ D.at \in {"acked", "failed", "unregistered", "postpone"} /\ used' \in UsedType
  BY <1>0, FaultType DEF Settle, redis, IInv
<1>2. \A b, t : InStream(b, t)' <=> InStream(b, t)
  BY <1>1 DEF InStream, Elems
<1>3. D \in DeliveryType /\ D.rows \in SUBSET Seqs /\ D.rows # {}
  BY <1>0, <1>1 DEF DeliveryOK, DeliveryType, Inv, Busy
<1>4. s \in D.rows /\ s \in Seqs
  BY <1>3, LeastIn
<1>5. /\ row' \in [Seqs -> RowType]
      /\ \A t \in Seqs : row'[t].status = "delivered" => row[t].status = "delivered" \/ InStream(box, t)
  <2>1. D.tries[s] \in 0..(MaxAttempts - 1)
    BY <1>3, <1>4 DEF DeliveryType
  <2>2. /\ Settled(s, D.at, D.tries[s]) \in RowType
        /\ Settled(s, D.at, D.tries[s]).status = "delivered" => D.at = "acked"
    BY <1>0, <1>1, <1>4, <2>1, SettledFacts
  <2>3. D.at = "acked" => InStream(box, s)
    BY <1>0, <1>4 DEF Inv, AckedIn
  <2>4. row' = row \/ row' = [row EXCEPT ![s] = Settled(s, D.at, D.tries[s])]
    BY DEF Settle
  <2> HIDE DEF s, D
  <2> QED
    BY <1>0, <1>4, <2>2, <2>3, <2>4 DEF OutboxOK
<1>6. /\ DeliveryOK'
      /\ \A e \in Permits : e # d => delivery'[e] = delivery[e]
      /\ delivery'[d].at # "idle" => /\ delivery'[d].at = D.at /\ delivery'[d].rows = rest
                                     /\ rest # {}
  <2>1. CASE rest = {}
    <3>1. delivery' = [delivery EXCEPT ![d] = Idle]
      BY <2>1 DEF Settle
    <3>2. Idle \in DeliveryType /\ Idle.at = "idle"
      BY DEF Idle, DeliveryType
    <3> QED
      BY <1>0, <3>1, <3>2 DEF DeliveryOK
  <2>2. CASE rest # {}
    <3> DEFINE N == [at |-> D.at, rows |-> rest, tries |-> [D.tries EXCEPT ![s] = 0]]
    <3>1. delivery' = [delivery EXCEPT ![d] = N]
      BY <2>2 DEF Settle
    <3>2. 0 \in 0..(MaxAttempts - 1)
      OBVIOUS
    <3>3. [D.tries EXCEPT ![s] = 0] \in [Seqs -> 0..(MaxAttempts - 1)]
      BY <1>3, <3>2 DEF DeliveryType
    <3>4. N \in DeliveryType /\ N.at = D.at /\ N.rows = rest
      BY <1>3, <3>3 DEF DeliveryType
    <3> HIDE DEF N
    <3> QED
      BY <1>0, <2>2, <3>1, <3>4 DEF DeliveryOK
  <2> QED
    BY <2>1, <2>2
<1> HIDE DEF s
<1>7. Inv'
  <2>1. \A f \in frames : f.by # None => f.by # d /\ f.by \in Permits
    BY <1>0, <1>1 DEF Inv, FramesOfSent, FrameOfSent, FramesOK, FrameType
  <2>2. FramesOfSent' /\ OneFrame'
    BY <1>0, <1>1, <1>2, <1>6, <2>1 DEF Inv, FramesOfSent, FrameOfSent, OneFrame
  <2>3. Busy' /\ AckedIn'
    BY <1>0, <1>1, <1>2, <1>6 DEF Inv, Busy, AckedIn
  <2>4. Indexed' /\ DeliveredAccepted'
    BY <1>0, <1>1, <1>2, <1>5 DEF Inv, Indexed, DeliveredAccepted
  <2> QED
    BY <2>2, <2>3, <2>4 DEF Inv
<1> QED
  BY <1>0, <1>1, <1>5, <1>6, <1>7 DEF IInv, OutboxOK, FramesOK, RedisOK
-----------------------------------------------------------------------------
(* The ingress handler and the append script.                                *)

\* The script: what it accepts is in the stream afterwards, what is in the stream stays.
LEMMA Appended ==
    ASSUME IInv, NEW b \in 1..MaxBoxes, NEW s \in Seqs, Append1(b, s)
    PROVE  /\ RedisOK' /\ Indexed'
           /\ \A c, t : InStream(c, t) => InStream(c, t)'
           /\ Status(b, s) \in {"accepted", "duplicate"} => InStream(b, s)'
<1> USE LimitsAssumption, SeqsFacts, TypeParts
<1>0. RedisOK /\ Indexed
  BY DEF IInv, Inv
<1> DEFINE e == [box |-> b, seq |-> s]
<1>1. CASE Status(b, s) = "accepted"
  <2>0. e \in EntryType
    BY DEF EntryType
  <2>1. /\ stream' = Append(stream, e) /\ identity' = [identity EXCEPT ![s] = b] /\ last' = s
    BY <1>1 DEF Append1
  <2>2. /\ stream' \in Seq(EntryType) /\ Elems(stream)' = Elems(stream) \cup {e}
    BY <1>0, <2>0, <2>1, Grows
  <2>3. (\A c, t : InStream(c, t) => InStream(c, t)') /\ InStream(b, s)'
    BY <2>2 DEF InStream
  <2>4. RedisOK'
    BY <1>0, <2>1, <2>2 DEF RedisOK
  <2>5. Indexed'
    BY <1>0, <2>1, <2>3 DEF RedisOK, Indexed
  <2> QED
    BY <2>3, <2>4, <2>5
<1>2. CASE Status(b, s) # "accepted"
  <2>1. UNCHANGED <<last, identity, stream>>
    BY <1>2 DEF Append1, redis
  <2>2. \A c, t : InStream(c, t) <=> InStream(c, t)'
    BY <2>1 DEF InStream, Elems
  <2>3. Status(b, s) = "duplicate" => identity[s] = b
    BY <1>0 DEF Status, RedisOK
  <2> QED
    BY <1>0, <1>2, <2>1, <2>2, <2>3 DEF RedisOK, Indexed
<1> QED
  BY <1>1, <1>2

\* What an answer does to the deliveries.
LEMMA AnswerFacts ==
    ASSUME IInv, NEW f \in frames, NEW at \in {"acked", "failed"}, Answer(f, at)
    PROVE  /\ DeliveryOK' /\ Busy'
           /\ \A d \in Permits : d # f.by => delivery'[d] = delivery[d]
           /\ \A d \in Permits : d = f.by =>
                 delivery'[d].at = at /\ delivery'[d].rows = delivery[d].rows
<1> USE TypeParts
<1>0. DeliveryOK /\ FramesOK /\ Busy /\ FramesOfSent
  BY DEF IInv, Inv
<1>1. CASE f.by = None
  BY <1>0, <1>1, PermitsAssumption DEF Answer, DeliveryOK, Busy
<1>2. CASE f.by # None
  <2>1. f.by \in Permits /\ delivery[f.by].at = "sent"
    BY <1>0, <1>2 DEF FramesOK, FrameType, FramesOfSent, FrameOfSent
  <2>2. delivery' = [delivery EXCEPT ![f.by].at = at]
    BY <1>2 DEF Answer
  <2>3. DeliveryOK' /\ delivery'[f.by].at = at /\ delivery'[f.by].rows = delivery[f.by].rows
    BY <1>0, <2>1, <2>2 DEF DeliveryOK, DeliveryType
  <2>4. \A d \in Permits : d # f.by => delivery'[d] = delivery[d]
    BY <1>0, <2>2 DEF DeliveryOK
  <2>5. Busy'
    BY <1>0, <2>1, <2>3, <2>4 DEF Busy
  <2> QED
    BY <2>3, <2>4, <2>5
<1> QED
  BY <1>1, <1>2

LEMMA IngestStep == ASSUME IInv, NEW f \in frames, Ingest(f) PROVE IInv'
<1> USE LimitsAssumption, SeqsFacts, TypeParts
<1> DEFINE s == Least(f.todo)
<1>0. OutboxOK /\ DeliveryOK /\ FramesOK /\ RedisOK /\ used \in UsedType /\ Inv
  BY DEF IInv
<1>1. f \in FrameType /\ f.box \in 1..MaxBoxes /\ f.todo \in SUBSET Seqs /\ f.todo # {}
  <2>1. f \in FrameType
    BY <1>0 DEF FramesOK
  <2>2. f.box \in 1..MaxBoxes /\ f.todo \in (SUBSET Seqs) \ {{}}
    BY <2>1 DEF FrameType
  <2> QED
    BY <2>1, <2>2, NonEmpty
<1>2. s \in f.todo /\ s \in Seqs
  BY <1>1, LeastIn
<1>3. UNCHANGED <<box, lastSeq, row>> /\ used' \in UsedType
  BY <1>0, FaultType DEF Ingest, outbox, IInv
<1>4. Append1(f.box, s) \/ UNCHANGED redis
  BY DEF Ingest
<1> HIDE DEF s
<1>5. /\ RedisOK' /\ Indexed' /\ \A c, t : InStream(c, t) => InStream(c, t)'
  <2>1. CASE Append1(f.box, s)
    BY <1>1, <1>2, <2>1, Appended
  <2>2. CASE UNCHANGED redis
    BY <1>0, <2>2 DEF redis, RedisOK, Inv, Indexed, InStream, Elems
  <2> QED
    BY <1>4, <2>1, <2>2
<1>6. DeliveredAccepted'
  BY <1>0, <1>3, <1>5 DEF Inv, DeliveredAccepted
<1>7. OutboxOK'
  BY <1>0, <1>3 DEF OutboxOK
<1>8. \A g \in frames : g # f /\ g.by # None => g.by # f.by /\ g.by \in Permits
  BY <1>0 DEF Inv, OneFrame, FramesOK, FrameType
<1>9. f.by # None => f.by \in Permits
  BY <1>1 DEF FrameType
\* The frame is answered.
<1>10. ASSUME NEW at \in {"acked", "failed"}, frames' = frames \ {f}, Answer(f, at),
              at = "acked" => InStream(f.box, s)' /\ f.todo = {s}
       PROVE  DeliveryOK' /\ FramesOK' /\ Busy' /\ FramesOfSent' /\ OneFrame' /\ AckedIn'
  <2>1. /\ DeliveryOK' /\ Busy'
        /\ \A d \in Permits : d # f.by => delivery'[d] = delivery[d]
        /\ \A d \in Permits : d = f.by =>
              delivery'[d].at = at /\ delivery'[d].rows = delivery[d].rows
    BY <1>10, AnswerFacts
  <2>2. FramesOK' /\ OneFrame'
    BY <1>0, <1>10 DEF FramesOK, Inv, OneFrame
  <2>3. FramesOfSent'
    BY <1>0, <1>3, <1>5, <1>8, <1>10, <2>1 DEF Inv, FramesOfSent, FrameOfSent
  <2>4. AckedIn'
    <3> SUFFICES ASSUME NEW d \in Permits, delivery'[d].at = "acked", NEW t \in delivery'[d].rows
                 PROVE  InStream(box, t)'
      BY DEF AckedIn
    <3>1. CASE d # f.by
      BY <1>0, <1>3, <1>5, <2>1, <3>1 DEF Inv, AckedIn
    <3>2. CASE d = f.by
      <4>1. at = "acked" /\ t \in delivery[d].rows /\ f.by # None
        BY <2>1, <3>2, PermitsAssumption
      <4>2. f.box = box /\ (t \in f.todo \/ InStream(box, t))
        BY <1>0, <3>2, <4>1 DEF Inv, FramesOfSent, FrameOfSent
      <4> QED
        BY <1>3, <1>5, <1>10, <4>1, <4>2
    <3> QED
      BY <3>1, <3>2
  <2> QED
    BY <2>1, <2>2, <2>3, <2>4
\* The handler goes on to the next event of the frame.
<1>11. ASSUME f.todo \ {s} # {}, frames' = (frames \ {f}) \cup {Rest(f)}, UNCHANGED delivery,
              InStream(f.box, s)'
       PROVE  DeliveryOK' /\ FramesOK' /\ Busy' /\ FramesOfSent' /\ OneFrame' /\ AckedIn'
  <2>1. /\ Rest(f) \in FrameType /\ Rest(f).by = f.by /\ Rest(f).box = f.box
        /\ Rest(f).todo = f.todo \ {s}
    BY <1>1, <1>11 DEF Rest, FrameType, s
  <2>2. FramesOK'
    BY <1>0, <1>11, <2>1 DEF FramesOK
  <2>3. FramesOfSent'
    BY <1>0, <1>3, <1>5, <1>11, <2>1 DEF Inv, FramesOfSent, FrameOfSent
  <2>4. OneFrame'
    BY <1>0, <1>11, <2>1 DEF Inv, OneFrame
  <2>5. Busy' /\ AckedIn' /\ DeliveryOK'
    BY <1>0, <1>3, <1>5, <1>11 DEF Inv, Busy, AckedIn, DeliveryOK
  <2> QED
    BY <2>2, <2>3, <2>4, <2>5
<1>12. DeliveryOK' /\ FramesOK' /\ Busy' /\ FramesOfSent' /\ OneFrame' /\ AckedIn'
  <2>1. CASE frames' = frames \ {f} /\ Answer(f, "failed")
    BY <1>10, <2>1
  <2>2. CASE /\ Status(f.box, s) \in {"accepted", "duplicate"} /\ Append1(f.box, s)
             /\ IF Rest(f).todo # {}
                THEN frames' = (frames \ {f}) \cup {Rest(f)} /\ UNCHANGED delivery
                ELSE frames' = frames \ {f} /\ Answer(f, "acked")
    <3>1. InStream(f.box, s)'
      BY <1>1, <1>2, <2>2, Appended
    <3>2. Rest(f).todo = f.todo \ {s}
      BY <1>1 DEF Rest, FrameType, s
    <3>3. CASE Rest(f).todo # {}
      BY <1>11, <2>2, <3>1, <3>2, <3>3
    <3>4. CASE Rest(f).todo = {}
      <4>1. f.todo = {s}
        BY <1>2, <3>2, <3>4
      <4> QED
        BY <1>10, <2>2, <3>1, <3>4, <4>1
    <3> QED
      BY <3>3, <3>4
  <2> QED
    BY <2>1, <2>2 DEF Ingest, s
<1> QED
  BY <1>3, <1>5, <1>6, <1>7, <1>12 DEF IInv, Inv

LEMMA LoseStep == ASSUME IInv, NEW f \in frames, Lose(f) PROVE IInv'
<1> USE LimitsAssumption, SeqsFacts, TypeParts
<1>0. OutboxOK /\ DeliveryOK /\ FramesOK /\ RedisOK /\ used \in UsedType /\ Inv
  BY DEF IInv
<1>1. /\ UNCHANGED <<box, lastSeq, row, delivery, last, identity, stream, used>>
      /\ frames' = frames \ {f}
  BY DEF Lose, outbox, redis
<1>2. \A b, s : InStream(b, s)' <=> InStream(b, s)
  BY <1>1 DEF InStream, Elems
<1>3. FramesOfSent' /\ OneFrame' /\ FramesOK'
  BY <1>0, <1>1, <1>2 DEF Inv, FramesOfSent, FrameOfSent, OneFrame, FramesOK
<1>4. Busy' /\ AckedIn' /\ Indexed' /\ DeliveredAccepted'
  BY <1>0, <1>1, <1>2 DEF Inv, Busy, AckedIn, Indexed, DeliveredAccepted
<1> QED
  BY <1>0, <1>1, <1>3, <1>4 DEF IInv, Inv, OutboxOK, DeliveryOK, RedisOK

\* A crash and a new sandbox: every delivery is forgotten, and nobody waits for a frame.
LEMMA RestartStep == IInv /\ (Crash \/ Replace) => IInv'
<1> SUFFICES ASSUME IInv, Crash \/ Replace PROVE IInv'
  OBVIOUS
<1> USE LimitsAssumption, SeqsFacts, TypeParts
<1>0. OutboxOK /\ DeliveryOK /\ FramesOK /\ RedisOK /\ used \in UsedType /\ Inv
  BY DEF IInv
<1>1. /\ UNCHANGED <<last, identity, stream>>
      /\ delivery' = [d \in Permits |-> Idle]
      /\ frames' = {Orphan(f) : f \in frames}
  BY DEF Crash, Replace, redis
<1>2. \A b, s : InStream(b, s)' <=> InStream(b, s)
  BY <1>1 DEF InStream, Elems
<1>3. Idle \in DeliveryType /\ Idle.at = "idle"
  BY DEF Idle, DeliveryType
<1>4. \A f \in frames' : f \in FrameType /\ f.by = None
  BY <1>0, <1>1, OrphanFacts
<1>5. FramesOK' /\ FramesOfSent' /\ OneFrame'
  BY <1>4 DEF FramesOK, FramesOfSent, FrameOfSent, OneFrame
<1>6. DeliveryOK' /\ Busy' /\ AckedIn' /\ Indexed'
  BY <1>0, <1>1, <1>2, <1>3 DEF DeliveryOK, Inv, Busy, AckedIn, Indexed
<1>7. OutboxOK' /\ DeliveredAccepted' /\ used' \in UsedType
  <2>1. CASE Crash
    <3>1. used' \in UsedType
      BY <1>0, <2>1 DEF Crash, UsedType
    <3> QED
      BY <1>0, <1>2, <2>1, <3>1 DEF Crash, outbox, OutboxOK, Inv, DeliveredAccepted
  <2>2. CASE Replace
    <3>1. NoRow \in RowType /\ NoRow.status = "none"
      BY DEF NoRow, RowType
    <3> QED
      BY <1>0, <2>2, <3>1 DEF Replace, OutboxOK, DeliveredAccepted
  <2> QED
    BY <2>1, <2>2
<1> QED
  BY <1>0, <1>1, <1>5, <1>6, <1>7 DEF IInv, Inv, RedisOK

LEMMA ExpireStep == IInv /\ Expire => IInv'
<1> SUFFICES ASSUME IInv, Expire PROVE IInv'
  OBVIOUS
<1> USE LimitsAssumption, SeqsFacts, TypeParts
<1>0. OutboxOK /\ DeliveryOK /\ FramesOK /\ RedisOK /\ used \in UsedType /\ Inv
  BY DEF IInv
<1>1. /\ UNCHANGED <<box, lastSeq, row, delivery, frames, stream>>
      /\ last' = 0 /\ identity' = [s \in Seqs |-> 0]
  BY DEF Expire, outbox
<1>2. \A b, s : InStream(b, s)' <=> InStream(b, s)
  BY <1>1 DEF InStream, Elems
<1>3. used' \in UsedType
  BY <1>0 DEF Expire, UsedType
<1>4. RedisOK' /\ Indexed'
  BY <1>0, <1>1 DEF RedisOK, Indexed
<1>5. FramesOfSent' /\ OneFrame' /\ Busy' /\ AckedIn' /\ DeliveredAccepted'
  BY <1>0, <1>1, <1>2
     DEF Inv, FramesOfSent, FrameOfSent, OneFrame, Busy, AckedIn, DeliveredAccepted
<1> QED
  BY <1>0, <1>1, <1>3, <1>4, <1>5 DEF IInv, Inv, OutboxOK, DeliveryOK, FramesOK

LEMMA StutterStep == IInv /\ UNCHANGED vars => IInv'
<1> SUFFICES ASSUME IInv, UNCHANGED vars PROVE IInv'
  OBVIOUS
<1>1. UNCHANGED <<box, lastSeq, row, delivery, frames, last, identity, stream, used>>
  BY DEF vars, outbox, redis
<1>2. Inv'
  BY <1>1, RowsOnly DEF redis
<1> QED
  BY <1>1, <1>2, TypeParts DEF IInv, OutboxOK, DeliveryOK, FramesOK, RedisOK

LEMMA NextIInv == IInv /\ [Next]_vars => IInv'
BY EmitStep, RestartStep, ExpireStep, WaitsStep, ClaimStep, SendStep, GiveUpStep,
   SettleStep, IngestStep, LoseStep, StutterStep DEF Next, Done
-----------------------------------------------------------------------------
\* Rows, deliveries, frames and the keys in Redis stay what they are meant to be.
THEOREM TypeCorrect == Spec => []TypeOK
<1>1. IInv => TypeOK
  BY DEF IInv
<1> QED
  BY InitIInv, NextIInv, <1>1, PTL DEF Spec

\* Whatever is lost, sent twice or answered late: a row is marked delivered only after
\* the append script has put the event in the stream (drain_one_batch,
\* acceptRuntimeEvents).
THEOREM NothingDropped == Spec => []DeliveredAccepted
<1>1. IInv => DeliveredAccepted
  BY DEF IInv, Inv
<1> QED
  BY InitIInv, NextIInv, <1>1, PTL DEF Spec

\* The append script keeps the promise of EventLog against every sandbox and connection.
THEOREM StoreRefines == Spec => ImplementsEventLog
<1> USE LimitsAssumption, SeqsFacts
<1>1. Init => EL!Init
  BY DEF Init, EL!Init
<1>2. IInv /\ [Next]_vars => [EL!Next]_<<stream, Len(stream) - last>>
  <2> SUFFICES ASSUME IInv, [Next]_vars, ~ UNCHANGED <<stream, Len(stream) - last>>
               PROVE  EL!Next
    OBVIOUS
  <2>0. OutboxOK /\ FramesOK /\ RedisOK
    BY TypeParts DEF IInv
  <2>1. CASE UNCHANGED redis
    BY <2>1 DEF redis
  <2>2. CASE Expire
    <3>1. stream' = stream /\ last' = 0 /\ Len(stream) \in Nat
      BY <2>0, <2>2 DEF Expire, RedisOK
    <3> QED
      BY <3>1 DEF EL!Next, EL!Forget
  <2>3. ASSUME NEW f \in frames, Ingest(f), ~ UNCHANGED redis PROVE EL!Next
    <3> DEFINE s == Least(f.todo)
               e == [box |-> f.box, seq |-> s]
    <3>1. f.box \in 1..MaxBoxes /\ s \in Seqs
      <4>1. f \in FrameType
        BY <2>0 DEF FramesOK
      <4>2. f.box \in 1..MaxBoxes /\ f.todo \in (SUBSET Seqs) \ {{}}
        BY <4>1 DEF FrameType
      <4>3. f.todo \in SUBSET Nat /\ f.todo # {} /\ f.todo \subseteq Seqs
        BY <4>2, NonEmpty
      <4> QED
        BY <4>2, <4>3, LeastIn
    <3>2. Append1(f.box, s) /\ Status(f.box, s) = "accepted"
      BY <2>3 DEF Ingest, Append1
    <3> HIDE DEF s
    <3>3. stream' = Append(stream, e) /\ last' = s
      BY <3>2 DEF Append1
    <3>4. s = last + 1
      BY <2>0, <3>1, <3>2 DEF Status, RedisOK
    <3>5. e \in EntryType
      BY <3>1 DEF EntryType
    <3>6. Len(stream') = Len(stream) + 1 /\ Len(stream) \in Nat /\ last \in Nat
      BY <2>0, <3>3, <3>5, Grows DEF RedisOK
    <3>7. EL!Accept(e)
      BY <3>3, <3>4, <3>6 DEF EL!Accept
    <3>8. e \in EL!Event
      BY <3>5 DEF EL!Event, EntryType
    <3> QED
      BY <3>7, <3>8 DEF EL!Next
  <2> QED
    BY <2>1, <2>2, <2>3
       DEF Next, Emit, Crash, Replace, Done, RetryDue, LeaseEnds, ClaimDue, Send, GiveUp,
           Settle, Lose, vars
<1> QED
  BY InitIInv, NextIInv, <1>1, <1>2, PTL DEF Spec, ImplementsEventLog, EL!Spec

-----------------------------------------------------------------------------
(* What the leases protect.  As long as none ends under a delivery, a row that is  *)
(* claimed is pending and nobody else's, so that no second write reaches a row     *)
(* that is settled; and the rows a delivery takes follow without a gap on what the *)
(* store has, but for rows that were given up.                                     *)

\* The numbers given out are those of the rows.
Known == \A s \in Seqs : row[s].status = "none" <=> s > lastSeq
HeldKnown == \A d \in Permits : \A s \in delivery[d].rows : s <= lastSeq
HeldPending ==
    used.lapses = 0 =>
        \A d \in Permits : \A s \in delivery[d].rows : row[s].leased /\ row[s].status = "pending"
HeldOnce ==
    used.lapses = 0 =>
        \A d, e \in Permits : d # e => delivery[d].rows \cap delivery[e].rows = {}
Claims == Known /\ HeldKnown /\ HeldPending /\ HeldOnce

\* Frames of earlier sandboxes are older, and the index is not behind the stream.
Behind == \A f \in frames : f.box <= box
StreamBelow == used.expiries = 0 => \A e \in Elems(stream) : e.seq <= last

\* The store will not ask for an earlier event than s when it has taken those of R
\* before s, unless that event was given up.
Follows(s, R) == s - 1 \in R \/ s <= last + 1 \/ row[s - 1].status = "failed"
Steady == used.lapses = 0 /\ used.expiries = 0
SendsFollow ==
    Steady =>
        \A d \in Permits : delivery[d].at = "send" =>
            \A s \in delivery[d].rows : Follows(s, delivery[d].rows)
FramesFollow ==
    Steady => \A f \in frames : f.box = box => \A s \in f.todo : Follows(s, f.todo)

HInv == Claims /\ Behind /\ StreamBelow /\ SendsFollow /\ FramesFollow

\* Nothing is claimed at the start.
LEMMA InitHInv == Init => HInv
<1> SUFFICES ASSUME Init PROVE HInv
  OBVIOUS
<1>1. Claims
  BY SeqsFacts DEF Init, Claims, Known, HeldKnown, HeldPending, HeldOnce, NoRow, Idle
<1>2. Behind /\ SendsFollow /\ FramesFollow
  BY DEF Init, Behind, SendsFollow, FramesFollow, Idle
<1>3. StreamBelow
  BY DEF Init, StreamBelow, Elems
<1> QED
  BY <1>1, <1>2, <1>3 DEF HInv

\* The parts of the types, for a state and the next one.
LEMMA Parts ==
    ASSUME IInv
    PROVE  /\ box \in Nat /\ lastSeq \in 0..MaxEvents /\ row \in [Seqs -> RowType]
           /\ last \in Nat /\ stream \in Seq(EntryType)
           /\ used.lapses \in Nat /\ used.expiries \in Nat /\ used.faults \in Nat
           /\ used \in UsedType
           /\ \A d \in Permits : delivery[d].rows \in SUBSET Seqs
           /\ \A f \in frames : f.box \in Nat /\ f.todo \in SUBSET Seqs /\ f.todo # {}
                                /\ f \in FrameType
<1> USE LimitsAssumption, SeqsFacts, TypeParts
<1>1. OutboxOK /\ DeliveryOK /\ FramesOK /\ RedisOK /\ used \in UsedType
  BY DEF IInv
<1>2. /\ box \in Nat /\ lastSeq \in 0..MaxEvents /\ row \in [Seqs -> RowType]
      /\ last \in Nat /\ stream \in Seq(EntryType)
  BY <1>1 DEF OutboxOK, RedisOK
<1>3. used.lapses \in Nat /\ used.expiries \in Nat /\ used.faults \in Nat
  BY <1>1 DEF UsedType
<1>4. \A d \in Permits : delivery[d].rows \in SUBSET Seqs
  BY <1>1 DEF DeliveryOK, DeliveryType
<1>5. ASSUME NEW f \in frames
      PROVE  f.box \in Nat /\ f.todo \in SUBSET Seqs /\ f.todo # {} /\ f \in FrameType
  <2>1. f \in FrameType
    BY <1>1 DEF FramesOK
  <2>2. f.box \in 1..MaxBoxes /\ f.todo \in (SUBSET Seqs) \ {{}}
    BY <2>1 DEF FrameType
  <2> QED
    BY <2>1, <2>2, NonEmpty
<1> QED
  BY <1>1, <1>2, <1>3, <1>4, <1>5

\* A fault is neither a lapse nor an expiry.
LEMMA FaultUsed ==
    ASSUME used \in UsedType, Fault \/ UNCHANGED used
    PROVE  used'.lapses = used.lapses /\ used'.expiries = used.expiries
BY DEF Fault, UsedType

\* A step after which nothing new is to be sent: what a delivery or a frame was to
\* send before, or less, still follows.
LEMMA OthersFollow ==
    ASSUME IInv, Behind, SendsFollow, FramesFollow, UNCHANGED box,
           Steady' => Steady /\ last' \in Nat /\ last <= last'
                      /\ \A t \in Seqs : row[t].status = "failed" => row'[t].status = "failed",
           \A d \in Permits : delivery'[d].at = "send" =>
               delivery[d].at = "send" /\ delivery'[d].rows = delivery[d].rows,
           \A f \in frames' : \E g \in frames : f.box = g.box /\ f.todo = g.todo
    PROVE  Behind' /\ SendsFollow' /\ FramesFollow'
<1>1. Behind'
  BY DEF Behind
<1>2. ASSUME Steady', NEW R \in SUBSET Seqs, NEW s \in R, Follows(s, R)
      PROVE  s - 1 \in R \/ s <= last' + 1 \/ row'[s - 1].status = "failed"
  <2>1. s \in Nat /\ s >= 1 /\ (s - 1 \in Seqs \/ s = 1) /\ last \in Nat /\ last' \in Nat
        /\ last <= last'
    BY <1>2, Parts, SeqsFacts
  <2>2. CASE s - 1 \in Seqs
    BY <1>2, <2>1, <2>2 DEF Follows
  <2>3. CASE s = 1
    <3>1. last' \in Int /\ 0 <= last'
      BY <2>1
    <3>2. 1 <= last' + 1
      BY <3>1
    <3>3. s <= last' + 1
      BY <2>3, <3>2
    <3> QED
      BY <3>3
  <2> QED
    BY <2>1, <2>2, <2>3
<1>3. SendsFollow'
  <2> SUFFICES ASSUME Steady', NEW d \in Permits, delivery'[d].at = "send",
                      NEW s \in delivery'[d].rows
               PROVE  \/ s - 1 \in delivery'[d].rows
                      \/ s <= last' + 1 \/ row'[s - 1].status = "failed"
    BY DEF SendsFollow, Follows
  <2>1. /\ delivery[d].at = "send" /\ delivery'[d].rows = delivery[d].rows
        /\ delivery[d].rows \in SUBSET Seqs
    BY Parts
  <2>2. Follows(s, delivery[d].rows)
    BY <2>1 DEF SendsFollow
  <2> QED
    BY <1>2, <2>1, <2>2
<1>4. FramesFollow'
  <2> SUFFICES ASSUME Steady', NEW f \in frames', f.box = box, NEW s \in f.todo
               PROVE  s - 1 \in f.todo \/ s <= last' + 1 \/ row'[s - 1].status = "failed"
    BY DEF FramesFollow, Follows
  <2>1. PICK g \in frames : f.box = g.box /\ f.todo = g.todo
    OBVIOUS
  <2>2. g.todo \in SUBSET Seqs
    BY Parts
  <2>3. Follows(s, g.todo)
    BY <2>1 DEF FramesFollow
  <2> QED
    BY <1>2, <2>1, <2>2, <2>3
<1> QED
  BY <1>1, <1>3, <1>4

\* A step that leaves the rows alone and gives no delivery rows.
LEMMA ClaimsAlone ==
    ASSUME Claims, UNCHANGED <<row, lastSeq>>, used'.lapses = 0 => used.lapses = 0,
           \A d \in Permits : delivery'[d].rows \in SUBSET delivery[d].rows
    PROVE  Claims'
<1>1. Known'
  BY DEF Claims, Known
<1>2. HeldKnown'
  BY DEF Claims, HeldKnown
<1>3. HeldPending'
  BY DEF Claims, HeldPending
<1>4. HeldOnce'
  BY DEF Claims, HeldOnce
<1> QED
  BY <1>1, <1>2, <1>3, <1>4 DEF Claims

\* A new row is nobody's.
LEMMA EmitClaims ==
    ASSUME IInv, Claims, Emit
    PROVE  Claims' /\ \A s \in Seqs : row[s].status # "none" => row'[s] = row[s]
<1> USE LimitsAssumption, SeqsFacts
<1>1. /\ lastSeq \in 0..MaxEvents /\ row \in [Seqs -> RowType]
      /\ lastSeq < MaxEvents /\ lastSeq' = lastSeq + 1 /\ lastSeq' \in Seqs
      /\ row' = [row EXCEPT ![lastSeq'] = [NoRow EXCEPT !.status = "pending"]]
      /\ UNCHANGED <<box, delivery, frames, redis, used>>
  BY Parts DEF Emit
<1>2. [NoRow EXCEPT !.status = "pending"].status = "pending"
  BY DEF NoRow
<1>3. /\ \A s \in Seqs : s # lastSeq + 1 => row'[s] = row[s]
      /\ row'[lastSeq + 1].status = "pending" /\ row[lastSeq + 1].status = "none"
  BY <1>1, <1>2 DEF Claims, Known
<1>4. Known'
  <2> SUFFICES ASSUME NEW s \in Seqs PROVE row'[s].status = "none" <=> s > lastSeq + 1
    BY <1>1 DEF Known
  <2>1. row[s].status = "none" <=> s > lastSeq
    BY DEF Claims, Known
  <2>2. s \in Nat /\ lastSeq \in Nat
    BY <1>1
  <2>3. CASE s = lastSeq + 1
    BY <1>3, <2>2, <2>3
  <2>4. CASE s # lastSeq + 1
    BY <1>3, <2>1, <2>2, <2>4
  <2> QED
    BY <2>3, <2>4
<1>5. \A d \in Permits : \A s \in delivery[d].rows : s <= lastSeq /\ s \in Seqs
  BY Parts DEF Claims, HeldKnown
<1>6. \A d \in Permits : \A s \in delivery[d].rows : s <= lastSeq + 1 /\ row'[s] = row[s]
  <2> SUFFICES ASSUME NEW d \in Permits, NEW s \in delivery[d].rows
               PROVE  s <= lastSeq + 1 /\ row'[s] = row[s]
    OBVIOUS
  <2>1. s <= lastSeq /\ s \in Seqs /\ s \in Nat /\ lastSeq \in Nat
    BY <1>1, <1>5
  <2>2. s <= lastSeq + 1 /\ s # lastSeq + 1
    BY <2>1
  <2> QED
    BY <1>3, <2>1, <2>2
<1>7. HeldKnown' /\ HeldPending' /\ HeldOnce'
  <2>1. HeldKnown'
    BY <1>1, <1>6 DEF HeldKnown
  <2>2. HeldPending'
    BY <1>1, <1>6 DEF Claims, HeldPending
  <2>3. HeldOnce'
    BY <1>1 DEF Claims, HeldOnce
  <2> QED
    BY <2>1, <2>2, <2>3
<1> QED
  BY <1>3, <1>4, <1>7 DEF Claims

\* A lease that ends under a delivery is counted.
LEMMA WaitsClaims ==
    ASSUME IInv, Claims, NEW s \in Seqs, RetryDue(s) \/ LeaseEnds(s)
    PROVE  /\ Claims' /\ \A t \in Seqs : row'[t].status = row[t].status
           /\ used'.lapses = 0 => used.lapses = 0
           /\ used'.expiries = used.expiries
<1>1. row \in [Seqs -> RowType] /\ used.lapses \in Nat /\ used \in UsedType
  BY Parts
<1>2. /\ \A t \in Seqs : row'[t].status = row[t].status
      /\ \A t \in Seqs : row[t].leased /\ ~ row'[t].leased => t = s /\ LeaseEnds(s)
  <2>1. CASE row' = [row EXCEPT ![s].waiting = FALSE]
    BY <1>1, <2>1 DEF RowType
  <2>2. CASE LeaseEnds(s)
    <3>1. row' = [row EXCEPT ![s].leased = FALSE]
      BY <2>2 DEF LeaseEnds
    <3> QED
      BY <1>1, <2>2, <3>1 DEF RowType
  <2> QED
    BY <2>1, <2>2 DEF RetryDue
<1>3. /\ UNCHANGED <<lastSeq, delivery>>
      /\ used' = used \/ used' = [used EXCEPT !.lapses = @ + 1]
      /\ LeaseEnds(s) /\ (\E d \in Permits : s \in delivery[d].rows)
            => used' = [used EXCEPT !.lapses = @ + 1]
  BY DEF RetryDue, LeaseEnds, Holds
<1>4. /\ used'.lapses = 0 => used.lapses = 0 /\ used' # [used EXCEPT !.lapses = @ + 1]
      /\ used'.expiries = used.expiries
  BY <1>1, <1>3 DEF UsedType
<1>5. Known' /\ HeldKnown'
  BY <1>2, <1>3 DEF Claims, Known, HeldKnown
<1>6. HeldOnce'
  BY <1>3, <1>4 DEF Claims, HeldOnce
<1>7. HeldPending'
  <2> SUFFICES ASSUME used'.lapses = 0, NEW d \in Permits, NEW t \in delivery[d].rows
               PROVE  row'[t].leased /\ row'[t].status = "pending"
    BY <1>3 DEF HeldPending
  <2>1. row[t].leased /\ row[t].status = "pending" /\ t \in Seqs
    BY <1>4, Parts DEF Claims, HeldPending
  <2> QED
    BY <1>2, <1>3, <1>4, <2>1
<1> QED
  BY <1>2, <1>4, <1>5, <1>6, <1>7 DEF Claims

\* What is claimed is pending and not leased; it is leased afterwards.
LEMMA ClaimClaims ==
    ASSUME IInv, Claims, NEW d \in Permits, ClaimDue(d)
    PROVE  /\ Claims' /\ \A t \in Seqs : row'[t].status = row[t].status
           /\ delivery'[d].rows = Due
           /\ \A e \in Permits : e # d => delivery'[e] = delivery[e]
           /\ used'.lapses = used.lapses /\ used'.expiries = used.expiries
<1> DEFINE tries == [s \in Seqs |-> IF s \in Due THEN row[s].attempts ELSE 0]
           Of(at) == [at |-> at, rows |-> Due, tries |-> tries]
<1>1. row \in [Seqs -> RowType] /\ delivery \in [Permits -> DeliveryType] /\ used \in UsedType
  BY TypeParts DEF IInv, OutboxOK, DeliveryOK
<1>2. PICK at \in {"send", "postpone"} : delivery' = [delivery EXCEPT ![d] = Of(at)]
  BY DEF ClaimDue
<1>3. /\ delivery'[d].rows = Due
      /\ \A e \in Permits : e # d => delivery'[e] = delivery[e]
  BY <1>1, <1>2
<1>4. /\ \A t \in Seqs : row'[t].status = row[t].status
      /\ \A t \in Seqs : row[t].leased \/ t \in Due => row'[t].leased
  <2>1. row' = [s \in Seqs |-> IF s \in Due THEN [row[s] EXCEPT !.leased = TRUE] ELSE row[s]]
    BY DEF ClaimDue
  <2>2. \A t \in Seqs : /\ [row[t] EXCEPT !.leased = TRUE].status = row[t].status
                        /\ [row[t] EXCEPT !.leased = TRUE].leased
    BY <1>1 DEF RowType
  <2> QED
    BY <2>1, <2>2
<1>5. UNCHANGED lastSeq /\ (UNCHANGED used \/ Fault)
  BY DEF ClaimDue
<1>6. used'.lapses = used.lapses /\ used'.expiries = used.expiries
  BY <1>1, <1>5, FaultUsed
<1>7. \A s \in Due : s \in Seqs /\ row[s].status = "pending" /\ ~ row[s].leased
  <2> SUFFICES ASSUME NEW s \in Due
               PROVE  s \in Seqs /\ row[s].status = "pending" /\ ~ row[s].leased
    OBVIOUS
  <2>1. s \in Seqs /\ row[s].status = "pending" /\ \A t \in Pending : t <= s => ~ Blocked(t)
    BY DEF Due, Pending
  <2>2. s \in Pending /\ s <= s
    BY <2>1, SeqsFacts DEF Pending
  <2> QED
    BY <2>1, <2>2 DEF Blocked
<1>8. Known'
  BY <1>4, <1>5 DEF Claims, Known
<1>9. HeldKnown'
  <2>1. \A s \in Due : s <= lastSeq
    <3> SUFFICES ASSUME NEW s \in Due PROVE s <= lastSeq
      OBVIOUS
    <3>1. s \in Nat /\ lastSeq \in Nat /\ ~ (s > lastSeq)
      BY <1>7, Parts, SeqsFacts DEF Claims, Known
    <3> QED
      BY <3>1
  <2> QED
    BY <1>3, <1>5, <2>1 DEF Claims, HeldKnown
<1>10. HeldPending'
  <2> SUFFICES ASSUME used.lapses = 0, NEW e \in Permits, NEW t \in delivery'[e].rows
               PROVE  row'[t].leased /\ row'[t].status = "pending"
    BY <1>6 DEF HeldPending
  <2>1. CASE e = d
    BY <1>3, <1>4, <1>7, <2>1
  <2>2. CASE e # d
    <3>1. t \in delivery[e].rows /\ t \in Seqs
      BY <1>3, <2>2, Parts
    <3>2. row[t].leased /\ row[t].status = "pending"
      BY <3>1 DEF Claims, HeldPending
    <3> QED
      BY <1>4, <3>1, <3>2
  <2> QED
    BY <2>1, <2>2
<1>11. HeldOnce'
  <2> SUFFICES ASSUME used.lapses = 0, NEW e \in Permits, NEW c \in Permits, e # c
               PROVE  delivery'[e].rows \cap delivery'[c].rows = {}
    BY <1>6 DEF HeldOnce
  <2>1. \A b \in Permits : delivery[b].rows \cap Due = {}
    BY <1>7 DEF Claims, HeldPending
  <2> QED
    BY <1>3, <2>1 DEF Claims, HeldOnce
<1> QED
  BY <1>3, <1>4, <1>6, <1>8, <1>9, <1>10, <1>11 DEF Claims

\* A row that is settled was this delivery's and pending.
LEMMA SettleClaims ==
    ASSUME IInv, Claims, NEW d \in Permits, Settle(d)
    PROVE  /\ Claims'
           /\ used.lapses = 0 => \A t \in Seqs :
                  row'[t].status # row[t].status => row[t].status = "pending"
           /\ \A e \in Permits : delivery'[e].rows \in SUBSET delivery[e].rows
           /\ used'.lapses = used.lapses /\ used'.expiries = used.expiries
<1> DEFINE D == delivery[d]
           s == Least(D.rows)
           rest == D.rows \ {s}
<1>1. /\ row \in [Seqs -> RowType] /\ delivery \in [Permits -> DeliveryType] /\ used \in UsedType
      /\ D \in DeliveryType /\ D.rows \in SUBSET Seqs /\ D.rows # {}
  BY TypeParts DEF IInv, OutboxOK, DeliveryOK, DeliveryType, Inv, Busy, Settle
<1>2. s \in D.rows /\ s \in Seqs
  BY <1>1, LeastIn, SeqsFacts
<1>3. /\ UNCHANGED lastSeq
      /\ row' = row \/ row' = [row EXCEPT ![s] = Settled(s, D.at, D.tries[s])]
      /\ D.at \in {"acked", "failed", "unregistered", "postpone"}
      /\ UNCHANGED used \/ Fault
  BY DEF Settle
<1>4. used'.lapses = used.lapses /\ used'.expiries = used.expiries
  BY <1>1, <1>3, FaultUsed
<1>5. /\ \A e \in Permits : e # d => delivery'[e] = delivery[e]
      /\ delivery'[d].rows \in SUBSET rest
  <2>1. CASE rest = {}
    <3>1. delivery' = [delivery EXCEPT ![d] = Idle]
      BY <2>1 DEF Settle
    <3> QED
      BY <1>1, <3>1 DEF Idle
  <2>2. CASE rest # {}
    <3> DEFINE N == [at |-> D.at, rows |-> rest, tries |-> [D.tries EXCEPT ![s] = 0]]
    <3>1. delivery' = [delivery EXCEPT ![d] = N]
      BY <2>2 DEF Settle
    <3>2. N.rows = rest
      OBVIOUS
    <3> HIDE DEF N, rest
    <3> QED
      BY <1>1, <3>1, <3>2
  <2> QED
    BY <2>1, <2>2
<1>6. Settled(s, D.at, D.tries[s]).status # "none"
  <2>1. D.tries[s] \in 0..(MaxAttempts - 1)
    BY <1>1, <1>2 DEF DeliveryType
  <2>2. \A st \in {"delivered", "failed"} : Free(s, st).status = st
    BY <1>1, <1>2 DEF Free, RowType
  <2>3. \A a, w : Retry(a, w).status = "pending"
    BY DEF Retry
  <2> QED
    BY <1>3, <2>2, <2>3 DEF Settled
<1> HIDE DEF s, rest
<1>7. \A t \in Seqs : t # s => row'[t] = row[t]
  BY <1>1, <1>3
<1>8. row'[s].status = row[s].status \/ row'[s].status # "none"
  BY <1>1, <1>2, <1>3, <1>6
<1>9. row[s].status # "none" /\ s <= lastSeq
  <2>1. s <= lastSeq /\ s \in Nat /\ lastSeq \in Nat
    BY <1>2, Parts, SeqsFacts DEF Claims, HeldKnown
  <2>2. ~ (s > lastSeq)
    BY <2>1
  <2> QED
    BY <1>2, <2>1, <2>2 DEF Claims, Known
<1>10. Known'
  <2> SUFFICES ASSUME NEW t \in Seqs PROVE row'[t].status = "none" <=> t > lastSeq
    BY <1>3 DEF Known
  <2>1. row[t].status = "none" <=> t > lastSeq
    BY DEF Claims, Known
  <2>2. CASE t = s
    BY <1>8, <1>9, <2>1, <2>2
  <2>3. CASE t # s
    BY <1>7, <2>1, <2>3
  <2> QED
    BY <2>2, <2>3
<1>11. \A e \in Permits : delivery'[e].rows \in SUBSET delivery[e].rows
  BY <1>5 DEF rest
<1>12. HeldKnown'
  BY <1>3, <1>11 DEF Claims, HeldKnown
<1>13. HeldOnce'
  BY <1>4, <1>11 DEF Claims, HeldOnce
<1>14. HeldPending'
  <2> SUFFICES ASSUME used.lapses = 0, NEW e \in Permits, NEW t \in delivery'[e].rows
               PROVE  row'[t].leased /\ row'[t].status = "pending"
    BY <1>4 DEF HeldPending
  <2>1. t \in delivery[e].rows /\ t \in Seqs /\ row[t].leased /\ row[t].status = "pending"
    BY <1>11, Parts DEF Claims, HeldPending
  <2>2. t # s
    <3>1. CASE e = d
      BY <1>5, <3>1 DEF rest
    <3>2. CASE e # d
      BY <1>2, <2>1, <3>2 DEF Claims, HeldOnce
    <3> QED
      BY <3>1, <3>2
  <2> QED
    BY <1>7, <2>1, <2>2
<1>15. ASSUME used.lapses = 0, NEW t \in Seqs, row'[t].status # row[t].status
       PROVE  row[t].status = "pending"
  <2>1. t = s
    BY <1>7, <1>15
  <2> QED
    BY <1>2, <1>15, <2>1 DEF Claims, HeldPending
<1> QED
  BY <1>4, <1>10, <1>11, <1>12, <1>13, <1>14, <1>15 DEF Claims

\* No claim survives a restart.
LEMMA RestartClaims ==
    ASSUME IInv, Claims, Crash \/ Replace
    PROVE  Claims' /\ used'.lapses = used.lapses /\ used'.expiries = used.expiries
<1>1. used \in UsedType
  BY Parts
<1>2. used'.lapses = used.lapses /\ used'.expiries = used.expiries
  BY <1>1 DEF Crash, Replace, UsedType
<1>3. \A d \in Permits : delivery'[d].rows = {}
  BY DEF Crash, Replace, Idle
<1>4. CASE Crash
  BY <1>2, <1>3, <1>4, ClaimsAlone DEF Crash, outbox
<1>5. CASE Replace
  <2>1. Known'
    BY <1>5, SeqsFacts DEF Replace, Known, NoRow
  <2>2. HeldKnown' /\ HeldPending' /\ HeldOnce'
    BY <1>3 DEF HeldKnown, HeldPending, HeldOnce
  <2> QED
    BY <1>2, <2>1, <2>2 DEF Claims
<1> QED
  BY <1>2, <1>4, <1>5

\* What no step does: forget a lapse or an expiry, or write over a settled row.
Keeps ==
    /\ used'.lapses = 0 => used.lapses = 0
    /\ used'.expiries = 0 => used.expiries = 0
    /\ used.lapses = 0 /\ box' = box =>
          \A t \in Seqs : Final(t) => row'[t].status = row[t].status

\* Every step keeps the claims, and the promises of Keeps.
LEMMA NextClaims ==
    ASSUME IInv, Claims, [Next]_vars
    PROVE  Claims' /\ Keeps
<1>0. used \in UsedType /\ used.expiries \in Nat /\ used.lapses \in Nat
  BY Parts
<1>1. CASE UNCHANGED <<row, lastSeq, delivery>> /\ (UNCHANGED used \/ Fault)
  <2>1. used'.lapses = used.lapses /\ used'.expiries = used.expiries
    BY <1>0, <1>1, FaultUsed
  <2> QED
    BY <1>1, <2>1, ClaimsAlone DEF Keeps
<1>2. CASE Emit
  <2>1. Claims' /\ \A s \in Seqs : row[s].status # "none" => row'[s] = row[s]
    BY <1>2, EmitClaims
  <2> QED
    BY <1>2, <2>1 DEF Keeps, Emit, Final
<1>3. CASE Crash \/ Replace
  <2>1. Claims' /\ used'.lapses = used.lapses /\ used'.expiries = used.expiries
    BY <1>3, RestartClaims
  <2>2. row' = row \/ box' # box
    BY <1>3, Parts DEF Crash, Replace, outbox
  <2> QED
    BY <2>1, <2>2 DEF Keeps
<1>4. CASE Expire
  <2>1. UNCHANGED <<row, lastSeq, delivery>> /\ used' = [used EXCEPT !.expiries = @ + 1]
    BY <1>4 DEF Expire, outbox
  <2>2. used'.lapses = used.lapses /\ used'.expiries # 0
    BY <1>0, <2>1 DEF UsedType
  <2> QED
    BY <2>1, <2>2, ClaimsAlone DEF Keeps
<1>5. ASSUME NEW s \in Seqs, RetryDue(s) \/ LeaseEnds(s) PROVE Claims' /\ Keeps
  BY <1>5, WaitsClaims DEF Keeps
<1>6. ASSUME NEW d \in Permits, ClaimDue(d) PROVE Claims' /\ Keeps
  BY <1>6, ClaimClaims DEF Keeps
<1>7. ASSUME NEW d \in Permits, Settle(d) PROVE Claims' /\ Keeps
  BY <1>7, SettleClaims DEF Keeps, Final
<1>8. ASSUME NEW d \in Permits, Send(d) \/ GiveUp(d) PROVE Claims' /\ Keeps
  <2>1. PICK at \in {"sent", "failed", "unregistered"} : delivery' = [delivery EXCEPT ![d].at = at]
    BY <1>8 DEF Send, GiveUp
  <2>2. delivery[d].at # "idle" /\ UNCHANGED <<row, lastSeq>> /\ (UNCHANGED used \/ Fault)
    BY <1>8 DEF Send, GiveUp, Connected, outbox
  <2>3. \A e \in Permits : delivery'[e].rows = delivery[e].rows
    BY <2>1, <2>2, MovesTo
  <2>4. used'.lapses = used.lapses /\ used'.expiries = used.expiries
    BY <1>0, <2>2, FaultUsed
  <2> QED
    BY <2>2, <2>3, <2>4, ClaimsAlone DEF Keeps
<1>9. ASSUME NEW f \in frames, Ingest(f) PROVE Claims' /\ Keeps
  <2>1. UNCHANGED <<row, lastSeq>> /\ (UNCHANGED used \/ Fault)
        /\ (UNCHANGED delivery \/ \E at \in {"acked", "failed"} : Answer(f, at))
    BY <1>9 DEF Ingest, outbox
  <2>2. \A e \in Permits : delivery'[e].rows = delivery[e].rows
    BY <2>1, AnswerFacts
  <2>3. used'.lapses = used.lapses /\ used'.expiries = used.expiries
    BY <1>0, <2>1, FaultUsed
  <2> QED
    BY <2>1, <2>2, <2>3, ClaimsAlone DEF Keeps
<1> QED
  BY <1>1, <1>2, <1>3, <1>4, <1>5, <1>6, <1>7, <1>8, <1>9 DEF Next, Done, Lose, vars, outbox

\* The rows that are claimed follow on what was claimed before.
LEMMA DueFollows ==
    ASSUME IInv, HInv, Steady, NEW s \in Due
    PROVE  Follows(s, Due)
<1>1. /\ s \in Seqs /\ s \in Pending /\ \A t \in Pending : t <= s => ~ Blocked(t)
      /\ last \in Nat /\ lastSeq \in Nat
  BY Parts, SeqsFacts DEF Due, Pending
<1>2. s \in Nat /\ s >= 1 /\ (s = 1 \/ s - 1 \in Seqs)
  BY <1>1, SeqsFacts
<1>3. CASE s = 1
  <2>1. 1 <= last + 1
    BY <1>1
  <2> QED
    BY <1>3, <2>1 DEF Follows
<1>4. CASE s - 1 \in Seqs
  <2>1. s <= lastSeq
    <3>1. row[s].status = "pending"
      BY <1>1 DEF Pending
    <3>2. ~ (s > lastSeq)
      BY <1>1, <3>1 DEF HInv, Claims, Known
    <3> QED
      BY <1>1, <1>2, <3>2
  <2>2. row[s - 1].status # "none"
    <3>1. ~ (s - 1 > lastSeq)
      BY <1>1, <1>2, <2>1
    <3> QED
      BY <1>4, <3>1 DEF HInv, Claims, Known
  <2>3. row[s - 1].status \in {"pending", "delivered", "failed"}
    BY <1>4, <2>2, Parts DEF RowType
  <2>4. CASE row[s - 1].status = "pending"
    <3>1. s - 1 \in Pending
      BY <1>4, <2>4 DEF Pending
    <3>2. \A t \in Pending : t <= s - 1 => ~ Blocked(t)
      <4>1. \A t \in Pending : t \in Nat
        BY SeqsFacts DEF Pending
      <4> QED
        BY <1>1, <1>2, <4>1
    <3> QED
      BY <3>1, <3>2 DEF Due, Follows
  <2>5. CASE row[s - 1].status = "delivered"
    <3>1. InStream(box, s - 1)
      BY <1>4, <2>5 DEF IInv, Inv, DeliveredAccepted
    <3>2. s - 1 <= last
      BY <3>1 DEF HInv, StreamBelow, Steady, InStream
    <3>3. s <= last + 1
      BY <1>1, <1>2, <3>2
    <3> QED
      BY <3>3 DEF Follows
  <2> QED
    BY <2>3, <2>4, <2>5 DEF Follows
<1> QED
  BY <1>2, <1>3, <1>4

\* The stream and the index of the session move together.
LEMMA NextStream ==
    ASSUME IInv, StreamBelow, [Next]_vars, used'.expiries = 0 => used.expiries = 0
    PROVE  StreamBelow' /\ (used'.expiries = 0 => last' \in Nat /\ last <= last')
<1>0. last \in Nat /\ stream \in Seq(EntryType) /\ used \in UsedType /\ used.expiries \in Nat
  BY Parts
<1>1. CASE UNCHANGED redis
  BY <1>0, <1>1 DEF redis, StreamBelow, Elems
<1>2. CASE Expire
  <2>1. used' = [used EXCEPT !.expiries = @ + 1]
    BY <1>2 DEF Expire
  <2>2. used'.expiries # 0
    BY <1>0, <2>1 DEF UsedType
  <2> QED
    BY <2>2 DEF StreamBelow
<1>3. ASSUME NEW f \in frames, Ingest(f), ~ UNCHANGED redis
      PROVE  StreamBelow' /\ (used'.expiries = 0 => last' \in Nat /\ last <= last')
  <2> DEFINE s == Least(f.todo)
             e == [box |-> f.box, seq |-> s]
  <2>1. f.todo \in SUBSET Seqs /\ f.todo # {} /\ f \in FrameType
    BY Parts
  <2>2. s \in Seqs /\ s \in Nat /\ f.box \in 1..MaxBoxes
    BY <2>1, LeastIn, SeqsFacts DEF FrameType
  <2>3. Append1(f.box, s) /\ Status(f.box, s) = "accepted"
    BY <1>3 DEF Ingest, Append1
  <2> HIDE DEF s
  <2>4. stream' = Append(stream, e) /\ last' = s
    BY <2>3 DEF Append1
  <2>5. s = last + 1
    BY <1>0, <2>2, <2>3, Parts DEF Status, IInv, TypeOK
  <2>6. e \in EntryType /\ RedisOK
    BY <2>2, TypeParts DEF EntryType, IInv
  <2>7. Elems(stream)' = Elems(stream) \cup {e}
    BY <2>4, <2>6, Grows
  <2>8. ASSUME used'.expiries = 0, NEW x \in Elems(stream)' PROVE x.seq <= last'
    <3>1. CASE x = e
      BY <2>2, <2>4, <3>1
    <3>2. CASE x \in Elems(stream)
      <4>1. x.seq <= last
        BY <2>8, <3>2 DEF StreamBelow
      <4>2. x \in EntryType
        BY <1>0, <3>2 DEF Elems
      <4>3. x.seq \in Nat
        BY <4>2, SeqsFacts DEF EntryType
      <4> QED
        BY <1>0, <2>4, <2>5, <4>1, <4>3
    <3> QED
      BY <2>7, <2>8, <3>1, <3>2
  <2>9. StreamBelow'
    BY <2>8 DEF StreamBelow
  <2>10. last' \in Nat /\ last <= last'
    BY <1>0, <2>4, <2>5
  <2> QED
    BY <2>9, <2>10
<1> QED
  BY <1>1, <1>2, <1>3
     DEF Next, Emit, Crash, Replace, Done, RetryDue, LeaseEnds, ClaimDue, Send, GiveUp,
         Settle, Lose, vars

\* What follows on a number follows on a later one.
LEMMA FollowsLater ==
    ASSUME NEW t \in Int, NEW a \in Int, NEW b \in Int, a <= b, t <= a + 1
    PROVE  t <= b + 1
OBVIOUS

\* A frame that is sent has the rows of its delivery.
LEMMA SendFollows ==
    ASSUME IInv, HInv, NEW d \in Permits, Send(d)
    PROVE  Behind' /\ SendsFollow' /\ FramesFollow'
<1>1. /\ UNCHANGED <<box, row, last>> /\ delivery[d].at = "send"
      /\ used'.lapses = used.lapses /\ used'.expiries = used.expiries
  <2>1. UNCHANGED <<box, row, last>> /\ delivery[d].at = "send" /\ (UNCHANGED used \/ Fault)
    BY DEF Send, outbox, redis
  <2> QED
    BY <2>1, Parts, FaultUsed
<1>2. PICK at \in {"sent", "failed", "unregistered"} : delivery' = [delivery EXCEPT ![d].at = at]
  BY DEF Send
<1>3. /\ delivery'[d].at # "send"
      /\ \A e \in Permits : e # d => delivery'[e] = delivery[e]
  BY <1>1, <1>2, MovesTo
<1>4. \A f \in frames' : f \in frames \/ (f.box = box /\ f.todo = delivery[d].rows)
  <2>1. /\ Frame(d).box = box /\ Frame(d).todo = delivery[d].rows
        /\ Orphan(Frame(d)).box = box /\ Orphan(Frame(d)).todo = delivery[d].rows
    BY DEF Frame, Orphan
  <2>2. frames' \in {frames, frames \cup {Frame(d)}, frames \cup {Frame(d), Orphan(Frame(d))}}
    BY DEF Send
  <2> QED
    BY <2>1, <2>2
<1>5. Behind'
  BY <1>1, <1>4, Parts DEF HInv, Behind
<1>6. SendsFollow'
  BY <1>1, <1>3 DEF HInv, SendsFollow, Steady, Follows
<1>7. FramesFollow'
  <2> SUFFICES ASSUME Steady, NEW f \in frames', f.box = box, NEW s \in f.todo
               PROVE  Follows(s, f.todo)
    BY <1>1 DEF FramesFollow, Steady, Follows
  <2>1. CASE f \in frames
    BY <2>1 DEF HInv, FramesFollow
  <2>2. CASE f.todo = delivery[d].rows
    BY <1>1, <2>2 DEF HInv, SendsFollow
  <2> QED
    BY <1>4, <2>1, <2>2
<1> QED
  BY <1>5, <1>6, <1>7

\* What a delivery claims follows, by DueFollows.
LEMMA ClaimFollows ==
    ASSUME IInv, HInv, NEW d \in Permits, ClaimDue(d)
    PROVE  Behind' /\ SendsFollow' /\ FramesFollow'
<1>1. UNCHANGED <<box, last, frames>>
  BY DEF ClaimDue, redis
<1>2. /\ \A t \in Seqs : row'[t].status = row[t].status
      /\ delivery'[d].rows = Due
      /\ \A e \in Permits : e # d => delivery'[e] = delivery[e]
      /\ used'.lapses = used.lapses /\ used'.expiries = used.expiries
  BY ClaimClaims DEF HInv
<1>3. ASSUME NEW R \in SUBSET Seqs, NEW s \in R, Follows(s, R)
      PROVE  s - 1 \in R \/ s <= last + 1 \/ row'[s - 1].status = "failed"
  <2>1. s \in Nat /\ s >= 1 /\ (s - 1 \in Seqs \/ s = 1) /\ last \in Nat
    BY Parts, SeqsFacts
  <2>2. CASE s - 1 \in Seqs
    BY <1>2, <1>3, <2>2 DEF Follows
  <2>3. CASE s = 1
    <3>1. 1 <= last + 1
      BY <2>1
    <3> QED
      BY <2>3, <3>1
  <2> QED
    BY <2>1, <2>2, <2>3
<1>4. Behind'
  BY <1>1 DEF HInv, Behind
<1>5. SendsFollow'
  <2> SUFFICES ASSUME Steady, NEW e \in Permits, delivery'[e].at = "send",
                      NEW s \in delivery'[e].rows
               PROVE  \/ s - 1 \in delivery'[e].rows
                      \/ s <= last + 1 \/ row'[s - 1].status = "failed"
    BY <1>1, <1>2 DEF SendsFollow, Steady, Follows
  <2>1. CASE e = d
    <3>1. s \in Due /\ Due \in SUBSET Seqs
      BY <1>2, <2>1 DEF Due, Pending
    <3>2. Follows(s, Due)
      BY <3>1, DueFollows
    <3> QED
      BY <1>2, <1>3, <2>1, <3>1, <3>2
  <2>2. CASE e # d
    <3>1. delivery[e].at = "send" /\ s \in delivery[e].rows /\ delivery[e].rows \in SUBSET Seqs
          /\ delivery'[e].rows = delivery[e].rows
      BY <1>2, <2>2, Parts
    <3>2. Follows(s, delivery[e].rows)
      BY <3>1 DEF HInv, SendsFollow
    <3> QED
      BY <1>3, <3>1, <3>2
  <2> QED
    BY <2>1, <2>2
<1>6. FramesFollow'
  <2> SUFFICES ASSUME Steady, NEW f \in frames, f.box = box, NEW s \in f.todo
               PROVE  s - 1 \in f.todo \/ s <= last + 1 \/ row'[s - 1].status = "failed"
    BY <1>1, <1>2 DEF FramesFollow, Steady, Follows
  <2>1. Follows(s, f.todo) /\ f.todo \in SUBSET Seqs
    BY Parts DEF HInv, FramesFollow
  <2> QED
    BY <1>3, <2>1
<1> QED
  BY <1>4, <1>5, <1>6

\* The handler goes on with the event after the one the store has.
LEMMA IngestFollows ==
    ASSUME IInv, HInv, NEW f \in frames, Ingest(f),
           Steady' => last' \in Nat /\ last <= last'
    PROVE  Behind' /\ SendsFollow' /\ FramesFollow'
<1> DEFINE s == Least(f.todo)
<1>1. UNCHANGED <<box, row>> /\ (UNCHANGED used \/ Fault)
  BY DEF Ingest, outbox
<1>2. used'.lapses = used.lapses /\ used'.expiries = used.expiries
  BY <1>1, Parts, FaultUsed
<1>3. f.todo \in SUBSET Seqs /\ f.todo # {} /\ f \in FrameType /\ last \in Nat /\ s \in f.todo
  BY Parts, LeastIn, SeqsFacts
<1>4. \A e \in Permits : delivery'[e].at = "send" =>
          delivery[e].at = "send" /\ delivery'[e].rows = delivery[e].rows
  <2>1. UNCHANGED delivery \/ \E at \in {"acked", "failed"} : Answer(f, at)
    BY DEF Ingest
  <2> QED
    BY <2>1, AnswerFacts
<1>5. CASE frames' = frames \ {f}
  BY <1>1, <1>2, <1>4, <1>5, OthersFollow DEF HInv, Steady
<1>6. CASE /\ Status(f.box, s) \in {"accepted", "duplicate"} /\ Append1(f.box, s)
           /\ frames' = (frames \ {f}) \cup {Rest(f)} /\ UNCHANGED delivery
  <2>1. Rest(f).box = f.box /\ Rest(f).todo = f.todo \ {s}
    BY <1>3 DEF Rest, FrameType
  <2> HIDE DEF s
  <2>2. s <= last'
    <3>1. CASE Status(f.box, s) = "accepted"
      BY <1>3, <1>6, <3>1, SeqsFacts DEF Append1
    <3>2. CASE Status(f.box, s) # "accepted"
      <4>1. last' = last
        BY <1>6, <3>2 DEF Append1, redis
      <4>2. s \in Nat /\ Status(f.box, s) = "duplicate"
        BY <1>3, <1>6, <3>2, SeqsFacts
      <4>3. f.box \in 1..MaxBoxes /\ identity[s] \in 0..MaxBoxes
        BY <1>3, TypeParts DEF FrameType, IInv, RedisOK
      <4>4. s <= last
        BY <1>3, <4>2, <4>3 DEF Status
      <4> QED
        BY <4>1, <4>4
    <3> QED
      BY <3>1, <3>2
  <2>3. Behind'
    BY <1>1, <1>6, <2>1 DEF HInv, Behind
  <2>4. ASSUME Steady, NEW R \in SUBSET Seqs, NEW t \in R, Follows(t, R)
        PROVE  t - 1 \in R \/ t <= last' + 1 \/ row'[t - 1].status = "failed"
    <3>1. t \in Nat /\ last \in Nat /\ last' \in Nat /\ last <= last'
      BY <1>2, <1>3, <2>4, SeqsFacts DEF Steady
    <3>2. CASE t <= last + 1
      <4>1. t \in Int /\ last \in Int /\ last' \in Int /\ last <= last'
        BY <3>1
      <4>2. t <= last' + 1
        BY <3>2, <4>1, FollowsLater
      <4> QED
        BY <4>2
    <3> QED
      BY <1>1, <2>4, <3>2 DEF Follows
  <2>5. SendsFollow'
    <3> SUFFICES ASSUME Steady, NEW e \in Permits, delivery[e].at = "send",
                        NEW t \in delivery[e].rows
                 PROVE  t - 1 \in delivery[e].rows \/ t <= last' + 1
                        \/ row'[t - 1].status = "failed"
      BY <1>2, <1>6 DEF SendsFollow, Steady, Follows
    <3>1. Follows(t, delivery[e].rows) /\ delivery[e].rows \in SUBSET Seqs
      BY Parts DEF HInv, SendsFollow
    <3> QED
      BY <2>4, <3>1
  <2>6. FramesFollow'
    <3> SUFFICES ASSUME Steady, NEW g \in frames', g.box = box, NEW t \in g.todo
                 PROVE  t - 1 \in g.todo \/ t <= last' + 1 \/ row'[t - 1].status = "failed"
      BY <1>1, <1>2 DEF FramesFollow, Steady, Follows
    <3>1. CASE g \in frames
      <4>1. Follows(t, g.todo) /\ g.todo \in SUBSET Seqs
        BY <3>1, Parts DEF HInv, FramesFollow
      <4> QED
        BY <2>4, <4>1
    <3>2. CASE g = Rest(f)
      <4>1. t \in f.todo /\ Follows(t, f.todo)
        BY <2>1, <3>2 DEF HInv, FramesFollow
      <4>2. t - 1 \in f.todo \/ t <= last' + 1 \/ row'[t - 1].status = "failed"
        BY <1>3, <2>4, <4>1
      <4>3. CASE t - 1 = s
        <5>1. t \in Nat /\ s \in Nat /\ last' \in Nat
          BY <1>2, <1>3, <4>1, SeqsFacts DEF Steady
        <5>2. t \in Int /\ s \in Int /\ last' \in Int
          BY <5>1
        <5>3. t <= s + 1
          BY <4>3, <5>2
        <5>4. t <= last' + 1
          BY <2>2, <5>2, <5>3, FollowsLater
        <5> QED
          BY <5>4
      <4>4. CASE t - 1 # s
        BY <2>1, <3>2, <4>2, <4>4
      <4> QED
        BY <4>3, <4>4
    <3> QED
      BY <1>6, <3>1, <3>2
  <2> QED
    BY <2>3, <2>5, <2>6
<1> QED
  BY <1>5, <1>6 DEF Ingest

\* Every step keeps HInv.
LEMMA NextHInv ==
    ASSUME IInv, HInv, [Next]_vars
    PROVE  HInv' /\ Keeps
<1>1. Claims' /\ Keeps
  BY NextClaims DEF HInv
<1>2. StreamBelow' /\ (used'.expiries = 0 => last' \in Nat /\ last <= last')
  BY <1>1, NextStream DEF HInv, Keeps
<1>3. UNCHANGED box =>
        (Steady' => Steady /\ last' \in Nat /\ last <= last'
                    /\ \A t \in Seqs : row[t].status = "failed" => row'[t].status = "failed")
  BY <1>1, <1>2 DEF Steady, Keeps, Final
<1>4. Behind' /\ SendsFollow' /\ FramesFollow'
  <2>1. CASE UNCHANGED <<box, delivery, frames>>
    BY <1>3, <2>1, OthersFollow DEF HInv
  <2>2. CASE Crash
    <3>1. \A d \in Permits : delivery'[d].at # "send"
      BY <2>2 DEF Crash, Idle
    <3>2. \A f \in frames' : \E g \in frames : f.box = g.box /\ f.todo = g.todo
      BY <2>2, Parts DEF Crash, Orphan, FrameType
    <3> QED
      BY <1>3, <2>2, <3>1, <3>2, OthersFollow DEF HInv, Crash, outbox
  <2>3. CASE Replace
    <3>1. \A d \in Permits : delivery'[d].at # "send"
      BY <2>3 DEF Replace, Idle
    <3>2. \A f \in frames' : \E g \in frames : f.box = g.box
      BY <2>3, Parts DEF Replace, Orphan, FrameType
    <3>3. box' = box + 1 /\ box \in Nat /\ \A g \in frames : g.box \in Nat /\ g.box <= box
      BY <2>3, Parts DEF Replace, HInv, Behind
    <3>4. \A f \in frames' : f.box <= box' /\ f.box # box'
      BY <3>2, <3>3
    <3> QED
      BY <3>1, <3>4 DEF Behind, SendsFollow, FramesFollow
  <2>4. ASSUME NEW d \in Permits, ClaimDue(d) PROVE Behind' /\ SendsFollow' /\ FramesFollow'
    BY <2>4, ClaimFollows
  <2>5. ASSUME NEW d \in Permits, Send(d) PROVE Behind' /\ SendsFollow' /\ FramesFollow'
    BY <2>5, SendFollows
  <2>6. ASSUME NEW d \in Permits, GiveUp(d) PROVE Behind' /\ SendsFollow' /\ FramesFollow'
    <3>1. delivery[d].at = "sent" /\ delivery' = [delivery EXCEPT ![d].at = "failed"]
      BY <2>6 DEF GiveUp, Connected
    <3>2. /\ delivery'[d].at = "failed" /\ \A e \in Permits : e # d => delivery'[e] = delivery[e]
      BY <3>1, MovesTo
    <3>3. \A f \in frames' : \E g \in frames : f.box = g.box /\ f.todo = g.todo
      BY <2>6, Parts DEF GiveUp, Orphan, FrameType
    <3> QED
      BY <1>3, <2>6, <3>2, <3>3, OthersFollow DEF HInv, GiveUp, outbox
  <2>7. ASSUME NEW d \in Permits, Settle(d) PROVE Behind' /\ SendsFollow' /\ FramesFollow'
    <3>1. /\ delivery[d].at # "send" /\ UNCHANGED <<box, frames>>
          /\ delivery \in [Permits -> DeliveryType]
      BY <2>7, TypeParts DEF Settle, IInv, DeliveryOK
    <3>2. PICK n : delivery' = [delivery EXCEPT ![d] = n] /\ n.at # "send"
      <4> DEFINE rest == delivery[d].rows \ {Least(delivery[d].rows)}
                 N == [at |-> delivery[d].at, rows |-> rest,
                       tries |-> [delivery[d].tries EXCEPT ![Least(delivery[d].rows)] = 0]]
      <4>1. delivery' = [delivery EXCEPT ![d] = IF rest = {} THEN Idle ELSE N]
        BY <2>7 DEF Settle
      <4>2. Idle.at # "send" /\ N.at # "send"
        BY <3>1 DEF Idle
      <4> HIDE DEF N, rest
      <4> QED
        BY <4>1, <4>2
    <3>3. delivery'[d].at # "send" /\ \A e \in Permits : e # d => delivery'[e] = delivery[e]
      BY <3>1, <3>2
    <3> QED
      BY <1>3, <3>1, <3>3, OthersFollow DEF HInv
  <2>8. ASSUME NEW f \in frames, Ingest(f) PROVE Behind' /\ SendsFollow' /\ FramesFollow'
    BY <1>2, <2>8, IngestFollows DEF Steady
  <2>9. ASSUME NEW f \in frames, Lose(f) PROVE Behind' /\ SendsFollow' /\ FramesFollow'
    <3>1. UNCHANGED <<box, delivery>> /\ frames' = frames \ {f}
      BY <2>9 DEF Lose, outbox
    <3> QED
      BY <1>3, <3>1, OthersFollow DEF HInv
  <2> QED
    BY <2>1, <2>2, <2>3, <2>4, <2>5, <2>6, <2>7, <2>8, <2>9
       DEF Next, Emit, Expire, Done, RetryDue, LeaseEnds, vars, outbox
<1> QED
  BY <1>1, <1>2, <1>4 DEF HInv

\* As long as no lease ends under a delivery, a row that is delivered or given up stays
\* so (mark_status and schedule_retry look at nothing): what a delivery writes over was
\* pending, because outbox_claim_due takes no row that is leased.
THEOREM SettledForGood == Spec => SettledStays
<1>1. Init => IInv /\ HInv
  BY InitIInv, InitHInv
<1>2. IInv /\ HInv /\ [Next]_vars => (IInv /\ HInv)'
  BY NextIInv, NextHInv
<1>3. IInv /\ HInv /\ [Next]_vars =>
        [\A s \in Seqs : Final(s) /\ used.lapses = 0 /\ box' = box =>
             row'[s].status = row[s].status]_vars
  BY NextHInv DEF Keeps
<1> QED
  BY <1>1, <1>2, <1>3, PTL DEF Spec, SettledStays

\* NoHole holds in every state: claims, retries, crashes and old connections never send
\* the store an event whose predecessor it lacks, unless the runtime gave that one up.
THEOREM NoHoleTheorem == Spec => []NoHole
<1>1. Init => IInv /\ HInv
  BY InitIInv, InitHInv
<1>2. IInv /\ HInv /\ [Next]_vars => (IInv /\ HInv)'
  BY NextIInv, NextHInv
<1>3. IInv /\ HInv => NoHole
  <2> SUFFICES ASSUME IInv, HInv, NEW f \in frames, NEW s \in Seqs, f.box = box,
                      used.expiries = 0, used.lapses = 0, s \in f.todo
               PROVE  \/ s <= last + 1 \/ s - 1 \in f.todo
                      \/ \E t \in Seqs : t < s /\ GivenUp(f.box, t)
    BY DEF NoHole
  <2>1. Follows(s, f.todo) /\ last \in Nat /\ s \in Nat /\ s >= 1 /\ (s - 1 \in Seqs \/ s = 1)
    BY Parts, SeqsFacts DEF HInv, FramesFollow, Steady
  <2>2. CASE s = 1
    <3>1. 1 <= last + 1
      BY <2>1
    <3> QED
      BY <2>2, <3>1
  <2>3. CASE s - 1 \in Seqs /\ row[s - 1].status = "failed"
    <3>1. CASE InStream(box, s - 1)
      <4>1. s - 1 <= last
        BY <3>1 DEF HInv, StreamBelow, InStream
      <4>2. s <= last + 1
        BY <2>1, <4>1
      <4> QED
        BY <4>2
    <3>2. CASE ~ InStream(box, s - 1)
      <4>1. s - 1 < s
        BY <2>1
      <4>2. GivenUp(f.box, s - 1)
        BY <2>3, <3>2 DEF GivenUp
      <4> QED
        BY <2>3, <4>1, <4>2
    <3> QED
      BY <3>1, <3>2
  <2> QED
    BY <2>1, <2>2, <2>3 DEF Follows
<1> QED
  BY <1>1, <1>2, <1>3, PTL DEF Spec
=============================================================================
