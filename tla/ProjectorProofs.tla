--------------------------- MODULE ProjectorProofs ---------------------------
(***************************************************************************)
(* Theorems about Projector for any replicas, sessions, batch size and     *)
(* number of faults: nothing is acknowledged that was not projected, two   *)
(* replicas own the shard only after a lease was lost, and until something *)
(* goes wrong a session's state is that of its latest event.               *)
(***************************************************************************)
EXTENDS Projector, FiniteSetTheorems, WellFoundedInduction, TLAPS

ProjType == [at : {"out", "run", "store", "project", "ack"},
             batch : SUBSET (1..next), left : SUBSET (1..next)]
HadType == [fault : 0..MaxTrouble, lapse : 0..MaxTrouble]

RedisOK == /\ stream \in Seq(Entry) /\ Len(stream) <= MaxEntries /\ last \in [Sessions -> Nat]
           /\ next \in 0..Len(stream) /\ pel \subseteq 1..next /\ stale \subseteq pel
           /\ lease \in Projectors \cup {None}
ProjOK == proj \in [Projectors -> ProjType]
SizesOK == \A p \in Projectors : Cardinality(proj[p].batch) <= BatchSize
RowsOK == /\ stored \subseteq 1..next /\ applied \subseteq 1..next
          /\ state \in [Sessions -> 0..next] /\ gone \subseteq Sessions

\* The batch in hand: what is under way is not empty, and who is out has none.
InHand == \A p \in Projectors :
    /\ proj[p].at = "out" => proj[p].batch = {}
    /\ proj[p].at \in {"store", "project", "ack"} => proj[p].batch # {}
    /\ proj[p].at = "project" => proj[p].left # {} /\ proj[p].left \subseteq proj[p].batch

\* What has been done of it.
DoneSoFar == \A p \in Projectors : \A i \in proj[p].batch :
    stream[i].persist =>
        /\ proj[p].at \in {"project", "ack"} /\ ~Deleted(i) => HasRow(i)
        /\ proj[p].at = "project" => i \in proj[p].left \/ i \in applied
        /\ proj[p].at = "ack" => i \in applied

\* What is not pending has been done.
Acked == \A i \in 1..next :
    stream[i].persist /\ ~Deleted(i) => i \in pel \/ (i \in applied /\ HasRow(i))

\* Who works on the shard has its lease, until a lease is lost.
OwnerHasLease ==
    had.lapse = 0 => \A p \in Projectors : proj[p].at # "out" => lease = p

\* Until something goes wrong the pending entries are those in hand, and what is still to
\* be projected comes after everything that was.
Later(p) == IF proj[p].at = "project" THEN proj[p].left
            ELSE IF proj[p].at = "ack" THEN {} ELSE proj[p].batch
InOrder ==
    Undisturbed =>
        /\ \A i \in pel : \E p \in Projectors : i \in proj[p].batch
        /\ stale = {}
        /\ \A p \in Projectors : \A i \in applied, j \in Later(p) : i < j

Inv == InHand /\ DoneSoFar /\ Acked /\ OwnerHasLease /\ InOrder /\ StateIsLatest
IInv == TypeOK /\ Inv
-----------------------------------------------------------------------------
(* Sets of positions.                                                        *)

LEMMA LeastIn ==
    ASSUME NEW S \in SUBSET Nat, S # {}
    PROVE  Least(S) \in S /\ \A t \in S : Least(S) <= t
<1> DEFINE R == OpToRel(<, Nat)
<1>1. IsWellFoundedOn(R, Nat)
  BY NatLessThanWellFounded, Zenon
<1>2. ASSUME NEW x \in Nat, NEW y \in Nat, y < x PROVE <<y, x>> \in R
  BY <1>2, Zenon DEF OpToRel
<1> HIDE DEF R
<1>3. PICK x \in S : \A y \in S : <<y, x>> \notin R
  BY <1>1, WFMin
<1>4. \A y \in S : x <= y
  <2> SUFFICES ASSUME NEW y \in S PROVE x <= y
    OBVIOUS
  <2>1. x \in Nat /\ y \in Nat /\ <<y, x>> \notin R
    BY <1>3
  <2>2. ~ (y < x)
    BY <1>2, <2>1, Zenon
  <2> QED
    BY <2>1, <2>2
<1> QED
  BY <1>4 DEF Least

LEMMA Finite ==
    ASSUME NEW n \in Nat, NEW S \in SUBSET (1..n)
    PROVE  IsFiniteSet(S) /\ Cardinality(S) \in Nat
<1>1. IsFiniteSet(1..n)
  BY FS_Interval
<1>2. IsFiniteSet(S)
  BY <1>1, FS_Subset
<1> QED
  BY <1>2, FS_CardinalityType

\* A set of positions that is not empty has a greatest member.
LEMMA GreatestIn ==
    ASSUME NEW n \in Nat, NEW T \in SUBSET (1..n), T # {}
    PROVE  \E m \in T : \A t \in T : t <= m
<1> DEFINE U == {u \in Nat : \A t \in T : t <= u}
           m == Least(U)
<1>1. n \in U /\ U \in SUBSET Nat
  OBVIOUS
<1>2. m \in U /\ \A u \in U : m <= u
  BY <1>1, LeastIn
<1>3. m \in Nat /\ \A t \in T : t <= m
  BY <1>2
<1> HIDE DEF m
<1>4. CASE m \in T
  BY <1>3, <1>4
<1>5. CASE m \notin T
  <2>1. \A t \in T : t \in Nat /\ t >= 1 /\ t <= m /\ t # m
    BY <1>3, <1>5
  <2>2. m - 1 \in Nat /\ \A t \in T : t <= m - 1
    <3>1. PICK t \in T : TRUE
      OBVIOUS
    <3>2. m >= 1
      BY <1>3, <2>1, <3>1
    <3> QED
      BY <1>3, <2>1, <3>2
  <2>3. m - 1 \in U
    BY <2>2
  <2> QED
    BY <1>2, <1>3, <2>3
<1> QED
  BY <1>4, <1>5

\* The first n of some positions: n at most, and not none.
LEMMA FirstFacts ==
    ASSUME NEW k \in Nat, NEW S \in SUBSET (1..k), NEW n \in Nat \ {0}
    PROVE  /\ First(n, S) \subseteq S /\ Cardinality(First(n, S)) <= n
           /\ S # {} => First(n, S) # {}
<1> DEFINE T == First(n, S)
           Below(i) == {j \in S : j < i}
<1>1. T = {i \in S : Cardinality(Below(i)) < n}
  BY DEF First
<1>2. T \in SUBSET (1..k) /\ T \subseteq S /\ IsFiniteSet(T) /\ Cardinality(T) \in Nat
  BY <1>1, Finite
<1>3. Cardinality(T) <= n
  <2>1. CASE T = {}
    BY <2>1, FS_EmptySet
  <2>2. CASE T # {}
    <3>1. PICK m \in T : \A t \in T : t <= m
      BY <1>2, <2>2, GreatestIn
    <3>2. Cardinality(Below(m)) < n /\ Cardinality(Below(m)) \in Nat /\ IsFiniteSet(Below(m))
      <4>1. Below(m) \in SUBSET (1..k)
        OBVIOUS
      <4> QED
        BY <1>1, <3>1, <4>1, Finite
    <3>3. T \ {m} \subseteq Below(m)
      <4> SUFFICES ASSUME NEW t \in T, t # m PROVE t \in Below(m)
        OBVIOUS
      <4>1. t \in S /\ t \in Nat /\ m \in Nat /\ t <= m
        BY <1>2, <3>1
      <4> QED
        BY <4>1
    <3>4. Cardinality(T \ {m}) <= Cardinality(Below(m))
      BY <3>2, <3>3, FS_Subset
    <3>5. Cardinality(T \ {m}) = Cardinality(T) - 1
      BY <1>2, <3>1, FS_RemoveElement
    <3> QED
      BY <1>2, <3>2, <3>4, <3>5
  <2> QED
    BY <2>1, <2>2
<1>4. ASSUME S # {} PROVE T # {}
  <2>1. Least(S) \in S /\ \A t \in S : Least(S) <= t
    BY <1>4, LeastIn
  <2>2. Below(Least(S)) = {}
    <3> DEFINE l == Least(S)
    <3>0. \A t \in S : t \in Nat
      OBVIOUS
    <3>1. l \in S /\ \A t \in S : l <= t
      BY <2>1
    <3> HIDE DEF l
    <3>2. \A t \in S : ~ (t < l)
      BY <3>0, <3>1
    <3> QED
      BY <3>2 DEF l
  <2>3. Cardinality(Below(Least(S))) = 0
    BY <2>2, FS_EmptySet
  <2> QED
    BY <1>1, <2>1, <2>3
<1> QED
  BY <1>2, <1>3, <1>4

\* The first n of a stretch of the stream are a stretch.
LEMMA FirstOfStretch ==
    ASSUME NEW a \in Nat, NEW b \in Nat, a < b, NEW n \in Nat \ {0},
           NEW T, T = First(n, (a + 1)..b)
    PROVE  /\ T = (a + 1)..(a + Cardinality(T)) /\ T # {}
           /\ Cardinality(T) \in Nat /\ Cardinality(T) <= n /\ a + Cardinality(T) <= b
<1> DEFINE S == (a + 1)..b
           c == IF a + n <= b THEN a + n ELSE b
<1>1. \A i \in S : Cardinality({j \in S : j < i}) = i - 1 - a
  <2> TAKE i \in S
  <2>1. {j \in S : j < i} = (a + 1)..(i - 1)
    OBVIOUS
  <2>2. Cardinality((a + 1)..(i - 1)) = i - 1 - a
    BY FS_Interval
  <2> QED
    BY <2>1, <2>2
<1>2. T = {i \in S : i - 1 - a < n}
  BY <1>1 DEF First
<1>3. T = (a + 1)..c
  <2>1. \A i \in Int : i \in (a + 1)..c <=> i \in S /\ i - 1 - a < n
    OBVIOUS
  <2>2. \A i \in T : i \in Int /\ i \in S /\ i - 1 - a < n
    BY <1>2
  <2>3. \A i \in (a + 1)..c : i \in Int
    OBVIOUS
  <2> QED
    BY <1>2, <2>1, <2>2, <2>3
<1>4. Cardinality(T) = c - a
  BY <1>3, FS_Interval
<1>5. c \in Nat /\ c > a /\ c <= b /\ c <= a + n
  OBVIOUS
<1> HIDE DEF c
<1> QED
  BY <1>3, <1>4, <1>5
-----------------------------------------------------------------------------
LEMMA TypeParts ==
    /\ TypeOK <=> RedisOK /\ ProjOK /\ SizesOK /\ RowsOK /\ had \in HadType
    /\ TypeOK' <=> RedisOK' /\ ProjOK' /\ SizesOK' /\ RowsOK' /\ had' \in HadType
BY DEF TypeOK, RedisOK, ProjOK, SizesOK, RowsOK, ProjType, HadType

LEMMA TroubleFacts ==
    ASSUME TypeOK, NEW kind \in {"fault", "lapse"}, Trouble(kind)
    PROVE  /\ had' \in HadType /\ ~ Undisturbed'
           /\ had'.lapse = 0 => kind # "lapse" /\ had.lapse = 0
<1> USE SizesAssumption
<1>0. Cardinality(gone) \in Nat
  BY FS_Subset, FS_CardinalityType DEF TypeOK
<1>1. had \in HadType
  BY TypeParts
<1>2. CASE kind = "fault"
  <2>1. /\ had.fault + had.lapse + Cardinality(gone) < MaxTrouble
        /\ had' = [had EXCEPT !.fault = @ + 1]
    BY <1>2 DEF Trouble, Troubled
  <2> QED
    BY <1>0, <1>1, <1>2, <2>1 DEF HadType, Undisturbed
<1>3. CASE kind = "lapse"
  <2>1. /\ had.fault + had.lapse + Cardinality(gone) < MaxTrouble
        /\ had' = [had EXCEPT !.lapse = @ + 1]
    BY <1>3 DEF Trouble, Troubled
  <2> QED
    BY <1>0, <1>1, <1>3, <2>1 DEF HadType, Undisturbed
<1> QED
  BY <1>2, <1>3

LEMMA EmptyFits == \A S : S = {} => Cardinality(S) <= BatchSize
BY FS_EmptySet, SizesAssumption

LEMMA FaultFacts ==
    ASSUME TypeOK, Fault
    PROVE  had' \in HadType /\ ~ Undisturbed' /\ (had'.lapse = 0 => had.lapse = 0)
BY TroubleFacts DEF Fault

LEMMA LapseFacts ==
    ASSUME TypeOK, Lapse
    PROVE  had' \in HadType /\ ~ Undisturbed' /\ had'.lapse # 0
BY TroubleFacts DEF Lapse

LEMMA InitIInv == Init => IInv
<1> SUFFICES ASSUME Init PROVE IInv
  OBVIOUS
<1> USE SizesAssumption DEF Init
<1>1. 1..next = {} /\ Len(stream) = 0
  OBVIOUS
<1>2. RedisOK /\ RowsOK /\ had \in HadType
  BY <1>1 DEF RedisOK, RowsOK, HadType
<1>3. \A p \in Projectors : proj[p] = Out /\ Out.batch = {} /\ Out.at = "out"
  BY DEF Out
<1>4. ProjOK
  <2>1. Out \in ProjType
    BY DEF Out, ProjType
  <2> QED
    BY <2>1 DEF ProjOK
<1>5. SizesOK
  BY <1>3, EmptyFits DEF SizesOK
<1>6. Inv
  BY <1>1, <1>3 DEF Inv, InHand, DoneSoFar, Acked, OwnerHasLease, InOrder, StateIsLatest, Later
<1> QED
  BY <1>2, <1>4, <1>5, <1>6, TypeParts DEF IInv
-----------------------------------------------------------------------------
(* The stream, the sessions and the time.                                    *)

LEMMA AddStep == ASSUME IInv, NEW s \in Sessions, Add(s) PROVE IInv'
<1> USE TypeParts
<1>0. RedisOK /\ ProjOK /\ SizesOK /\ RowsOK /\ had \in HadType /\ Inv /\ TypeOK
  BY DEF IInv
<1>1. UNCHANGED <<next, pel, stale, lease, proj, stored, applied, state, gone>>
  BY DEF Add, postgres
<1>2. PICK n \in {last[s] + 1, 1}, persist \in BOOLEAN :
          /\ stream' = Append(stream, [of |-> s, seq |-> n, persist |-> persist])
          /\ last' = [last EXCEPT ![s] = n]
          /\ IF n = last[s] + 1 THEN UNCHANGED had ELSE Fault
  BY DEF Add
<1>3. /\ n \in Nat /\ last' \in [Sessions -> Nat]
      /\ [of |-> s, seq |-> n, persist |-> persist] \in Entry
  <2>1. last[s] \in Nat /\ n \in Nat
    BY <1>0 DEF RedisOK
  <2> QED
    BY <1>0, <1>2, <2>1 DEF RedisOK, Entry
<1>4. /\ stream' \in Seq(Entry) /\ Len(stream') = Len(stream) + 1
      /\ \A i \in 1..Len(stream) : stream'[i] = stream[i]
      /\ Len(stream) \in Nat /\ next \in Nat /\ next <= Len(stream)
      /\ Len(stream) < MaxEntries
  BY <1>0, <1>2, <1>3 DEF Add, RedisOK
<1>5. /\ had' \in HadType /\ (Undisturbed' => Undisturbed)
      /\ had'.lapse = 0 => had.lapse = 0
  <2>1. CASE UNCHANGED had
    BY <1>0, <1>1, <2>1 DEF Undisturbed
  <2>2. CASE Fault
    BY <1>0, <2>2, FaultFacts
  <2> QED
    BY <1>2, <2>1, <2>2
<1>6. RedisOK'
  BY <1>0, <1>1, <1>3, <1>4, SizesAssumption DEF RedisOK
<1>7. \A i \in 1..next : i \in 1..Len(stream) /\ stream'[i] = stream[i] /\ (Deleted(i)' <=> Deleted(i))
  BY <1>1, <1>4 DEF Deleted
<1>8. \A i \in 1..next : HasRow(i) => HasRow(i)'
  BY <1>0, <1>1, <1>7 DEF HasRow, RowKey, RowsOK
<1>9. \A p \in Projectors : proj[p].batch \subseteq 1..next
  BY <1>0 DEF ProjOK, ProjType
<1>10. InHand' /\ OwnerHasLease'
  BY <1>0, <1>1, <1>5 DEF Inv, InHand, OwnerHasLease
<1>11. DoneSoFar'
  BY <1>0, <1>1, <1>7, <1>8, <1>9 DEF Inv, DoneSoFar
<1>12. Acked'
  BY <1>0, <1>1, <1>7, <1>8 DEF Inv, Acked
<1>13. InOrder'
  BY <1>0, <1>1, <1>5 DEF Inv, InOrder, Later
<1>14. StateIsLatest'
  <2> SUFFICES ASSUME Undisturbed, NEW t \in Sessions, NEW i \in applied, i \in Of(t)'
               PROVE  i <= state[t]
    BY <1>1, <1>5 DEF StateIsLatest
  <2>1. i \in Of(t)
    BY <1>0, <1>7 DEF RowsOK, Of
  <2> QED
    BY <1>0, <2>1 DEF Inv, StateIsLatest
<1> QED
  BY <1>0, <1>1, <1>5, <1>6, <1>10, <1>11, <1>12, <1>13, <1>14
     DEF IInv, Inv, ProjOK, ProjType, SizesOK, RowsOK

LEMMA DeleteStep == ASSUME IInv, NEW s \in Sessions, Delete(s) PROVE IInv'
<1> USE TypeParts
<1>0. RedisOK /\ ProjOK /\ SizesOK /\ RowsOK /\ had \in HadType /\ Inv
  BY DEF IInv
<1>1. /\ UNCHANGED <<stream, last, next, pel, stale, lease, proj, applied, state, had>>
      /\ gone' = gone \cup {s} /\ stored' = stored \ Of(s)
  BY DEF Delete, redis
<1>2. ~ Undisturbed'
  BY <1>1 DEF Undisturbed
<1>3. \A i \in 1..next : ~ Deleted(i)' => ~ Deleted(i) /\ (HasRow(i) => HasRow(i)')
  <2> SUFFICES ASSUME NEW i \in 1..next, ~ Deleted(i)' PROVE ~ Deleted(i) /\ (HasRow(i) => HasRow(i)')
    OBVIOUS
  <2>1. ~ Deleted(i) /\ stream[i].of # s
    BY <1>1 DEF Deleted
  <2>2. \A j : RowKey(j) = RowKey(i) => j \notin Of(s) /\ RowKey(j)' = RowKey(i)'
    BY <1>1, <2>1 DEF RowKey, Of
  <2> QED
    BY <1>1, <2>1, <2>2 DEF HasRow
<1>4. \A p \in Projectors : proj[p].batch \subseteq 1..next
  BY <1>0 DEF ProjOK, ProjType
<1>5. InHand' /\ OwnerHasLease'
  BY <1>0, <1>1 DEF Inv, InHand, OwnerHasLease
<1>6. DoneSoFar' /\ Acked'
  BY <1>0, <1>1, <1>3, <1>4 DEF Inv, DoneSoFar, Acked
<1> QED
  BY <1>0, <1>1, <1>2, <1>5, <1>6
     DEF IInv, Inv, InOrder, StateIsLatest, RedisOK, ProjOK, ProjType, SizesOK, RowsOK

LEMMA AgeStep == ASSUME IInv, NEW i \in Entries, Age(i) PROVE IInv'
<1> USE TypeParts
<1>0. RedisOK /\ ProjOK /\ SizesOK /\ RowsOK /\ had \in HadType /\ Inv /\ TypeOK
  BY DEF IInv
<1>1. /\ UNCHANGED <<stream, last, next, pel, lease, proj, stored, applied, state, gone>>
      /\ stale' = stale \cup {i} /\ i \in pel
  BY DEF Age, postgres
<1>2. had' \in HadType /\ ~ Undisturbed' /\ (had'.lapse = 0 => had.lapse = 0)
  <2>1. CASE \E p \in Projectors : i \in proj[p].batch
    BY <1>0, <2>1, LapseFacts DEF Age
  <2>2. CASE ~ \E p \in Projectors : i \in proj[p].batch
    <3>1. had' = had /\ ~ Undisturbed
      BY <1>0, <1>1, <2>2 DEF Age, Inv, InOrder
    <3> QED
      BY <1>0, <1>1, <3>1 DEF Undisturbed
  <2> QED
    BY <2>1, <2>2
<1>3. DoneSoFar' /\ Acked' /\ InHand' /\ OwnerHasLease'
  BY <1>0, <1>1, <1>2 DEF Inv, DoneSoFar, Acked, InHand, OwnerHasLease, Deleted, HasRow, RowKey
<1> QED
  BY <1>0, <1>1, <1>2, <1>3
     DEF IInv, Inv, InOrder, StateIsLatest, RedisOK, ProjOK, ProjType, SizesOK, RowsOK
-----------------------------------------------------------------------------
(* The lease.                                                                *)

\* A projector forgets its batch, or starts with none.
LEMMA EmptyHand ==
    ASSUME IInv, NEW p \in Projectors, NEW r \in {Out, Running},
           proj' = [proj EXCEPT ![p] = r], UNCHANGED <<stream, next, gone>>,
           stored \subseteq stored', applied \subseteq applied'
    PROVE  /\ ProjOK' /\ SizesOK' /\ InHand' /\ DoneSoFar'
           /\ proj'[p] = r /\ proj'[p].batch = {} /\ Later(p)' = {}
           /\ r = Out => proj'[p].at = "out"
           /\ \A q \in Projectors : q # p => proj'[q] = proj[q]
<1>0. ProjOK /\ SizesOK /\ InHand /\ DoneSoFar
  BY TypeParts DEF IInv, Inv
<1>1. r.at \in {"out", "run"} /\ r.batch = {} /\ r \in ProjType /\ (r = Out => r.at = "out")
  BY DEF Out, Running, ProjType
<1>2. proj'[p] = r /\ \A q \in Projectors : q # p => proj'[q] = proj[q]
  BY <1>0 DEF ProjOK
<1>3. ProjOK'
  BY <1>0, <1>1 DEF ProjOK, ProjType
<1>4. SizesOK'
  BY <1>0, <1>1, <1>2, EmptyFits DEF SizesOK
<1>5. InHand' /\ DoneSoFar'
  BY <1>0, <1>1, <1>2 DEF InHand, DoneSoFar, Deleted, HasRow, RowKey
<1>6. Later(p)' = {}
  BY <1>1, <1>2 DEF Later
<1> QED
  BY <1>1, <1>2, <1>3, <1>4, <1>5, <1>6

LEMMA AcquireStep == ASSUME IInv, NEW p \in Projectors, Acquire(p) PROVE IInv'
<1> USE TypeParts
<1>0. RedisOK /\ ProjOK /\ SizesOK /\ RowsOK /\ had \in HadType /\ Inv
  BY DEF IInv
<1>1. /\ UNCHANGED <<stream, last, next, pel, stale, stored, applied, state, gone, had>>
      /\ lease = None /\ lease' = p /\ proj[p].batch = {} /\ proj[p].at = "out"
  BY <1>0 DEF Acquire, redis, postgres, Inv, InHand
<1>2. /\ ProjOK' /\ SizesOK' /\ InHand' /\ DoneSoFar' /\ Later(p)' = {}
      /\ \A q \in Projectors : q # p => proj'[q] = proj[q]
  BY <1>1, EmptyHand DEF Acquire
<1>3. OwnerHasLease'
  BY <1>0, <1>1, <1>2, NobodyAssumption DEF Inv, OwnerHasLease
<1>4. Acked' /\ StateIsLatest'
  BY <1>0, <1>1 DEF Inv, Acked, StateIsLatest, Undisturbed, Deleted, HasRow, RowKey, Of
<1>5. InOrder'
  BY <1>0, <1>1, <1>2 DEF Inv, InOrder, Undisturbed, Later
<1> QED
  BY <1>0, <1>1, <1>2, <1>3, <1>4, <1>5 DEF IInv, Inv, RedisOK, RowsOK

LEMMA LeaseEndsStep == IInv /\ LeaseEnds => IInv'
<1> SUFFICES ASSUME IInv, LeaseEnds PROVE IInv'
  OBVIOUS
<1> USE TypeParts
<1>0. RedisOK /\ ProjOK /\ SizesOK /\ RowsOK /\ had \in HadType /\ Inv /\ TypeOK
  BY DEF IInv
<1>1. /\ UNCHANGED <<stream, last, next, pel, stale, proj, stored, applied, state, gone>>
      /\ lease \in Projectors /\ lease' = None
  BY <1>0 DEF LeaseEnds, redis, postgres, RedisOK
<1>2. /\ had' \in HadType /\ (Undisturbed' => Undisturbed)
      /\ OwnerHasLease'
  <2>1. CASE proj[lease].at = "out"
    <3>1. had' = had
      BY <2>1 DEF LeaseEnds
    <3> QED
      BY <1>0, <1>1, <2>1, <3>1 DEF Undisturbed, Inv, OwnerHasLease
  <2>2. CASE proj[lease].at # "out"
    BY <1>0, <2>2, LapseFacts DEF LeaseEnds, OwnerHasLease
  <2> QED
    BY <2>1, <2>2
<1>3. InHand' /\ DoneSoFar' /\ Acked'
  BY <1>0, <1>1 DEF Inv, InHand, DoneSoFar, Acked, Deleted, HasRow, RowKey
<1>4. InOrder' /\ StateIsLatest'
  BY <1>0, <1>1, <1>2 DEF Inv, InOrder, StateIsLatest, Later, Of
<1> QED
  BY <1>0, <1>1, <1>2, <1>3, <1>4 DEF IInv, Inv, RedisOK, ProjOK, ProjType, SizesOK, RowsOK

LEMMA OutStep ==
    ASSUME IInv, NEW p \in Projectors, Notice(p) \/ Crash(p) \/ Stops(p)
    PROVE  IInv'
<1> USE TypeParts
<1>0. RedisOK /\ ProjOK /\ SizesOK /\ RowsOK /\ had \in HadType /\ Inv /\ TypeOK
  BY DEF IInv
<1>1. /\ UNCHANGED <<stream, last, next, pel, stale, stored, applied, state, gone>>
      /\ proj' = [proj EXCEPT ![p] = Out] /\ proj[p].at # "out"
      /\ lease' = lease \/ (lease' = None /\ lease = p)
  BY DEF Notice, Crash, Stops, redis, postgres
<1>2. /\ had' \in HadType /\ ~ Undisturbed' /\ (had'.lapse = 0 => had.lapse = 0)
  <2>1. CASE Notice(p)
    <3>1. had' = had /\ lease # p
      BY <2>1 DEF Notice
    <3>2. had.lapse # 0
      BY <1>0, <1>1, <3>1 DEF Inv, OwnerHasLease
    <3> QED
      BY <1>0, <3>1, <3>2 DEF Undisturbed
  <2>2. CASE Crash(p)
    BY <1>0, <2>2, FaultFacts DEF Crash
  <2>3. CASE Stops(p)
    BY <1>0, <2>3, FaultFacts DEF Stops
  <2> QED
    BY <2>1, <2>2, <2>3
<1>3. /\ ProjOK' /\ SizesOK' /\ InHand' /\ DoneSoFar' /\ proj'[p].at = "out"
      /\ \A q \in Projectors : q # p => proj'[q] = proj[q]
  BY <1>1, EmptyHand
<1>4. OwnerHasLease'
  BY <1>0, <1>1, <1>2, <1>3 DEF Inv, OwnerHasLease
<1>5. Acked' /\ StateIsLatest' /\ InOrder'
  BY <1>0, <1>1, <1>2 DEF Inv, Acked, StateIsLatest, InOrder, Deleted, HasRow, RowKey
<1> QED
  BY <1>0, <1>1, <1>2, <1>3, <1>4, <1>5 DEF IInv, Inv, RedisOK, RowsOK
-----------------------------------------------------------------------------
(* Reading.                                                                  *)

LEMMA Room0 ==
    ASSUME IInv, NEW p \in Projectors
    PROVE  /\ IsFiniteSet(proj[p].batch) /\ Cardinality(proj[p].batch) \in Nat
           /\ proj[p].batch \subseteq 1..next /\ next \in Nat /\ next <= Len(stream)
           /\ Len(stream) \in Nat
<1>1. RedisOK /\ ProjOK
  BY TypeParts DEF IInv
<1>2. proj[p].batch \in SUBSET (1..next) /\ next \in Nat /\ next <= Len(stream) /\ Len(stream) \in Nat
  BY <1>1 DEF ProjOK, ProjType, RedisOK
<1> QED
  BY <1>2, Finite

LEMMA ClaimStaleStep == ASSUME IInv, NEW p \in Projectors, ClaimStale(p) PROVE IInv'
<1> USE TypeParts
<1> DEFINE taken == First(BatchSize, stale)
           r == [at |-> "store", batch |-> taken, left |-> {}]
<1>0. RedisOK /\ ProjOK /\ SizesOK /\ RowsOK /\ had \in HadType /\ Inv
  BY DEF IInv
<1>1. /\ UNCHANGED <<stream, last, next, pel, lease, stored, applied, state, gone, had>>
      /\ proj[p].at = "run" /\ stale # {} /\ proj' = [proj EXCEPT ![p] = r]
      /\ stale' = stale \ taken
  BY DEF ClaimStale, Idle, postgres
<1>2. taken \subseteq stale /\ taken # {} /\ Cardinality(taken) <= BatchSize
  <2>1. next \in Nat /\ stale \in SUBSET (1..next)
    BY <1>0 DEF RedisOK
  <2> QED
    BY <1>1, <2>1, FirstFacts, SizesAssumption
<1>3. r \in ProjType /\ r.at = "store" /\ r.batch = taken
  BY <1>0, <1>2 DEF RedisOK, ProjType
<1> HIDE DEF taken, r
<1>4. proj'[p] = r /\ \A q \in Projectors : q # p => proj'[q] = proj[q]
  BY <1>0, <1>1 DEF ProjOK
<1>5. ProjOK' /\ SizesOK'
  BY <1>0, <1>1, <1>2, <1>3, <1>4 DEF ProjOK, ProjType, SizesOK
<1>6. InHand' /\ DoneSoFar'
  BY <1>0, <1>1, <1>2, <1>3, <1>4 DEF Inv, InHand, DoneSoFar, Deleted, HasRow, RowKey
<1>7. OwnerHasLease'
  BY <1>0, <1>1, <1>4 DEF Inv, OwnerHasLease
<1>8. Acked' /\ InOrder' /\ StateIsLatest'
  BY <1>0, <1>1 DEF Inv, Acked, InOrder, StateIsLatest, Undisturbed, Deleted, HasRow, RowKey, Of
<1> QED
  BY <1>0, <1>1, <1>2, <1>5, <1>6, <1>7, <1>8 DEF IInv, Inv, RedisOK, RowsOK

LEMMA ReadStep == ASSUME IInv, NEW p \in Projectors, Read(p) PROVE IInv'
<1> USE TypeParts
<1> DEFINE old == proj[p].batch
           taken == First(Room(p), (next + 1)..Len(stream))
           n == Cardinality(taken)
<1>0. RedisOK /\ ProjOK /\ SizesOK /\ RowsOK /\ had \in HadType /\ Inv
  BY DEF IInv
<1>1. /\ UNCHANGED <<stream, last, stale, lease, stored, applied, state, gone, had>>
      /\ proj[p].at = "run" /\ Room(p) > 0 /\ next < Len(stream)
      /\ proj' = [proj EXCEPT ![p].batch = @ \cup taken]
      /\ pel' = pel \cup taken /\ next' = next + n
  BY DEF Read, postgres
<1>2. /\ IsFiniteSet(old) /\ Cardinality(old) \in Nat /\ old \subseteq 1..next
      /\ next \in Nat /\ Len(stream) \in Nat
  BY Room0
<1>3. Room(p) \in Nat \ {0} /\ Room(p) = BatchSize - Cardinality(old)
  BY <1>1, <1>2, SizesAssumption DEF Room
<1>4. taken = (next + 1)..(next + n) /\ n \in Nat /\ n <= Room(p) /\ next + n <= Len(stream)
  BY <1>1, <1>2, <1>3, FirstOfStretch
<1> HIDE DEF n
<1>5. /\ next' \in Nat /\ next <= next' /\ next' <= Len(stream)
      /\ taken \subseteq 1..next' /\ \A i \in taken : i > next
      /\ \A i \in 1..next' : i \in 1..next \/ i \in taken
  BY <1>1, <1>2, <1>4
<1>6. Cardinality(old \cup taken) <= BatchSize
  <2>1. IsFiniteSet(taken)
    BY <1>2, <1>4, FS_Interval
  <2>2. Cardinality(old \cup taken) = Cardinality(old) + n - Cardinality(old \cap taken)
    BY <1>2, <2>1, FS_Union DEF n
  <2>3. old \cap taken = {}
    BY <1>2, <1>5
  <2>4. Cardinality(old \cap taken) = 0
    BY <2>3, FS_EmptySet
  <2> QED
    BY <1>2, <1>3, <1>4, <2>2, <2>4, SizesAssumption
<1> HIDE DEF taken
<1>7. /\ proj'[p].batch = old \cup taken /\ proj'[p].at = "run"
      /\ \A q \in Projectors : q # p => proj'[q] = proj[q]
  BY <1>0, <1>1 DEF ProjOK, ProjType
<1>8. RedisOK'
  BY <1>0, <1>1, <1>2, <1>5 DEF RedisOK
<1>9. ProjOK'
  <2>1. 1..next \subseteq 1..next'
    BY <1>2, <1>5
  <2>2. \A q \in Projectors : proj[q] \in [at : {"out", "run", "store", "project", "ack"},
                  batch : SUBSET (1..next'), left : SUBSET (1..next')]
    BY <1>0, <2>1 DEF ProjOK, ProjType
  <2>3. [proj[p] EXCEPT !.batch = @ \cup taken] \in
                 [at : {"out", "run", "store", "project", "ack"},
                  batch : SUBSET (1..next'), left : SUBSET (1..next')]
    BY <1>5, <2>2
  <2>4. proj' = [proj EXCEPT ![p] = [proj[p] EXCEPT !.batch = @ \cup taken]]
    BY <1>1
  <2>5. proj \in [Projectors -> [at : {"out", "run", "store", "project", "ack"},
                  batch : SUBSET (1..next'), left : SUBSET (1..next')]]
    BY <1>0, <2>2 DEF ProjOK
  <2> QED
    BY <2>3, <2>4, <2>5 DEF ProjOK, ProjType
<1>10. SizesOK' /\ InHand' /\ DoneSoFar'
  BY <1>0, <1>1, <1>6, <1>7 DEF SizesOK, Inv, InHand, DoneSoFar, Deleted, HasRow, RowKey
<1>11. RowsOK'
  <2>1. 1..next \subseteq 1..next' /\ 0..next \subseteq 0..next'
    BY <1>2, <1>5
  <2>2. state \in [Sessions -> 0..next']
    BY <1>0, <2>1 DEF RowsOK
  <2> QED
    BY <1>0, <1>1, <2>1, <2>2 DEF RowsOK
<1>12. Acked'
  BY <1>0, <1>1, <1>5 DEF Inv, Acked, Deleted, HasRow, RowKey
<1>13. OwnerHasLease'
  BY <1>0, <1>1, <1>7 DEF Inv, OwnerHasLease
<1>14. InOrder'
  <2> SUFFICES ASSUME Undisturbed
               PROVE  /\ \A i \in pel' : \E q \in Projectors : i \in proj'[q].batch
                      /\ stale' = {}
                      /\ \A q \in Projectors : \A i \in applied, j \in Later(q)' : i < j
    BY <1>1 DEF InOrder, Undisturbed
  <2>0. /\ \A i \in pel : \E q \in Projectors : i \in proj[q].batch
        /\ stale = {}
        /\ \A q \in Projectors : \A i \in applied, j \in Later(q) : i < j
    BY <1>0 DEF Inv, InOrder
  <2>1. \A i \in pel' : \E q \in Projectors : i \in proj'[q].batch
    BY <1>1, <1>7, <2>0
  <2>2. Later(p) = old /\ Later(p)' = old \cup taken
    BY <1>1, <1>7 DEF Later
  <2>3. \A q \in Projectors : q # p => Later(q)' = Later(q)
    BY <1>7 DEF Later
  <2>4. \A i \in applied, j \in taken : i < j
    <3>1. \A i \in applied : i \in Nat /\ i <= next
      BY <1>0, <1>2 DEF RowsOK
    <3>2. \A j \in taken : j \in Nat
      BY <1>2, <1>4
    <3> QED
      BY <1>2, <1>5, <3>1, <3>2
  <2> QED
    BY <1>1, <2>0, <2>1, <2>2, <2>3, <2>4
<1>15. StateIsLatest'
  BY <1>0, <1>1 DEF Inv, StateIsLatest, Undisturbed, Of
<1> QED
  BY <1>0, <1>1, <1>8, <1>9, <1>10, <1>11, <1>12, <1>13, <1>14, <1>15 DEF IInv, Inv

LEMMA FlushStep == ASSUME IInv, NEW p \in Projectors, Flush(p) PROVE IInv'
<1> USE TypeParts
<1>0. RedisOK /\ ProjOK /\ SizesOK /\ RowsOK /\ had \in HadType /\ Inv
  BY DEF IInv
<1>1. /\ UNCHANGED <<stream, last, next, pel, stale, lease, stored, applied, state, gone, had>>
      /\ proj[p].at = "run" /\ proj[p].batch # {} /\ proj' = [proj EXCEPT ![p].at = "store"]
  BY DEF Flush, redis, postgres
<1>2. /\ proj' \in [Projectors -> ProjType]
      /\ proj'[p].at = "store" /\ proj'[p].batch = proj[p].batch
      /\ \A q \in Projectors : q # p => proj'[q] = proj[q]
  BY <1>0, <1>1 DEF ProjOK, ProjType
<1>3. ProjOK' /\ SizesOK'
  BY <1>0, <1>1, <1>2 DEF ProjOK, ProjType, SizesOK
<1>4. InHand' /\ DoneSoFar' /\ OwnerHasLease'
  BY <1>0, <1>1, <1>2 DEF Inv, InHand, DoneSoFar, OwnerHasLease, Deleted, HasRow, RowKey
<1>5. InOrder'
  BY <1>0, <1>1, <1>2 DEF Inv, InOrder, Undisturbed, Later
<1>6. Acked' /\ StateIsLatest'
  BY <1>0, <1>1 DEF Inv, Acked, StateIsLatest, Undisturbed, Deleted, HasRow, RowKey, Of
<1> QED
  BY <1>0, <1>1, <1>3, <1>4, <1>5, <1>6 DEF IInv, Inv, RedisOK, RowsOK
-----------------------------------------------------------------------------
(* Projecting.                                                               *)

\* What an abandoned batch leaves: its entries are pending still.
LEMMA AbandonStep ==
    ASSUME IInv, NEW p \in Projectors, Abandon(p), RowsOK', had' \in HadType,
           UNCHANGED <<redis, lease, stored, applied, gone>>,
           proj[p].at # "out", ~ Undisturbed', had'.lapse = 0 => had.lapse = 0
    PROVE  IInv'
<1> USE TypeParts
<1>0. RedisOK /\ ProjOK /\ SizesOK /\ RowsOK /\ had \in HadType /\ Inv
  BY DEF IInv
<1>1. UNCHANGED <<stream, last, next, pel, stale, lease, stored, applied, gone>>
  BY DEF redis
<1>2. /\ ProjOK' /\ SizesOK' /\ InHand' /\ DoneSoFar'
      /\ \A q \in Projectors : q # p => proj'[q] = proj[q]
  BY <1>1, EmptyHand DEF Abandon
<1>3. OwnerHasLease'
  BY <1>0, <1>1, <1>2 DEF Inv, OwnerHasLease
<1>4. Acked'
  BY <1>0, <1>1 DEF Inv, Acked, Deleted, HasRow, RowKey
<1> QED
  BY <1>0, <1>1, <1>2, <1>3, <1>4 DEF IInv, Inv, InOrder, StateIsLatest, RedisOK

LEMMA StoreStep == ASSUME IInv, NEW p \in Projectors, Store(p) PROVE IInv'
<1> USE TypeParts
<1> DEFINE B == {i \in proj[p].batch : stream[i].persist}
<1>0. RedisOK /\ ProjOK /\ SizesOK /\ RowsOK /\ had \in HadType /\ Inv /\ TypeOK
  BY DEF IInv
<1>1. /\ UNCHANGED <<stream, last, next, pel, stale, lease, applied, state, gone>>
      /\ proj[p].at = "store"
  BY DEF Store, redis
<1>2. CASE Abandon(p) /\ UNCHANGED <<stored, had>> /\ \E i \in proj[p].batch : Deleted(i)
  <2>1. gone # {}
    BY <1>2 DEF Deleted
  <2>2. RowsOK' /\ ~ Undisturbed'
    BY <1>0, <1>1, <1>2, <2>1 DEF RowsOK, Undisturbed
  <2> QED
    BY <1>0, <1>1, <1>2, <2>2, AbandonStep DEF redis
<1>3. CASE Fault /\ Abandon(p) /\ UNCHANGED stored
  <2>1. RowsOK'
    BY <1>0, <1>1, <1>3 DEF RowsOK
  <2> QED
    BY <1>0, <1>1, <1>3, <2>1, FaultFacts, AbandonStep DEF redis
<1>4. CASE /\ stored' = stored \cup Inserted(B)
           /\ proj' = [proj EXCEPT ![p] =
                 [@ EXCEPT !.at = IF B = {} THEN "ack" ELSE "project", !.left = B]]
           /\ UNCHANGED had
  <2> DEFINE r == [proj[p] EXCEPT !.at = IF B = {} THEN "ack" ELSE "project", !.left = B]
  <2>1. /\ proj[p] \in ProjType /\ B \subseteq proj[p].batch /\ proj[p].batch \subseteq 1..next
        /\ Inserted(B) \subseteq B /\ next \in Nat
        /\ \A i \in proj[p].batch : stream[i].persist => i \in B
    BY <1>0 DEF ProjOK, ProjType, Inserted, RedisOK
  <2> HIDE DEF B
  <2>2. /\ r \in ProjType /\ r.at = IF B = {} THEN "ack" ELSE "project"
        /\ r.batch = proj[p].batch /\ r.left = B
    <3>1. CASE B = {}
      BY <2>1, <3>1 DEF ProjType
    <3>2. CASE B # {}
      BY <2>1, <3>2 DEF ProjType
    <3> QED
      BY <3>1, <3>2
  <2>3. proj' = [proj EXCEPT ![p] = r]
    BY <1>4
  <2> HIDE DEF r
  <2>4. /\ proj' \in [Projectors -> ProjType] /\ proj'[p] = r
        /\ \A q \in Projectors : q # p => proj'[q] = proj[q]
    BY <1>0, <2>2, <2>3 DEF ProjOK
  <2>5. ProjOK' /\ SizesOK' /\ RowsOK'
    BY <1>0, <1>1, <1>4, <2>1, <2>2, <2>4 DEF ProjOK, ProjType, SizesOK, RowsOK
  <2>6. InHand' /\ OwnerHasLease'
    BY <1>0, <1>1, <1>4, <2>1, <2>2, <2>4 DEF Inv, InHand, OwnerHasLease
  <2>7. \A i : HasRow(i) => HasRow(i)'
    BY <1>1, <1>4 DEF HasRow, RowKey
  \* The first entry of the statement with a key writes the row, if none was there.
  <2>8. \A i \in B : HasRow(i)'
    <3> SUFFICES ASSUME NEW i \in B, ~ HasRow(i) PROVE \E m \in Inserted(B) : RowKey(m) = RowKey(i)
      BY <1>1, <1>4, <2>7 DEF HasRow, RowKey
    <3> DEFINE T == {j \in B : RowKey(j) = RowKey(i)}
               m == Least(T)
    <3>1. T \in SUBSET Nat /\ T # {}
      BY <2>1
    <3>2. m \in T /\ \A t \in T : m <= t
      BY <3>1, LeastIn
    <3> HIDE DEF m
    <3>3. m \in B /\ RowKey(m) = RowKey(i)
      BY <3>2
    <3>4. \A j \in stored \cup B : RowKey(j) = RowKey(m) => j \notin stored /\ m <= j
      BY <3>2, <3>3 DEF HasRow
    <3> QED
      BY <3>3, <3>4 DEF Inserted
  <2>9. DoneSoFar'
    <3> SUFFICES ASSUME NEW q \in Projectors, NEW i \in proj'[q].batch, stream[i].persist
                 PROVE  /\ proj'[q].at \in {"project", "ack"} /\ ~Deleted(i) => HasRow(i)'
                        /\ proj'[q].at = "project" => i \in proj'[q].left \/ i \in applied
                        /\ proj'[q].at = "ack" => i \in applied
      BY <1>1 DEF DoneSoFar, Deleted
    <3>1. CASE q = p
      BY <2>1, <2>2, <2>4, <2>8, <3>1
    <3>2. CASE q # p
      BY <1>0, <2>4, <2>7, <3>2 DEF Inv, DoneSoFar
    <3> QED
      BY <3>1, <3>2
  <2>10. Acked'
    BY <1>0, <1>1, <2>7 DEF Inv, Acked, Deleted
  <2>11. InOrder'
    BY <1>0, <1>1, <1>4, <2>1, <2>2, <2>4 DEF Inv, InOrder, Undisturbed, Later
  <2>12. StateIsLatest'
    BY <1>0, <1>1, <1>4 DEF Inv, StateIsLatest, Undisturbed, Of
  <2> QED
    BY <1>0, <1>1, <1>4, <2>5, <2>6, <2>9, <2>10, <2>11, <2>12 DEF IInv, Inv, RedisOK
<1> QED
  BY <1>2, <1>3, <1>4 DEF Store

LEMMA ProjectStep == ASSUME IInv, NEW p \in Projectors, Project(p) PROVE IInv'
<1> USE TypeParts
<1> DEFINE i == Least(proj[p].left)
           rest == proj[p].left \ {i}
<1>0. RedisOK /\ ProjOK /\ SizesOK /\ RowsOK /\ had \in HadType /\ Inv /\ TypeOK
  BY DEF IInv
<1>1. /\ UNCHANGED <<stream, last, next, pel, stale, lease, stored, gone>>
      /\ proj[p].at = "project"
  BY DEF Project, redis
<1>2. /\ i \in proj[p].left /\ i \in proj[p].batch /\ i \in 1..next /\ next \in Nat
      /\ \A j \in rest : i < j
  <2>1. /\ proj[p].left \in SUBSET (1..next) /\ proj[p].left # {}
        /\ proj[p].left \subseteq proj[p].batch /\ next \in Nat
    BY <1>0, <1>1, Room0 DEF ProjOK, ProjType, Inv, InHand
  <2>2. proj[p].left \in SUBSET Nat
    BY <2>1
  <2>3. i \in proj[p].left /\ \A t \in proj[p].left : i <= t
    BY <2>1, <2>2, LeastIn
  <2> HIDE DEF i
  <2>4. \A j \in rest : j \in Nat /\ i \in Nat /\ i <= j /\ i # j
    BY <2>2, <2>3
  <2>5. \A j \in rest : i < j
    BY <2>4
  <2> QED
    BY <2>1, <2>3, <2>5
<1> HIDE DEF i
<1>3. stream[i].of \in Sessions
  <2>1. stream \in Seq(Entry) /\ i \in 1..Len(stream)
    BY <1>0, <1>2 DEF RedisOK
  <2>2. stream[i] \in Entry
    BY <2>1
  <2> QED
    BY <2>2 DEF Entry

<1>4. Advance(i) /\ applied' \subseteq applied \cup {i} => RowsOK'
  <2>1. i \in 0..next
    BY <1>2
  <2>2. Advance(i) => state' \in [Sessions -> 0..next]
    BY <1>0, <2>1 DEF Advance, RowsOK
  <2> QED
    BY <1>0, <1>1, <1>2, <2>2 DEF RowsOK
<1>5. CASE Deleted(i) /\ Abandon(p) /\ UNCHANGED <<applied, state, had>>
  <2>1. gone # {}
    BY <1>5 DEF Deleted
  <2>2. RowsOK' /\ ~ Undisturbed'
    BY <1>0, <1>1, <1>5, <2>1 DEF RowsOK, Undisturbed
  <2> QED
    BY <1>0, <1>1, <1>5, <2>2, AbandonStep DEF redis
<1>6. CASE Fault /\ Abandon(p) /\ (Advance(i) \/ UNCHANGED state) /\ UNCHANGED applied
  <2>1. RowsOK'
    BY <1>0, <1>1, <1>4, <1>6 DEF RowsOK
  <2> QED
    BY <1>0, <1>1, <1>6, <2>1, FaultFacts, AbandonStep DEF redis
<1>7. CASE /\ ~ Deleted(i) /\ Advance(i) /\ applied' = applied \cup {i} /\ UNCHANGED had
           /\ proj' = [proj EXCEPT ![p] =
                   [@ EXCEPT !.left = rest, !.at = IF rest = {} THEN "ack" ELSE "project"]]
  <2>1. /\ proj' \in [Projectors -> ProjType]
        /\ proj'[p].at = IF rest = {} THEN "ack" ELSE "project"
        /\ proj'[p].batch = proj[p].batch /\ proj'[p].left = rest
        /\ \A q \in Projectors : q # p => proj'[q] = proj[q]
    <3> DEFINE r == [proj[p] EXCEPT !.left = rest, !.at = IF rest = {} THEN "ack" ELSE "project"]
    <3>1. proj[p] \in ProjType /\ rest \in SUBSET (1..next)
      BY <1>0 DEF ProjOK, ProjType
    <3>2. /\ r \in ProjType /\ r.at = IF rest = {} THEN "ack" ELSE "project"
          /\ r.batch = proj[p].batch /\ r.left = rest
      <4>1. CASE rest = {}
        BY <1>1, <3>1, <4>1 DEF ProjType
      <4>2. CASE rest # {}
        BY <1>1, <3>1, <4>2 DEF ProjType
      <4> QED
        BY <4>1, <4>2
    <3>3. proj' = [proj EXCEPT ![p] = r]
      BY <1>7
    <3> HIDE DEF r
    <3> QED
      BY <1>0, <3>2, <3>3 DEF ProjOK
  <2>2. ProjOK' /\ SizesOK' /\ RowsOK'
    BY <1>0, <1>1, <1>4, <1>7, <2>1 DEF ProjOK, ProjType, SizesOK
  <2>3. InHand' /\ OwnerHasLease'
    BY <1>0, <1>1, <1>7, <2>1 DEF Inv, InHand, OwnerHasLease
  <2>4. DoneSoFar'
    BY <1>0, <1>1, <1>7, <2>1 DEF Inv, DoneSoFar, Deleted, HasRow, RowKey
  <2>5. Acked'
    BY <1>0, <1>1, <1>7 DEF Inv, Acked, Deleted, HasRow, RowKey
  <2>6. \A q \in Projectors : q # p => ~ Undisturbed \/ Later(q)' = {}
    <3> SUFFICES ASSUME NEW q \in Projectors, q # p, Undisturbed PROVE Later(q)' = {}
      OBVIOUS
    <3>1. proj[q].at = "out"
      BY <1>0, <1>1 DEF Inv, OwnerHasLease, Undisturbed
    <3> QED
      BY <1>0, <2>1, <3>1 DEF Later, Inv, InHand
  <2>7. Later(p)' = rest /\ Later(p) = proj[p].left
    BY <1>1, <2>1 DEF Later
  <2>8. InOrder'
    BY <1>0, <1>1, <1>2, <1>7, <2>1, <2>6, <2>7 DEF Inv, InOrder, Undisturbed
  <2>9. StateIsLatest'
    <3> SUFFICES ASSUME Undisturbed, NEW s \in Sessions, NEW j \in applied', j \in Of(s)
                 PROVE  j <= state'[s]
      BY <1>1, <1>7 DEF StateIsLatest, Undisturbed, Of
    <3>1. i \in Nat /\ i <= i
      BY <1>2
    <3>2. j \in applied => j < i /\ j \in Nat
      <4>1. \A k \in applied : k \in Nat
        BY <1>0, <1>2 DEF RowsOK
      <4>2. \A k \in applied : k < i
        BY <1>0, <1>2, <2>7 DEF Inv, InOrder
      <4> QED
        BY <4>1, <4>2
    <3>3. CASE s = stream[i].of
      <4>1. state'[s] = i
        BY <1>0, <1>3, <1>7, <3>3 DEF Advance, RowsOK
      <4>2. j = i \/ j \in applied
        BY <1>7
      <4>3. j <= i
        BY <3>1, <3>2, <4>2
      <4> QED
        BY <4>1, <4>3
    <3>4. CASE s # stream[i].of
      <4>1. state'[s] = state[s] /\ j # i
        BY <1>0, <1>3, <1>7, <3>4 DEF Advance, RowsOK, Of
      <4>2. j \in applied
        BY <1>7, <4>1
      <4> QED
        BY <1>0, <4>1, <4>2 DEF Inv, StateIsLatest
    <3> QED
      BY <3>3, <3>4
  <2> QED
    BY <1>0, <1>1, <1>7, <2>2, <2>3, <2>4, <2>5, <2>8, <2>9 DEF IInv, Inv, RedisOK
<1> QED
  BY <1>5, <1>6, <1>7 DEF Project, i

LEMMA AckStep == ASSUME IInv, NEW p \in Projectors, Ack(p) PROVE IInv'
<1> USE TypeParts
<1>0. RedisOK /\ ProjOK /\ SizesOK /\ RowsOK /\ had \in HadType /\ Inv /\ TypeOK
  BY DEF IInv
<1>1. /\ UNCHANGED <<stream, last, next, lease, stored, applied, state, gone>>
      /\ proj[p].at = "ack" /\ Abandon(p)
  BY DEF Ack, postgres
<1>2. CASE Fault /\ UNCHANGED <<pel, stale>>
  <2>1. RowsOK'
    BY <1>0, <1>1 DEF RowsOK
  <2> QED
    BY <1>0, <1>1, <1>2, <2>1, FaultFacts, AbandonStep DEF redis
<1>3. CASE pel' = pel \ proj[p].batch /\ stale' = stale \ proj[p].batch /\ UNCHANGED had
  <2>1. /\ ProjOK' /\ SizesOK' /\ InHand' /\ DoneSoFar' /\ Later(p)' = {}
        /\ \A q \in Projectors : q # p => proj'[q] = proj[q]
    BY <1>1, EmptyHand DEF Abandon
  <2>2. OwnerHasLease'
    BY <1>0, <1>1, <1>3, <2>1 DEF Inv, OwnerHasLease
  <2>3. Acked'
    BY <1>0, <1>1, <1>3 DEF Inv, Acked, DoneSoFar, Deleted, HasRow, RowKey
  <2>4. InOrder'
    <3>1. \A q \in Projectors : q # p => Later(q)' = Later(q)
      BY <2>1 DEF Later
    <3> QED
      BY <1>0, <1>1, <1>3, <2>1, <3>1 DEF Inv, InOrder, Undisturbed
  <2>5. StateIsLatest'
    BY <1>0, <1>1, <1>3 DEF Inv, StateIsLatest, Undisturbed, Of
  <2>6. RedisOK' /\ RowsOK'
    BY <1>0, <1>1, <1>3 DEF RedisOK, RowsOK
  <2> QED
    BY <1>0, <1>3, <2>1, <2>2, <2>3, <2>4, <2>5, <2>6 DEF IInv, Inv
<1> QED
  BY <1>2, <1>3 DEF Ack

LEMMA StutterStep == IInv /\ UNCHANGED vars => IInv'
<1> SUFFICES ASSUME IInv, UNCHANGED vars PROVE IInv'
  OBVIOUS
<1>0. RedisOK /\ ProjOK /\ SizesOK /\ RowsOK /\ had \in HadType /\ Inv
  BY TypeParts DEF IInv
<1>1. UNCHANGED <<stream, last, next, pel, stale, lease, proj, stored, applied, state, gone, had>>
  BY DEF vars, redis, postgres
<1>2. RedisOK' /\ ProjOK' /\ SizesOK' /\ RowsOK' /\ had' \in HadType
  BY <1>0, <1>1 DEF RedisOK, ProjOK, ProjType, SizesOK, RowsOK
<1>3. InHand' /\ DoneSoFar' /\ Acked' /\ OwnerHasLease'
  BY <1>0, <1>1 DEF Inv, InHand, DoneSoFar, Acked, OwnerHasLease, Deleted, HasRow, RowKey
<1>4. InOrder' /\ StateIsLatest'
  BY <1>0, <1>1 DEF Inv, InOrder, StateIsLatest, Undisturbed, Later, Of
<1> QED
  BY <1>2, <1>3, <1>4, TypeParts DEF IInv, Inv

LEMMA NextIInv == IInv /\ [Next]_vars => IInv'
BY AddStep, DeleteStep, AgeStep, LeaseEndsStep, AcquireStep, OutStep, ClaimStaleStep, ReadStep,
   FlushStep, StoreStep, ProjectStep, AckStep, StutterStep DEF Next, AtRest
-----------------------------------------------------------------------------
\* Streams, batches and rows stay what they are meant to be, and a batch never gets larger
\* than batchSize.
THEOREM TypeCorrect == Spec => []TypeOK
<1>1. IInv => TypeOK
  BY DEF IInv
<1> QED
  BY InitIInv, NextIInv, <1>1, PTL DEF Spec

\* An entry that is to be persisted leaves the pending list only after a row with its
\* session and number, its own if the number was given once, was stored and its turn
\* state was written, whatever fails, dies or works on the shard at the same time
\* (processMessages acknowledges last, over ON CONFLICT DO NOTHING).
THEOREM AcknowledgedLast == Spec => []AckedProjected
<1>1. IInv => AckedProjected
  <2> SUFFICES ASSUME IInv, NEW i \in 1..next, stream[i].persist, ~Deleted(i), i \notin pel,
                      \A j \in 1..Len(stream) : RowKey(j) = RowKey(i) => j = i
               PROVE  i \in stored
    BY DEF AckedProjected, IInv, Inv, Acked
  <2>1. PICK j \in stored : RowKey(j) = RowKey(i)
    BY DEF IInv, Inv, Acked, HasRow
  <2>2. j \in 1..Len(stream)
    BY DEF IInv, TypeOK
  <2> QED
    BY <2>1, <2>2
<1> QED
  BY InitIInv, NextIInv, <1>1, PTL DEF Spec

\* The shard has one owner until a lease is lost under it (runShard, renewShardLease).
THEOREM OneOwnerAtATime == Spec => []OneOwner
<1>1. IInv => OneOwner
  BY DEF IInv, Inv, OwnerHasLease, OneOwner
<1> QED
  BY InitIInv, NextIInv, <1>1, PTL DEF Spec

\* Without trouble the events of a session reach its turn state in stream order
\* (runOwnedShard, projectSessionState).
THEOREM StateFollowsStream == Spec => []StateIsLatest
<1>1. IInv => StateIsLatest
  BY DEF IInv, Inv
<1> QED
  BY InitIInv, NextIInv, <1>1, PTL DEF Spec
=============================================================================
