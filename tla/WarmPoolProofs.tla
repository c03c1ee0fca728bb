----------------------------- MODULE WarmPoolProofs -----------------------------
(***************************************************************************)
(* Theorems about WarmPool for any sandboxes, workers and sizes: who holds *)
(* a slot, that its runtime is there, that no runtime is left without a    *)
(* row, and that the pool is not larger than it was configured to be.      *)
(***************************************************************************)
EXTENDS WarmPool, FiniteSetTheorems, TLAPS

ListType == [at : Steps, todo : SUBSET Slots, slot : Slots \cup {None}, n : 0..MaxWant]

RowsOK == /\ status \in [Slots -> Status] /\ made \in 0..MaxSlots /\ live \subseteq Slots
          /\ \A k \in Slots : k > made => status[k] = "none" /\ k \notin live
ConfigOK == /\ old \subseteq Slots /\ aged \subseteq Slots
            /\ want \in 0..MaxWant /\ changes \in 0..MaxChanges /\ asked \in BOOLEAN
            /\ checks \in [Slots -> 0..MaxQueued]
TasksOK == /\ rec \in ListType /\ reap \in ListType
           /\ chk \in [Checkers -> [at : {"idle", "probe", "write", "delete", "mark"},
                                    slot : Slots \cup {None}]]
           /\ sb \in [Sandboxes -> [at : {"new", "wait", "confirm", "up", "delete", "mark", "ended"},
                                    slot : Slots \cup {None}]]
HadOK == had \in [fault : 0..MaxTrouble, lapse : 0..MaxTrouble, late : BOOLEAN]

HasRow(k) == status[k] # "none"
\* Whoever works on a slot works on one that has a row, except the reconcile task that is
\* about to write it.
Referenced ==
    /\ \A k \in old \cup rec.todo \cup reap.todo : HasRow(k)
    /\ rec.at # "fill" /\ rec.slot # None => HasRow(rec.slot)
    /\ reap.slot # None => HasRow(reap.slot)
    /\ \A c \in Checkers : chk[c].at # "idle" => chk[c].slot # None /\ HasRow(chk[c].slot)
    /\ \A s \in Sandboxes : sb[s].at \notin {"new", "ended"} => sb[s].slot # None
    /\ \A s \in Sandboxes : sb[s].slot # None => HasRow(sb[s].slot)
Filling ==
    rec.at = "fill" /\ rec.slot # None =>
        rec.slot <= made /\ ~HasRow(rec.slot) /\ rec.n > 0

\* Whoever is about to mark a slot has deleted its resource.
Deleted ==
    /\ rec.at # "fill" /\ rec.slot # None => rec.slot \notin live
    /\ reap.slot # None => reap.slot \notin live
    /\ \A c \in Checkers : chk[c].at = "mark" => chk[c].slot \notin live
    /\ \A s \in Sandboxes : sb[s].at = "mark" => sb[s].slot \notin live

\* A slot that is held or that the reaper has listed is not available.
Reapable == reap.todo \cup ({reap.slot} \ {None})
Taken == ~had.late => /\ \A s \in Sandboxes : sb[s].slot # None => ~Available(sb[s].slot)
                      /\ \A k \in Reapable : ~Available(k)

\* The reaper does not come near a sandbox's runtime while it is there.
Spared ==
    ~had.late /\ had.lapse = 0 => \A s \in Sandboxes :
        /\ sb[s].at \in {"confirm", "up"} => sb[s].slot \in live
        /\ sb[s].at = "up" => status[sb[s].slot] = "claimed"
        /\ sb[s].at \in {"wait", "confirm"} /\ sb[s].slot \in live =>
              /\ status[sb[s].slot] = "claiming"
              /\ sb[s].slot \notin aged \cup Reapable

IInv == /\ RowsOK /\ ConfigOK /\ TasksOK /\ HadOK
        /\ Referenced /\ Filling /\ Deleted /\ LeakFree
        /\ Taken /\ OneHolder /\ Spared /\ NotOverfilled
-----------------------------------------------------------------------------
LEMMA Constants ==
    /\ MaxSlots \in Nat /\ MaxWant \in Nat /\ MaxQueued \in Nat /\ MaxTrouble \in Nat
    /\ MaxChanges \in Nat /\ None \notin Slots
BY NobodyAssumption, BoundsAssumption DEF Slots

LEMMA TypeParts == RowsOK /\ ConfigOK /\ TasksOK /\ HadOK <=> TypeOK
BY DEF RowsOK, ConfigOK, TasksOK, HadOK, TypeOK, ListType

\* The pool is a finite set, and a part of it is no larger.
LEMMA PoolSize ==
    /\ IsFiniteSet(Slots)
    /\ \A S \in SUBSET Slots : IsFiniteSet(S) /\ Cardinality(S) \in Nat
    /\ \A S, T \in SUBSET Slots : S \subseteq T => Cardinality(S) <= Cardinality(T)
<1>1. IsFiniteSet(Slots)
  BY Constants, FS_Interval DEF Slots
<1>2. \A S \in SUBSET Slots : IsFiniteSet(S)
  BY <1>1, FS_Subset
<1> QED
  BY <1>1, <1>2, FS_Subset, FS_CardinalityType

\* A step that adds nothing to the pool does not make it too large.
LEMMA PoolShrinks ==
    ASSUME IInv, ~had'.late => ~had.late /\ Current' \subseteq Current,
           Missing' <= Missing, Missing \in Nat, Missing' \in Nat
    PROVE  NotOverfilled'
<1> SUFFICES ASSUME ~had'.late PROVE Cardinality(Current') + Missing' <= MaxWant
  BY DEF NotOverfilled
<1>1. Current \subseteq Slots /\ Current' \subseteq Slots
  BY DEF Current
<1>2. /\ Cardinality(Current) \in Nat /\ Cardinality(Current') \in Nat
      /\ Cardinality(Current') <= Cardinality(Current)
  BY <1>1, PoolSize
<1>3. Cardinality(Current) + Missing <= MaxWant
  BY DEF IInv, NotOverfilled
<1> QED
  BY <1>2, <1>3, Constants

LEMMA IdleFacts ==
    Idle \in ListType /\ Idle.at = "idle" /\ Idle.slot = None /\ Idle.todo = {} /\ Idle.n = 0
BY Constants DEF Idle, ListType, Steps

\* What a failure, a decision carried out late and a slow claim do to the record.
LEMMA TroubleFacts ==
    ASSUME HadOK, NEW kind \in {"fault", "lapse"}, Trouble(kind)
    PROVE  HadOK' /\ had'.late = had.late /\ had'[kind] > 0 /\ had'.fault >= had.fault
           /\ (kind = "fault" => had'.lapse = had.lapse)
<1>1. had' = [had EXCEPT ![kind] = @ + 1] /\ had.fault + had.lapse < MaxTrouble
  BY DEF Trouble, Troubled
<1> QED
  BY <1>1, Constants DEF HadOK

LEMMA LateFacts ==
    ASSUME HadOK, NEW m \in BOOLEAN, Late(m) \/ LateFault(m)
    PROVE  HadOK' /\ had'.late = (had.late \/ m) /\ had'.lapse = had.lapse
           /\ had'.fault >= had.fault
<1>1. CASE Late(m)
  BY <1>1, Constants DEF HadOK, Late
<1>2. CASE LateFault(m)
  <2>1. had.fault + 1 \in 0..MaxTrouble
    BY <1>2, Constants DEF HadOK, LateFault, Troubled
  <2> DEFINE l == had.late \/ m
  <2>2. had' = [had EXCEPT !.late = l, !.fault = had.fault + 1]
    BY <1>2 DEF LateFault
  <2>3. l \in BOOLEAN
    OBVIOUS
  <2>4. /\ had.fault \in Nat
        /\ had \in [fault : 0..MaxTrouble, lapse : 0..MaxTrouble, late : BOOLEAN]
    BY Constants DEF HadOK
  <2> HIDE DEF l
  <2>5. HadOK' /\ had'.late = l /\ had'.lapse = had.lapse /\ had'.fault = had.fault + 1
    BY <2>1, <2>2, <2>3, <2>4 DEF HadOK
  <2> QED
    BY <2>4, <2>5 DEF l
<1> QED
  BY <1>1, <1>2

\* A write to the row of a slot that has one.
LEMMA WriteFacts ==
    ASSUME RowsOK, NEW k \in Slots, HasRow(k), NEW st \in Status \ {"none"}, Write(k, st),
           made' = made, live' \subseteq live
    PROVE  RowsOK' /\ (\A j \in Slots : HasRow(j)' <=> HasRow(j)) /\ status'[k] = st
           /\ (\A j \in Slots : j # k => status'[j] = status[j])
BY DEF RowsOK, HasRow, Write

LEMMA CheckFacts ==
    ASSUME checks \in [Slots -> 0..MaxQueued], NEW k \in Slots, NEW n \in {-1, 1},
           checks[k] + n >= 0, Check(k, n)
    PROVE  checks' \in [Slots -> 0..MaxQueued]
<1>1. (IF checks[k] + n > MaxQueued THEN MaxQueued ELSE checks[k] + n) \in 0..MaxQueued
  BY Constants
<1> QED
  BY <1>1 DEF Check

LEMMA InitIInv == Init => IInv
<1> SUFFICES ASSUME Init PROVE IInv
  OBVIOUS
<1> USE Constants DEF Init, Idle, Resting
<1>1. RowsOK /\ ConfigOK /\ TasksOK /\ HadOK
  BY DEF RowsOK, ConfigOK, TasksOK, HadOK, ListType, Steps, Status
<1>2. Referenced /\ Filling /\ Deleted /\ LeakFree /\ Taken /\ OneHolder /\ Spared
  BY DEF Referenced, Filling, Deleted, LeakFree, Taken, OneHolder, Spared, Reapable
<1>3. NotOverfilled
  <2>1. Current = {}
    BY DEF Current, Available
  <2> QED
    BY <2>1, FS_EmptySet DEF NotOverfilled, Missing
<1> QED
  BY <1>1, <1>2, <1>3 DEF IInv
-----------------------------------------------------------------------------
\* MarkError of a slot, up to the row: the resource is gone, or the slot waits for the
\* reaper.
LEMMA DeleteFacts ==
    ASSUME IInv, NEW k \in Slots, HasRow(k), UNCHANGED <<made, aged, old, sb, reap>>,
           \/ live' = live \ {k} /\ UNCHANGED status /\ Late(Held(k))
           \/ live' = live /\ Refused(k) /\ LateFault(Held(k))
    PROVE  /\ RowsOK' /\ HadOK' /\ Current' \subseteq Current /\ live' \subseteq live
           /\ had'.fault >= had.fault /\ (had.late => had'.late)
           /\ \A j \in Slots : HasRow(j)' <=> HasRow(j)
           /\ \A j \in live' : status'[j] # "error"
           /\ Taken' /\ OneHolder' /\ Spared'
<1>0. RowsOK /\ HadOK /\ TasksOK /\ Referenced /\ LeakFree /\ Taken /\ OneHolder /\ Spared
  BY DEF IInv
<1>1. /\ HadOK' /\ had'.late = (had.late \/ Held(k)) /\ had'.lapse = had.lapse
      /\ had'.fault >= had.fault
  <2>1. Held(k) \in BOOLEAN
    BY DEF Held
  <2> QED
    BY <1>0, <2>1, LateFacts
<1>2. /\ RowsOK' /\ \A j \in Slots : HasRow(j)' <=> HasRow(j)
      /\ \A j \in Slots : j # k => status'[j] = status[j]
      /\ status'[k] = status[k] \/ status'[k] = "deleting"
      /\ live' \subseteq live /\ (k \in live' => status'[k] = "deleting")
  <2>1. CASE live' = live \ {k} /\ UNCHANGED status
    BY <1>0, <2>1 DEF RowsOK, HasRow
  <2>2. CASE live' = live /\ Refused(k)
    BY <1>0, <2>2, WriteFacts DEF Refused, Status
  <2> QED
    BY <2>1, <2>2
<1>3. Current' \subseteq Current
  BY <1>0, <1>2 DEF Current, Available, RowsOK
<1>4. \A j \in live' : status'[j] # "error"
  BY <1>0, <1>2 DEF LeakFree, RowsOK
<1>5. ~had'.late => ~had.late /\ ~Held(k)
  BY <1>1
<1>6. Taken' /\ OneHolder'
  BY <1>0, <1>2, <1>5 DEF Taken, OneHolder, Available, Reapable, TasksOK, ListType
<1>7. Spared'
  BY <1>0, <1>1, <1>2, <1>5 DEF Spared, Reapable, Held, Referenced, TasksOK, ListType, RowsOK
<1> QED
  BY <1>1, <1>2, <1>3, <1>4, <1>5, <1>6, <1>7

\* A slot without a resource is marked.
LEMMA MarkFacts ==
    ASSUME IInv, NEW k \in Slots, HasRow(k), k \notin live, Write(k, "error"),
           UNCHANGED <<made, live, aged, old, had>>
    PROVE  /\ RowsOK' /\ HadOK' /\ Current' \subseteq Current
           /\ \A j \in Slots : HasRow(j)' <=> HasRow(j)
           /\ \A j \in Slots : status'[j] = IF j = k THEN "error" ELSE status[j]
           /\ \A j \in live' : status'[j] # "error"
<1>0. RowsOK /\ HadOK /\ LeakFree
  BY DEF IInv
<1>1. /\ RowsOK' /\ \A j \in Slots : HasRow(j)' <=> HasRow(j)
      /\ \A j \in Slots : status'[j] = IF j = k THEN "error" ELSE status[j]
  BY <1>0, WriteFacts DEF Status
<1>2. Current' \subseteq Current
  BY <1>0, <1>1 DEF Current, Available, RowsOK
<1> QED
  BY <1>0, <1>1, <1>2 DEF HadOK, LeakFree, RowsOK

-----------------------------------------------------------------------------
(* Reconcile.                                                                *)

LEMMA DropStep == ASSUME IInv, Drop PROVE IInv'
<1>0. /\ RowsOK /\ HadOK /\ TasksOK /\ ConfigOK /\ Referenced /\ Deleted /\ LeakFree
      /\ rec.at \in {"stale", "trim"} /\ rec.slot = None
  BY DEF IInv, Drop
<1>1. PICK k \in rec.todo :
          \/ /\ live' = live \ {k} /\ rec' = [rec EXCEPT !.slot = k]
             /\ Late(Held(k)) /\ UNCHANGED <<status, asked>>
          \/ /\ LateFault(Held(k)) /\ Refused(k) /\ Again
             /\ UNCHANGED live
  BY DEF Drop
<1>2. UNCHANGED <<made, aged, old, want, changes, checks, chk, sb, reap>>
  BY DEF Drop, Waiting, config
<1>3. k \in Slots /\ HasRow(k)
  BY <1>0 DEF TasksOK, ListType, Referenced
<1>4. /\ RowsOK' /\ HadOK' /\ Current' \subseteq Current /\ live' \subseteq live
      /\ had'.fault >= had.fault /\ (had.late => had'.late)
      /\ \A j \in Slots : HasRow(j)' <=> HasRow(j)
      /\ \A j \in live' : status'[j] # "error"
      /\ Taken' /\ OneHolder' /\ Spared'
  BY <1>1, <1>2, <1>3, DeleteFacts
<1>5. \/ rec' = [rec EXCEPT !.slot = k] /\ live' = live \ {k} /\ asked' = asked
      \/ rec' = Idle /\ asked' = TRUE
  BY <1>1 DEF Again
<1>6. /\ rec' \in ListType /\ rec'.at # "fill" /\ rec'.todo \subseteq rec.todo
      /\ rec'.slot # None => rec'.slot = k /\ k \notin live'
  BY <1>0, <1>3, <1>5, IdleFacts DEF TasksOK, ListType
<1>7. ConfigOK' /\ TasksOK' /\ Referenced' /\ Filling' /\ Deleted'
  BY <1>0, <1>2, <1>3, <1>4, <1>5, <1>6
  DEF ConfigOK, Referenced, Filling, Deleted, TasksOK, ListType
<1>8. LeakFree'
  <2>1. \A j \in live' : status[j] # "none"
      \/ had.fault > 0
    BY <1>0, <1>4, Constants DEF LeakFree, RowsOK
  <2> QED
    BY <1>0, <1>4, <2>1 DEF LeakFree, RowsOK, HasRow, HadOK
<1>9. NotOverfilled'
  BY <1>0, <1>4, <1>6, PoolShrinks DEF Missing
<1> QED
  BY <1>4, <1>7, <1>8, <1>9 DEF IInv

LEMMA DroppedStep == ASSUME IInv, Dropped PROVE IInv'
<1>0. /\ RowsOK /\ HadOK /\ TasksOK /\ ConfigOK /\ Referenced /\ Deleted /\ LeakFree
      /\ Taken /\ OneHolder /\ Spared
      /\ rec.at \in {"stale", "trim"} /\ rec.slot # None
  BY DEF IInv, Dropped
<1>1. /\ rec' = [rec EXCEPT !.slot = None, !.todo = @ \ {rec.slot}]
      /\ Write(rec.slot, "error")
      /\ UNCHANGED <<made, live, aged, old, had, want, changes, asked, checks, chk, sb, reap>>
  BY DEF Dropped, Waiting, config, tasks
<1>2. rec.slot \in Slots /\ HasRow(rec.slot) /\ rec.slot \notin live
  BY <1>0 DEF TasksOK, ListType, Referenced, Deleted
<1>3. /\ RowsOK' /\ HadOK' /\ Current' \subseteq Current
      /\ \A j \in Slots : HasRow(j)' <=> HasRow(j)
      /\ \A j \in Slots : status'[j] = IF j = rec.slot THEN "error" ELSE status[j]
      /\ \A j \in live' : status'[j] # "error"
  BY <1>1, <1>2, MarkFacts
<1>4. ConfigOK' /\ TasksOK'
  BY <1>0, <1>1, Constants DEF ConfigOK, TasksOK, ListType
<1>5. Referenced' /\ Filling' /\ Deleted'
  BY <1>0, <1>1, <1>3 DEF Referenced, Filling, Deleted, TasksOK, ListType, ConfigOK
<1>6. LeakFree'
  BY <1>0, <1>1, <1>2, <1>3 DEF LeakFree, HasRow, RowsOK
<1>7. Taken' /\ OneHolder'
  BY <1>0, <1>1, <1>3 DEF Taken, OneHolder, Reapable, Available, TasksOK, ListType
<1>9. Spared'
  BY <1>0, <1>1, <1>2, <1>3 DEF Spared, Reapable, RowsOK
<1>8. NotOverfilled'
  BY <1>0, <1>1, <1>3, PoolShrinks DEF Missing, TasksOK
<1> QED
  BY <1>3, <1>4, <1>5, <1>6, <1>7, <1>8, <1>9 DEF IInv

LEMMA CountStep == ASSUME IInv, Count PROVE IInv'
<1>0. /\ RowsOK /\ HadOK /\ TasksOK /\ ConfigOK /\ Referenced /\ Filling /\ Deleted /\ LeakFree
      /\ Taken /\ OneHolder /\ Spared /\ NotOverfilled /\ rec.at = "stale" /\ rec.todo = {}
  BY DEF IInv, Count
<1>1. UNCHANGED <<status, live, made, aged, old, want, changes, asked, checks, chk, sb, reap, had>>
  BY DEF Count, Waiting, config, tasks
<1>2. /\ Current \subseteq Slots /\ Current' = Current /\ Surplus \subseteq Current
      /\ Cardinality(Current) \in Nat /\ rec.n \in 0..MaxWant
  BY <1>0, <1>1, PoolSize DEF Current, Available, Surplus, TasksOK, ListType
<1>3. \/ rec' = [Idle EXCEPT !.at = "trim", !.todo = Surplus]
      \/ /\ rec' = [Idle EXCEPT !.at = "fill", !.n = rec.n - Cardinality(Current)]
         /\ Cardinality(Current) <= rec.n
  BY <1>2 DEF Count, Pool
<1>4. /\ rec' \in ListType /\ rec'.slot = None /\ rec'.todo \subseteq Current
      /\ \/ rec'.at = "trim"
         \/ rec'.at = "fill" /\ rec'.n \in Nat /\ rec'.n + Cardinality(Current) <= MaxWant
  <2>1. CASE rec' = [Idle EXCEPT !.at = "trim", !.todo = Surplus]
    BY <1>2, <2>1, IdleFacts DEF ListType, Steps
  <2>2. CASE /\ rec' = [Idle EXCEPT !.at = "fill", !.n = rec.n - Cardinality(Current)]
             /\ Cardinality(Current) <= rec.n
    <3> DEFINE n == rec.n - Cardinality(Current)
    <3>1. n \in 0..MaxWant /\ n \in Nat /\ n + Cardinality(Current) <= MaxWant
      BY <1>2, <2>2, Constants
    <3>2. rec' = [Idle EXCEPT !.at = "fill", !.n = n]
      BY <2>2
    <3> HIDE DEF n
    <3>3. rec' \in ListType /\ rec'.slot = None /\ rec'.todo = {} /\ rec'.at = "fill" /\ rec'.n = n
      BY <3>1, <3>2, IdleFacts DEF ListType, Steps
    <3> QED
      BY <3>1, <3>3
  <2> QED
    BY <1>3, <2>1, <2>2
<1>5. RowsOK' /\ HadOK' /\ ConfigOK' /\ TasksOK'
  BY <1>0, <1>1, <1>4 DEF RowsOK, HadOK, ConfigOK, TasksOK
<1>6. Referenced' /\ Filling' /\ Deleted'
  BY <1>0, <1>1, <1>4 DEF Referenced, Filling, Deleted, HasRow, Current, Available
<1>7. LeakFree'
  BY <1>0, <1>1, <1>4 DEF LeakFree, Deleted
<1>8. Taken' /\ OneHolder' /\ Spared'
  BY <1>0, <1>1 DEF Taken, OneHolder, Spared, Reapable, Available
<1>9. NotOverfilled'
  BY <1>0, <1>1, <1>2, <1>4, Constants DEF NotOverfilled, Missing
<1> QED
  BY <1>5, <1>6, <1>7, <1>8, <1>9 DEF IInv

LEMMA ProvisionStep == ASSUME IInv, Provision PROVE IInv'
<1>0. /\ RowsOK /\ HadOK /\ TasksOK /\ ConfigOK /\ Referenced /\ Filling /\ Deleted /\ LeakFree
      /\ Taken /\ OneHolder /\ Spared /\ NotOverfilled
      /\ rec.at = "fill" /\ rec.n > 0 /\ rec.slot = None /\ made < MaxSlots
  BY DEF IInv, Provision
<1>1. UNCHANGED <<status, aged, old, want, changes, checks, chk, sb, reap>>
  BY DEF Provision, config
<1>2. Current' = Current /\ Missing = rec.n /\ rec.n \in 0..MaxWant
  BY <1>0, <1>1 DEF Current, Available, Missing, TasksOK, ListType
<1>3. CASE /\ made' = made + 1 /\ live' = live \cup {made + 1}
           /\ rec' = [rec EXCEPT !.slot = made + 1] /\ UNCHANGED <<asked, had>>
  <2>1. made + 1 \in Slots /\ ~HasRow(made + 1) /\ made + 1 \notin live
    BY <1>0, Constants DEF RowsOK, HasRow, Slots
  <2>2. RowsOK' /\ HadOK' /\ ConfigOK' /\ TasksOK'
    <3>1. RowsOK'
      <4>1. made' \in 0..MaxSlots /\ live' \subseteq Slots
        BY <1>0, <1>3, <2>1, Constants DEF RowsOK
      <4>2. ASSUME NEW k \in Slots, k > made'
            PROVE  status'[k] = "none" /\ k \notin live'
        BY <1>0, <1>1, <1>3, <4>2 DEF RowsOK, Slots
      <4> QED
        BY <1>0, <1>1, <4>1, <4>2 DEF RowsOK
    <3> QED
      BY <1>0, <1>1, <1>3, <2>1, <3>1 DEF HadOK, ConfigOK, TasksOK, ListType
  <2>3. rec'.at = "fill" /\ rec'.slot = made + 1 /\ rec'.n = rec.n /\ rec'.todo = rec.todo
    BY <1>0, <1>3 DEF TasksOK, ListType
  <2>4. Referenced' /\ Filling'
    BY <1>0, <1>1, <1>3, <2>1, <2>3 DEF Referenced, Filling, HasRow, RowsOK
  <2>5. Deleted'
    BY <1>0, <1>1, <1>3, <2>1, <2>3 DEF Deleted, Referenced
  <2>6. LeakFree'
    BY <1>0, <1>1, <1>3, <2>1, <2>3, Constants DEF LeakFree, HasRow, RowsOK
  <2>7. Taken' /\ OneHolder'
    BY <1>0, <1>1, <1>3 DEF Taken, OneHolder, Reapable, Available
  <2>8. Spared'
    BY <1>0, <1>1, <1>3, <2>1 DEF Spared, Reapable, Referenced
  <2>9. NotOverfilled'
    BY <1>0, <1>2, <1>3, <2>3 DEF NotOverfilled, Missing
  <2> QED
    BY <2>2, <2>4, <2>5, <2>6, <2>7, <2>8, <2>9 DEF IInv
<1>4. CASE Fault /\ Again /\ UNCHANGED <<live, made>>
  <2>1. /\ HadOK' /\ had'.late = had.late /\ had'.lapse = had.lapse /\ had'.fault > 0
    BY <1>0, <1>4, TroubleFacts DEF Fault
  <2>2. rec' = Idle /\ asked' = TRUE
    BY <1>4 DEF Again
  <2>3. RowsOK' /\ ConfigOK' /\ TasksOK'
    BY <1>0, <1>1, <1>4, <2>2, Constants DEF RowsOK, ConfigOK, TasksOK, ListType, Steps, Idle
  <2>4. Referenced' /\ Filling' /\ Deleted'
    BY <1>0, <1>1, <1>4, <2>2 DEF Referenced, Filling, Deleted, HasRow, Idle
  <2>5. LeakFree' /\ Taken' /\ OneHolder' /\ Spared'
    BY <1>0, <1>1, <1>4, <2>1, <2>2
    DEF LeakFree, Taken, OneHolder, Spared, Reapable, Available
  <2>6. NotOverfilled'
    BY <1>2, <2>1, <2>2, PoolShrinks DEF Missing, Idle
  <2> QED
    BY <2>1, <2>3, <2>4, <2>5, <2>6 DEF IInv
<1> QED
  BY <1>3, <1>4 DEF Provision

LEMMA InsertStep == ASSUME IInv, Insert PROVE IInv'
<1>0. /\ RowsOK /\ HadOK /\ TasksOK /\ ConfigOK /\ Referenced /\ Filling /\ Deleted /\ LeakFree
      /\ Taken /\ OneHolder /\ Spared /\ NotOverfilled /\ rec.at = "fill" /\ rec.slot # None
  BY DEF IInv, Insert
<1> DEFINE k == rec.slot
<1>1. /\ k \in Slots /\ ~HasRow(k) /\ k <= made
      /\ rec.n \in 1..MaxWant /\ rec.todo \subseteq Slots
  BY <1>0, Constants DEF TasksOK, ListType, Filling
<1>2. UNCHANGED <<made, aged, old, want, changes, chk, sb, reap>>
  BY DEF Insert, Waiting, config
<1>3. /\ \A s \in Sandboxes : sb[s].slot # k
      /\ k \notin Reapable
  BY <1>0, <1>1, Constants DEF Referenced, Reapable
<1>4. \* what becomes of the row
      /\ \/ Write(k, "warming")
         \/ UNCHANGED status
      /\ \/ UNCHANGED live
         \/ UNCHANGED status /\ live' = live \ {k} /\ Fault
      /\ Fault \/ UNCHANGED had
      /\ \/ /\ Write(k, "warming") /\ UNCHANGED <<live, asked, had>> /\ Check(k, 1)
            /\ rec' = [rec EXCEPT !.slot = None, !.n = @ - 1, !.todo = @ \cup {k}]
         \/ Fault /\ Again /\ UNCHANGED checks
  BY DEF Insert
<1>5. /\ RowsOK'
      /\ \A j \in Slots : j # k => status'[j] = status[j]
      /\ status'[k] \in {"none", "warming"} /\ live' \subseteq live
      /\ \A j \in live : j # k => j \in live'
  <2>1. CASE Write(k, "warming") /\ UNCHANGED live
    <3>1. status' = [status EXCEPT ![k] = "warming"] /\ status \in [Slots -> Status]
      BY <1>0, <2>1 DEF RowsOK, Write
    <3>2. status' \in [Slots -> Status] /\ status'[k] = "warming"
          /\ \A j \in Slots : j # k => status'[j] = status[j]
      BY <1>1, <3>1 DEF Status
    <3>3. \A j \in Slots : j > made => j # k
      BY <1>0, <1>1, Constants DEF RowsOK, Slots
    <3>4. RowsOK'
      BY <1>0, <1>2, <2>1, <3>2, <3>3 DEF RowsOK
    <3> QED
      BY <2>1, <3>2, <3>4
  <2>2. CASE UNCHANGED status /\ live' \in {live, live \ {k}}
    BY <1>0, <1>1, <1>2, <2>2 DEF RowsOK, HasRow
  <2> QED
    BY <1>4, <2>1, <2>2
<1>6. HadOK' /\ had'.late = had.late /\ had'.lapse = had.lapse /\ had'.fault >= had.fault
  BY <1>0, <1>4, TroubleFacts DEF Fault, HadOK
<1>7. /\ checks' \in [Slots -> 0..MaxQueued] /\ asked' \in BOOLEAN
  <2>1. CASE Check(k, 1)
    <3>1. checks[k] \in 0..MaxQueued /\ checks \in [Slots -> 0..MaxQueued]
      BY <1>0, <1>1 DEF ConfigOK
    <3>2. checks[k] + 1 >= 0
      BY <3>1, Constants
    <3>3. checks' \in [Slots -> 0..MaxQueued]
      BY <1>1, <2>1, <3>1, <3>2, CheckFacts
    <3> QED
      BY <1>0, <1>4, <3>3 DEF ConfigOK, Again
  <2> QED
    BY <1>0, <1>4, <2>1 DEF ConfigOK, Again
<1>8. \/ /\ rec'.at = "fill" /\ rec'.slot = None /\ rec'.n = rec.n - 1
         /\ rec'.todo = rec.todo \cup {k} /\ status'[k] = "warming" /\ rec' \in ListType
      \/ rec' = Idle /\ had'.fault > 0
  <2>1. CASE /\ Write(k, "warming")
             /\ rec' = [rec EXCEPT !.slot = None, !.n = @ - 1, !.todo = @ \cup {k}]
    <3>1. status'[k] = "warming"
      BY <1>0, <1>1, <2>1 DEF RowsOK, Write
    <3>2. rec \in ListType /\ rec.n - 1 \in 0..MaxWant /\ rec.todo \cup {k} \subseteq Slots
      BY <1>0, <1>1, Constants DEF TasksOK
    <3> QED
      BY <1>0, <2>1, <3>1, <3>2 DEF ListType
  <2>2. CASE Fault /\ Again
    BY <1>0, <2>2, TroubleFacts DEF Fault, Again
  <2> QED
    BY <1>4, <2>1, <2>2
<1>9. ConfigOK' /\ TasksOK'
  BY <1>0, <1>2, <1>7, <1>8, IdleFacts DEF ConfigOK, TasksOK
<1>10. Referenced' /\ Filling' /\ Deleted'
  <2>1. \A j \in Slots : HasRow(j) => HasRow(j)'
    BY <1>1, <1>5 DEF HasRow
  <2>2. (\A j \in rec'.todo : HasRow(j)') /\ rec'.slot = None
    BY <1>0, <1>1, <1>8, <2>1, IdleFacts DEF Referenced, HasRow
  <2>3. Referenced'
    BY <1>0, <1>2, <2>1, <2>2 DEF Referenced, TasksOK, ListType, ConfigOK
  <2>4. Filling' /\ Deleted'
    BY <1>0, <1>2, <1>5, <2>2 DEF Filling, Deleted
  <2> QED
    BY <2>3, <2>4
<1>11. LeakFree'
  BY <1>0, <1>1, <1>5, <1>6, <1>8 DEF LeakFree, HasRow, HadOK, RowsOK
<1>12. Taken' /\ OneHolder'
  BY <1>0, <1>2, <1>3, <1>5, <1>6 DEF Taken, OneHolder, Reapable, Available, TasksOK, ListType
<1>13. Spared'
  BY <1>0, <1>2, <1>3, <1>5, <1>6 DEF Spared, Reapable, Referenced, TasksOK, ListType
<1>14. NotOverfilled'
  <2>1. Current' \subseteq Current \cup {k} /\ k \notin Current /\ Current \subseteq Slots
    BY <1>1, <1>2, <1>5 DEF Current, Available, HasRow
  <2>2. /\ Cardinality(Current \cup {k}) = Cardinality(Current) + 1
        /\ Cardinality(Current') <= Cardinality(Current \cup {k})
        /\ Cardinality(Current') \in Nat /\ Cardinality(Current) \in Nat
    BY <1>1, <2>1, PoolSize, FS_AddElement
  <2>3. rec'.n \in Nat /\ Missing' <= rec.n - 1 /\ Missing' \in Nat /\ Missing = rec.n
    BY <1>0, <1>1, <1>8, IdleFacts DEF Missing, ListType
  <2> QED
    BY <1>0, <1>1, <1>6, <2>2, <2>3, Constants DEF NotOverfilled
<1> QED
  BY <1>5, <1>6, <1>9, <1>10, <1>11, <1>12, <1>13, <1>14 DEF IInv

\* A step that touches neither a row, a resource, a sandbox nor the reaper.
LEMMA AsideFacts ==
    ASSUME IInv, UNCHANGED <<status, live, made, aged, sb, reap>>, old \subseteq old',
           Fault \/ UNCHANGED had,
           \/ rec' = rec
           \/ Missing' = 0 /\ (rec.slot = None \/ rec.slot \notin live \/ Fault)
    PROVE  /\ RowsOK' /\ HadOK' /\ LeakFree' /\ Taken' /\ OneHolder' /\ Spared' /\ NotOverfilled'
           /\ \A k \in Slots : HasRow(k)' <=> HasRow(k)
<1>0. /\ RowsOK /\ HadOK /\ TasksOK /\ LeakFree /\ Taken /\ OneHolder /\ Spared
  BY DEF IInv
<1>1. /\ HadOK' /\ had'.late = had.late /\ had'.lapse = had.lapse /\ had'.fault >= had.fault
      /\ Fault => had'.fault > 0
      /\ had.fault \in Nat /\ had'.fault \in Nat
  <2>1. CASE Fault
    BY <1>0, <2>1, TroubleFacts DEF Fault, HadOK
  <2>2. CASE UNCHANGED had /\ ~Fault
    BY <1>0, <2>2, Constants DEF HadOK
  <2> QED
    BY <2>1, <2>2
<1>2. RowsOK' /\ Taken' /\ OneHolder' /\ Spared' /\ \A k \in Slots : HasRow(k)' <=> HasRow(k)
  BY <1>0, <1>1 DEF RowsOK, Taken, OneHolder, Spared, Reapable, Available, HasRow
<1>3. LeakFree'
  BY <1>0, <1>1, Constants DEF LeakFree, RowsOK
<1>4. NotOverfilled'
  <2>1. Current' \subseteq Current
    BY DEF Current, Available
  <2>2. Missing \in Nat /\ (rec' = rec => Missing' = Missing)
    BY <1>0, Constants DEF Missing, TasksOK, ListType
  <2> QED
    BY <1>1, <2>1, <2>2, PoolShrinks
<1> QED
  BY <1>1, <1>2, <1>3, <1>4

LEMMA ConfigureStep == ASSUME IInv, NEW n \in 0..MaxWant, Configure(n) PROVE IInv'
<1> USE Constants, IdleFacts DEF Configure, Ask
<1>0. /\ RowsOK /\ TasksOK /\ ConfigOK /\ Referenced /\ Filling /\ Deleted
  BY DEF IInv
<1>1. /\ RowsOK' /\ HadOK' /\ LeakFree' /\ Taken' /\ OneHolder' /\ Spared' /\ NotOverfilled'
      /\ \A j \in Slots : HasRow(j)' <=> HasRow(j)
  BY <1>0, AsideFacts DEF Missing, Deleted, TasksOK, ListType, Referenced, HasRow, ConfigOK
<1>2. ConfigOK' /\ TasksOK'
  BY <1>0 DEF ConfigOK, TasksOK, ListType, Steps
<1>3. Referenced' /\ Filling' /\ Deleted'
  BY <1>0, <1>1 DEF Referenced, Filling, Deleted, HasRow, TasksOK, ListType
<1> QED
  BY <1>1, <1>2, <1>3 DEF IInv

LEMMA StartStep == ASSUME IInv, Start PROVE IInv'
<1> USE Constants, IdleFacts DEF Start, Waiting, config, tasks, Available
<1>0. /\ RowsOK /\ TasksOK /\ ConfigOK /\ Referenced /\ Filling /\ Deleted
  BY DEF IInv
<1>1. /\ RowsOK' /\ HadOK' /\ LeakFree' /\ Taken' /\ OneHolder' /\ Spared' /\ NotOverfilled'
      /\ \A j \in Slots : HasRow(j)' <=> HasRow(j)
  BY <1>0, AsideFacts DEF Missing, Deleted, TasksOK, ListType, ConfigOK
<1>2. ConfigOK' /\ TasksOK'
  BY <1>0 DEF ConfigOK, TasksOK, ListType, Steps
<1>3. Referenced' /\ Filling' /\ Deleted'
  BY <1>0, <1>1 DEF Referenced, Filling, Deleted, HasRow, TasksOK, ListType
<1> QED
  BY <1>1, <1>2, <1>3 DEF IInv

LEMMA TrimmedStep == ASSUME IInv, Trimmed PROVE IInv'
<1> USE Constants, IdleFacts DEF Trimmed, Waiting, config, tasks
<1>0. /\ RowsOK /\ TasksOK /\ ConfigOK /\ Referenced /\ Filling /\ Deleted
  BY DEF IInv
<1>1. /\ RowsOK' /\ HadOK' /\ LeakFree' /\ Taken' /\ OneHolder' /\ Spared' /\ NotOverfilled'
      /\ \A j \in Slots : HasRow(j)' <=> HasRow(j)
  BY <1>0, AsideFacts DEF Missing, Deleted, TasksOK, ListType
<1>2. ConfigOK' /\ TasksOK'
  BY <1>0 DEF ConfigOK, TasksOK, ListType, Steps
<1>3. Referenced' /\ Filling' /\ Deleted'
  BY <1>0, <1>1 DEF Referenced, Filling, Deleted, HasRow, TasksOK, ListType
<1> QED
  BY <1>1, <1>2, <1>3 DEF IInv

LEMMA RecheckStep == ASSUME IInv, Recheck PROVE IInv'
<1> USE Constants, IdleFacts DEF Recheck, Waiting, config, tasks
<1>0. /\ RowsOK /\ TasksOK /\ ConfigOK /\ Referenced /\ Filling /\ Deleted
  BY DEF IInv
<1>1. /\ RowsOK' /\ HadOK' /\ LeakFree' /\ Taken' /\ OneHolder' /\ Spared' /\ NotOverfilled'
      /\ \A j \in Slots : HasRow(j)' <=> HasRow(j)
  BY <1>0, AsideFacts DEF Missing, Deleted, TasksOK, ListType
<1>2. ConfigOK' /\ TasksOK'
  BY <1>0 DEF ConfigOK, TasksOK, ListType, Steps
<1>3. Referenced' /\ Filling' /\ Deleted'
  BY <1>0, <1>1 DEF Referenced, Filling, Deleted, HasRow, TasksOK, ListType
<1> QED
  BY <1>1, <1>2, <1>3 DEF IInv

LEMMA ReconcileDiesStep == ASSUME IInv, ReconcileDies PROVE IInv'
<1> USE Constants, IdleFacts DEF ReconcileDies, Waiting, config, tasks, Again
<1>0. /\ RowsOK /\ TasksOK /\ ConfigOK /\ Referenced /\ Filling /\ Deleted
  BY DEF IInv
<1>1. /\ RowsOK' /\ HadOK' /\ LeakFree' /\ Taken' /\ OneHolder' /\ Spared' /\ NotOverfilled'
      /\ \A j \in Slots : HasRow(j)' <=> HasRow(j)
  BY <1>0, AsideFacts DEF Missing, Deleted, TasksOK, ListType
<1>2. ConfigOK' /\ TasksOK'
  BY <1>0 DEF ConfigOK, TasksOK, ListType, Steps
<1>3. Referenced' /\ Filling' /\ Deleted'
  BY <1>0, <1>1 DEF Referenced, Filling, Deleted, HasRow, TasksOK, ListType
<1> QED
  BY <1>1, <1>2, <1>3 DEF IInv

-----------------------------------------------------------------------------
(* The checks.                                                               *)

LEMMA CheckStartsStep == ASSUME IInv, NEW c \in Checkers, NEW k \in Slots, CheckStarts(c, k) PROVE IInv'
<1> USE Constants, IdleFacts DEF CheckStarts, Checking, config, Done, At, Resting, Check
<1>0. /\ RowsOK /\ TasksOK /\ ConfigOK /\ Referenced /\ Filling /\ Deleted
  BY DEF IInv
<1>1. /\ RowsOK' /\ HadOK' /\ LeakFree' /\ Taken' /\ OneHolder' /\ Spared' /\ NotOverfilled'
      /\ \A j \in Slots : HasRow(j)' <=> HasRow(j)
  BY <1>0, AsideFacts DEF config
<1>2. ConfigOK' /\ TasksOK'
  BY <1>0 DEF ConfigOK, TasksOK, ListType, Steps
<1>3. Referenced' /\ Filling' /\ Deleted'
  BY <1>0, <1>1 DEF Referenced, Filling, Deleted, HasRow, TasksOK, ListType
<1> QED
  BY <1>1, <1>2, <1>3 DEF IInv

LEMMA ProbeStep == ASSUME IInv, NEW c \in Checkers, Probe(c) PROVE IInv'
<1> USE Constants, IdleFacts DEF Probe, Checking, config, Done, At, Resting
<1>0. /\ RowsOK /\ TasksOK /\ ConfigOK /\ Referenced /\ Filling /\ Deleted
  BY DEF IInv
<1>1. /\ RowsOK' /\ HadOK' /\ LeakFree' /\ Taken' /\ OneHolder' /\ Spared' /\ NotOverfilled'
      /\ \A j \in Slots : HasRow(j)' <=> HasRow(j)
  BY <1>0, AsideFacts DEF config
<1>2. ConfigOK' /\ TasksOK'
  <2>1. /\ chk[c].slot \in Slots /\ checks[chk[c].slot] + 1 >= 0
        /\ checks \in [Slots -> 0..MaxQueued]
    BY <1>0 DEF Referenced, TasksOK, ConfigOK
  <2>2. checks' \in [Slots -> 0..MaxQueued]
    BY <2>1, CheckFacts
  <2> QED
    BY <1>0, <2>2 DEF ConfigOK, TasksOK
<1>3. Referenced' /\ Filling' /\ Deleted'
  BY <1>0, <1>1 DEF Referenced, Filling, Deleted, HasRow, TasksOK, ListType
<1> QED
  BY <1>1, <1>2, <1>3 DEF IInv

LEMMA CheckDiesStep == ASSUME IInv, NEW c \in Checkers, CheckDies(c) PROVE IInv'
<1> USE Constants, IdleFacts DEF CheckDies, Checking, config, Done, At, Resting
<1>0. /\ RowsOK /\ TasksOK /\ ConfigOK /\ Referenced /\ Filling /\ Deleted
  BY DEF IInv
<1>1. /\ RowsOK' /\ HadOK' /\ LeakFree' /\ Taken' /\ OneHolder' /\ Spared' /\ NotOverfilled'
      /\ \A j \in Slots : HasRow(j)' <=> HasRow(j)
  BY <1>0, AsideFacts DEF config
<1>2. ConfigOK' /\ TasksOK'
  <2>1. /\ chk[c].slot \in Slots /\ checks[chk[c].slot] + 1 >= 0
        /\ checks \in [Slots -> 0..MaxQueued]
    BY <1>0 DEF Referenced, TasksOK, ConfigOK
  <2>2. checks' \in [Slots -> 0..MaxQueued]
    BY <2>1, CheckFacts
  <2> QED
    BY <1>0, <2>2 DEF ConfigOK, TasksOK
<1>3. Referenced' /\ Filling' /\ Deleted'
  BY <1>0, <1>1 DEF Referenced, Filling, Deleted, HasRow, TasksOK, ListType
<1> QED
  BY <1>1, <1>2, <1>3 DEF IInv

LEMMA CheckWritesStep == ASSUME IInv, NEW c \in Checkers, CheckWrites(c) PROVE IInv'
<1> DEFINE k == chk[c].slot
<1>0. /\ RowsOK /\ HadOK /\ TasksOK /\ ConfigOK /\ Referenced /\ Filling /\ Deleted /\ LeakFree
      /\ Taken /\ OneHolder /\ Spared /\ k \in Slots /\ HasRow(k) /\ chk[c].at = "write"
  BY DEF IInv, CheckWrites, Referenced, TasksOK
<1>1. /\ UNCHANGED <<live, made, aged, old, want, changes, asked, rec, sb, reap>>
      /\ chk' = [chk EXCEPT ![c] = Resting]
  BY DEF CheckWrites, Checking, Done, config
<1>2. CASE Fault /\ Check(k, 1) /\ UNCHANGED status
  <2>1. /\ RowsOK' /\ HadOK' /\ LeakFree' /\ Taken' /\ OneHolder' /\ Spared' /\ NotOverfilled'
        /\ \A j \in Slots : HasRow(j)' <=> HasRow(j)
    BY <1>1, <1>2, AsideFacts
  <2>2. checks' \in [Slots -> 0..MaxQueued]
    BY <1>0, <1>2, Constants, CheckFacts DEF ConfigOK
  <2>3. ConfigOK' /\ TasksOK' /\ Referenced' /\ Filling' /\ Deleted'
    BY <1>0, <1>1, <2>1, <2>2
    DEF ConfigOK, TasksOK, Referenced, Filling, Deleted, Resting, ListType
  <2> QED
    BY <2>1, <2>3 DEF IInv
<1>3. CASE Write(k, "warm") /\ Late(~Available(k)) /\ UNCHANGED checks
  <2>1. /\ HadOK' /\ had'.late = (had.late \/ ~Available(k)) /\ had'.lapse = had.lapse
        /\ had'.fault >= had.fault
    BY <1>0, <1>3, LateFacts DEF Available
  <2>2. /\ RowsOK' /\ \A j \in Slots : HasRow(j)' <=> HasRow(j)
        /\ \A j \in Slots : status'[j] = IF j = k THEN "warm" ELSE status[j]
    BY <1>0, <1>1, <1>3, WriteFacts DEF Status
  <2>3. ConfigOK' /\ TasksOK' /\ Referenced' /\ Filling' /\ Deleted'
    BY <1>0, <1>1, <1>3, <2>2
    DEF ConfigOK, TasksOK, Referenced, Filling, Deleted, Resting, ListType
  <2>4. LeakFree'
    BY <1>0, <1>1, <2>1, <2>2 DEF LeakFree, RowsOK, HadOK, HasRow
  <2>5. ~had'.late => ~had.late /\ Available(k) /\ ~Held(k)
    BY <2>1 DEF Available, Held
  <2>6. Taken' /\ OneHolder'
    BY <1>0, <1>1, <2>2, <2>5 DEF Taken, OneHolder, Reapable, Available, TasksOK, ListType
  <2>7. Spared'
    BY <1>0, <1>1, <2>1, <2>2, <2>5 DEF Spared, Reapable, Held, RowsOK
  <2>8. NotOverfilled'
    <3>1. ~had'.late => Current' \subseteq Current
      BY <1>1, <2>2, <2>5 DEF Current, Available
    <3>2. Missing' = Missing /\ Missing \in Nat
      BY <1>0, <1>1, Constants DEF Missing, TasksOK, ListType
    <3> QED
      BY <2>5, <3>1, <3>2, PoolShrinks
  <2> QED
    BY <2>1, <2>2, <2>3, <2>4, <2>6, <2>7, <2>8 DEF IInv
<1> QED
  BY <1>1, <1>2, <1>3 DEF CheckWrites

LEMMA CheckDeletesStep == ASSUME IInv, NEW c \in Checkers, CheckDeletes(c) PROVE IInv'
<1> DEFINE k == chk[c].slot
<1>0. /\ RowsOK /\ HadOK /\ TasksOK /\ ConfigOK /\ Referenced /\ Filling /\ Deleted /\ LeakFree
      /\ k \in Slots /\ HasRow(k) /\ chk[c].at = "delete"
  BY DEF IInv, CheckDeletes, Referenced, TasksOK
<1>1. UNCHANGED <<made, aged, old, want, changes, checks, rec, sb, reap>>
  BY DEF CheckDeletes, Checking, config
<1>2. \/ /\ live' = live \ {k} /\ chk' = [chk EXCEPT ![c].at = "mark"]
         /\ Late(Held(k)) /\ UNCHANGED <<status, asked>>
      \/ /\ LateFault(Held(k)) /\ Refused(k) /\ chk' = [chk EXCEPT ![c] = Resting]
         /\ Replaced /\ UNCHANGED live
  BY DEF CheckDeletes, At, Done
<1>3. /\ RowsOK' /\ HadOK' /\ Current' \subseteq Current /\ live' \subseteq live
      /\ had'.fault >= had.fault /\ (had.late => had'.late)
      /\ \A j \in Slots : HasRow(j)' <=> HasRow(j)
      /\ \A j \in live' : status'[j] # "error"
      /\ Taken' /\ OneHolder' /\ Spared'
  BY <1>0, <1>1, <1>2, DeleteFacts
<1>4. ConfigOK' /\ TasksOK'
  <2>1. asked' \in BOOLEAN
    BY <1>0, <1>2 DEF ConfigOK, Replaced, Ask
  <2>2. TasksOK'
    BY <1>0, <1>1, <1>2 DEF TasksOK, Resting
  <2> QED
    BY <1>0, <1>1, <2>1, <2>2 DEF ConfigOK
<1>5. Referenced' /\ Filling' /\ Deleted'
  BY <1>0, <1>1, <1>2, <1>3
  DEF Referenced, Filling, Deleted, Resting, TasksOK, ListType, ConfigOK
<1>6. LeakFree'
  BY <1>0, <1>1, <1>3 DEF LeakFree, RowsOK, HasRow, HadOK
<1>7. NotOverfilled'
  BY <1>0, <1>1, <1>3, PoolShrinks, Constants DEF Missing, TasksOK, ListType
<1> QED
  BY <1>3, <1>4, <1>5, <1>6, <1>7 DEF IInv

LEMMA CheckMarksStep == ASSUME IInv, NEW c \in Checkers, CheckMarks(c) PROVE IInv'
<1> DEFINE k == chk[c].slot
<1>0. /\ RowsOK /\ HadOK /\ TasksOK /\ ConfigOK /\ Referenced /\ Filling /\ Deleted /\ LeakFree
      /\ Taken /\ OneHolder /\ Spared
      /\ k \in Slots /\ HasRow(k) /\ k \notin live
  BY DEF IInv, CheckMarks, Referenced, Deleted, TasksOK
<1>1. /\ Write(k, "error") /\ chk' = [chk EXCEPT ![c] = Resting] /\ Replaced
      /\ UNCHANGED <<live, made, aged, old, had, want, changes, checks, rec, sb, reap>>
  BY DEF CheckMarks, Checking, Done, config
<1>2. /\ RowsOK' /\ HadOK' /\ Current' \subseteq Current
      /\ \A j \in Slots : HasRow(j)' <=> HasRow(j)
      /\ \A j \in Slots : status'[j] = IF j = k THEN "error" ELSE status[j]
      /\ \A j \in live' : status'[j] # "error"
  BY <1>0, <1>1, MarkFacts
<1>3. ConfigOK' /\ TasksOK'
  BY <1>0, <1>1 DEF ConfigOK, TasksOK, Resting, Replaced, Ask
<1>4. Referenced' /\ Filling' /\ Deleted'
  BY <1>0, <1>1, <1>2
  DEF Referenced, Filling, Deleted, Resting, TasksOK, ListType, ConfigOK
<1>5. LeakFree'
  BY <1>0, <1>1, <1>2 DEF LeakFree, HasRow, RowsOK
<1>6. Taken' /\ OneHolder'
  BY <1>0, <1>1, <1>2 DEF Taken, OneHolder, Reapable, Available, TasksOK, ListType
<1>7. Spared'
  BY <1>0, <1>1, <1>2 DEF Spared, Reapable, RowsOK
<1>8. NotOverfilled'
  BY <1>0, <1>1, <1>2, PoolShrinks, Constants DEF Missing, TasksOK, ListType
<1> QED
  BY <1>2, <1>3, <1>4, <1>5, <1>6, <1>7, <1>8 DEF IInv
-----------------------------------------------------------------------------
(* The creation of a sandbox.                                                *)

LEMMA ClaimStep == ASSUME IInv, NEW s \in Sandboxes, Claim(s) PROVE IInv'
<1>0. /\ RowsOK /\ HadOK /\ TasksOK /\ ConfigOK /\ Referenced /\ Filling /\ Deleted /\ LeakFree
      /\ Taken /\ OneHolder /\ Spared
  BY DEF IInv
<1>1. UNCHANGED <<live, made, old, want, changes, checks, rec, chk, reap>>
  BY DEF Claim, Creating, config
<1>2. CASE Ended(s) /\ Ask /\ UNCHANGED <<status, aged, had>>
  <2>1. sb' = [sb EXCEPT ![s] = [at |-> "ended", slot |-> None]]
    BY <1>2 DEF Ended
  <2>2. RowsOK' /\ HadOK' /\ ConfigOK' /\ TasksOK'
    BY <1>0, <1>1, <1>2, <2>1 DEF RowsOK, HadOK, ConfigOK, TasksOK, Ask
  <2>3. Referenced' /\ Filling' /\ Deleted' /\ LeakFree'
    BY <1>0, <1>1, <1>2, <2>1
    DEF Referenced, Filling, Deleted, LeakFree, HasRow, TasksOK, ListType
  <2>4. Taken' /\ OneHolder' /\ Spared'
    BY <1>0, <1>1, <1>2, <2>1
    DEF Taken, OneHolder, Spared, Reapable, Available, TasksOK
  <2>5. NotOverfilled'
    BY <1>1, <1>2 DEF IInv, NotOverfilled, Current, Missing, Available
  <2> QED
    BY <2>2, <2>3, <2>4, <2>5 DEF IInv
<1>3. ASSUME NEW k \in Warm, Write(k, "claiming"), aged' = aged \ {k},
             NEW step \in {"wait", "delete"},
             sb' = [sb EXCEPT ![s] = [at |-> step, slot |-> k]],
             IF step = "delete" THEN Fault ELSE UNCHANGED had, UNCHANGED asked
      PROVE  IInv'
  <2>1. k \in Slots /\ Available(k) /\ HasRow(k) /\ status[k] = "warm"
    BY DEF Warm, Available, HasRow
  <2>2. /\ HadOK' /\ had'.late = had.late /\ had'.lapse = had.lapse /\ had'.fault >= had.fault
        /\ had.fault \in Nat /\ had'.fault \in Nat
    BY <1>0, <1>3, TroubleFacts DEF HadOK, Fault
  <2>3. /\ RowsOK' /\ \A j \in Slots : HasRow(j)' <=> HasRow(j)
        /\ \A j \in Slots : status'[j] = IF j = k THEN "claiming" ELSE status[j]
    BY <1>0, <1>1, <1>3, <2>1, WriteFacts DEF Status
  <2>4. /\ sb'[s].slot = k /\ sb'[s].at = step
        /\ \A t \in Sandboxes : t # s => sb'[t] = sb[t]
    BY <1>0, <1>3 DEF TasksOK
  <2>5. ConfigOK' /\ TasksOK'
    BY <1>0, <1>1, <1>3, <2>1 DEF ConfigOK, TasksOK
  <2>6. Referenced' /\ Filling' /\ Deleted'
    BY <1>0, <1>1, <1>3, <2>1, <2>3, <2>4, Constants
    DEF Referenced, Filling, Deleted, TasksOK, ListType, ConfigOK
  <2>7. LeakFree'
    BY <1>0, <1>1, <2>2, <2>3 DEF LeakFree, RowsOK, HasRow
  <2>8. ~had.late => k \notin Reapable /\ \A t \in Sandboxes : sb[t].slot # k
    BY <1>0, <2>1, Constants DEF Taken
  <2>9. Taken' /\ OneHolder'
    <3>1. Taken'
      <4> SUFFICES ASSUME ~had.late
                   PROVE  /\ \A t \in Sandboxes : sb'[t].slot # None =>
                                status'[sb'[t].slot] \notin {"warming", "warm"}
                          /\ \A j \in Reapable : status'[j] \notin {"warming", "warm"}
        BY <1>1, <2>2 DEF Taken, Reapable, Available
      <4>1. \A t \in Sandboxes : sb[t].slot \in Slots \cup {None}
        BY <1>0 DEF TasksOK
      <4>2. \A j \in Slots : status'[j] \in {"warming", "warm"} => Available(j) /\ j # k
        BY <2>3 DEF Available
      <4>3. Reapable \subseteq Slots
        BY <1>0 DEF Reapable, TasksOK, ListType
      <4>4. \A t \in Sandboxes : sb[t].slot # None => ~Available(sb[t].slot)
        BY <1>0 DEF Taken
      <4>5. \A j \in Reapable : ~Available(j)
        BY <1>0 DEF Taken
      <4> QED
        BY <2>1, <2>4, <4>1, <4>2, <4>3, <4>4, <4>5
    <3>2. OneHolder'
      BY <1>0, <2>2, <2>4, <2>8 DEF OneHolder
    <3> QED
      BY <3>1, <3>2
  <2>10. Spared'
    <3> SUFFICES ASSUME ~had.late, had.lapse = 0, NEW t \in Sandboxes
                 PROVE  /\ sb'[t].at \in {"confirm", "up"} => sb'[t].slot \in live
                        /\ sb'[t].at = "up" => status'[sb'[t].slot] = "claimed"
                        /\ sb'[t].at \in {"wait", "confirm"} /\ sb'[t].slot \in live =>
                              /\ status'[sb'[t].slot] = "claiming"
                              /\ sb'[t].slot \notin aged' \cup Reapable
      BY <1>1, <2>2 DEF Spared, Reapable
    <3>1. CASE t = s
      BY <1>3, <2>1, <2>3, <2>4, <2>8, <3>1
    <3>2. CASE t # s
      BY <1>0, <1>1, <1>3, <2>1, <2>3, <2>4, <2>8, <3>2 DEF Spared, Reapable, RowsOK
    <3> QED
      BY <3>1, <3>2
  <2>11. NotOverfilled'
    <3>1. Current' \subseteq Current
      BY <1>1, <2>3 DEF Current, Available
    <3>2. Missing' = Missing /\ Missing \in Nat
      BY <1>0, <1>1, Constants DEF Missing, TasksOK, ListType
    <3> QED
      BY <2>2, <3>1, <3>2, PoolShrinks
  <2> QED
    BY <2>2, <2>3, <2>5, <2>6, <2>7, <2>9, <2>10, <2>11 DEF IInv
<1> QED
  BY <1>2, <1>3 DEF Claim

LEMMA GoesFacts ==
    ASSUME TasksOK, NEW s \in Sandboxes, NEW step, Goes(s, step)
    PROVE  sb' = [sb EXCEPT ![s] = [at |-> step, slot |-> sb[s].slot]]
<1>1. [sb[s] EXCEPT !.at = step] = [at |-> step, slot |-> sb[s].slot]
  BY DEF TasksOK
<1>2. sb' = [sb EXCEPT ![s] = [sb[s] EXCEPT !.at = step]]
  BY DEF Goes
<1> QED
  BY <1>1, <1>2

\* A step of a sandbox's creation that touches neither rows nor resources, and leaves the
\* slot or lets it go.
LEMMA CreationFacts ==
    ASSUME IInv, NEW s \in Sandboxes, UNCHANGED <<status, live, made, config, tasks, rec, chk,
           aged, reap>>, Fault \/ UNCHANGED had,
           NEW step \in {"confirm", "delete", "ended"},
           sb[s].at \notin {"new", "ended"},
           step = "confirm" => sb[s].at = "wait" /\ sb[s].slot \in live,
           sb' = [sb EXCEPT ![s] = [at |-> step,
                                    slot |-> IF step = "ended" THEN None ELSE sb[s].slot]]
    PROVE  IInv'
<1>0. /\ RowsOK /\ HadOK /\ TasksOK /\ ConfigOK /\ Referenced /\ Filling /\ Deleted /\ LeakFree
      /\ Taken /\ OneHolder /\ Spared
  BY DEF IInv
<1>1. /\ HadOK' /\ had'.late = had.late /\ had'.lapse = had.lapse /\ had'.fault >= had.fault
      /\ had.fault \in Nat /\ had'.fault \in Nat
  <2>1. CASE Fault
    BY <1>0, <2>1, TroubleFacts DEF Fault, HadOK
  <2>2. CASE UNCHANGED had
    BY <1>0, <2>2, Constants DEF HadOK
  <2> QED
    BY <2>1, <2>2
<1>2. UNCHANGED <<old, want, changes, asked, checks>>
  BY DEF config, tasks
<1>3. /\ sb'[s].at = step /\ sb'[s].slot \in {sb[s].slot, None}
      /\ step # "ended" => sb'[s].slot = sb[s].slot
      /\ \A t \in Sandboxes : t # s => sb'[t] = sb[t]
      /\ sb[s].slot \in Slots
  BY <1>0 DEF TasksOK, Referenced
<1>4. RowsOK' /\ ConfigOK' /\ TasksOK'
  BY <1>0, <1>2, <1>3 DEF RowsOK, ConfigOK, TasksOK
<1>5. Referenced' /\ Filling' /\ Deleted' /\ LeakFree'
  BY <1>0, <1>1, <1>2, <1>3, Constants DEF Referenced, Filling, Deleted, LeakFree, HasRow
<1>6. Taken' /\ OneHolder'
  BY <1>0, <1>1, <1>3 DEF Taken, OneHolder, Reapable, Available
<1>7. Spared'
  BY <1>0, <1>1, <1>3 DEF Spared, Reapable
<1>8. NotOverfilled'
  BY <1>1, <1>2 DEF IInv, NotOverfilled, Current, Missing, Available
<1> QED
  BY <1>1, <1>4, <1>5, <1>6, <1>7, <1>8 DEF IInv

LEMMA ReachStep == ASSUME IInv, NEW s \in Sandboxes, Reach(s) PROVE IInv'
<1>0. TasksOK /\ sb[s].at = "wait"
  BY DEF IInv, Reach
<1>1. PICK step \in {"confirm", "delete"} :
        Goes(s, step) /\ (Fault \/ UNCHANGED had) /\ (step = "confirm" => sb[s].slot \in live)
  BY DEF Reach
<1>2. sb' = [sb EXCEPT ![s] = [at |-> step, slot |-> sb[s].slot]]
  BY <1>0, <1>1, GoesFacts
<1> QED
  BY <1>0, <1>1, <1>2, CreationFacts DEF Reach, Creating, tasks

LEMMA CreatorDiesStep == ASSUME IInv, NEW s \in Sandboxes, CreatorDies(s) PROVE IInv'
BY CreationFacts DEF CreatorDies, Claiming, Ended, Creating, tasks

LEMMA ConfirmStep == ASSUME IInv, NEW s \in Sandboxes, Confirm(s) PROVE IInv'
<1> DEFINE k == sb[s].slot
<1>0. /\ RowsOK /\ HadOK /\ TasksOK /\ ConfigOK /\ Referenced /\ Filling /\ Deleted /\ LeakFree
      /\ Taken /\ OneHolder /\ Spared
      /\ k \in Slots /\ HasRow(k) /\ sb[s].at = "confirm"
  BY DEF IInv, Confirm, Referenced, TasksOK
<1>1. CASE Ended(s) /\ Fault /\ UNCHANGED <<status, aged, asked>>
  BY <1>0, <1>1, CreationFacts DEF Confirm, Ended, Creating, tasks
<1>2. CASE /\ Write(k, "claimed") /\ aged' = aged \ {k} /\ Goes(s, "up") /\ Ask
           /\ UNCHANGED had
  <2>1. UNCHANGED <<live, made, old, want, changes, checks, rec, chk, reap>>
    BY DEF Confirm, Creating, config
  <2>2. /\ RowsOK' /\ \A j \in Slots : HasRow(j)' <=> HasRow(j)
        /\ \A j \in Slots : status'[j] = IF j = k THEN "claimed" ELSE status[j]
    BY <1>0, <1>2, <2>1, WriteFacts DEF Status
  <2>3. /\ sb'[s].at = "up" /\ sb'[s].slot = k
        /\ \A t \in Sandboxes : t # s => sb'[t] = sb[t]
        /\ TasksOK'
    BY <1>0, <1>2, <2>1 DEF TasksOK, Goes
  <2>4. HadOK' /\ ConfigOK'
    BY <1>0, <1>2, <2>1 DEF HadOK, ConfigOK, Ask
  <2>5. Referenced' /\ Filling' /\ Deleted'
    BY <1>0, <2>1, <2>2, <2>3, Constants
    DEF Referenced, Filling, Deleted, TasksOK, ListType, ConfigOK
  <2>6. LeakFree'
    BY <1>0, <1>2, <2>1, <2>2 DEF LeakFree, RowsOK, HasRow
  <2>7. \A j \in Slots : Available(j)' => Available(j)
    BY <2>2 DEF Available
  <2>8. Taken' /\ OneHolder'
    BY <1>0, <1>2, <2>1, <2>3, <2>7 DEF Taken, OneHolder, Reapable, TasksOK, ListType
  <2>9a. ~had.late => \A t \in Sandboxes : t # s => sb[t].slot # k
    BY <1>0, Constants DEF OneHolder
  <2>9. Spared'
    BY <1>0, <1>2, <2>1, <2>2, <2>3, <2>9a DEF Spared, Reapable, TasksOK, Referenced
  <2>10. NotOverfilled'
    BY <1>2, <2>1, <2>7, <1>0, Constants, PoolShrinks
    DEF Current, Missing, TasksOK, ListType
  <2> QED
    BY <2>2, <2>3, <2>4, <2>5, <2>6, <2>8, <2>9, <2>10 DEF IInv
<1> QED
  BY <1>1, <1>2 DEF Confirm

LEMMA GiveBackStep == ASSUME IInv, NEW s \in Sandboxes, GiveBack(s) PROVE IInv'
<1> DEFINE k == sb[s].slot
<1>0. /\ RowsOK /\ HadOK /\ TasksOK /\ ConfigOK /\ Referenced /\ Filling /\ Deleted /\ LeakFree
      /\ Taken /\ OneHolder /\ Spared
      /\ k \in Slots /\ HasRow(k) /\ sb[s].at = "delete"
  BY DEF IInv, GiveBack, Referenced, TasksOK
<1>1. UNCHANGED <<made, aged, old, want, changes, asked, checks, rec, chk, reap>>
  BY DEF GiveBack, Creating, config
<1>2. \/ live' = live \ {k} /\ sb' = [sb EXCEPT ![s] = [at |-> "mark", slot |-> k]]
         /\ UNCHANGED <<status, had>>
      \/ /\ Fault /\ Refused(k) /\ UNCHANGED live
         /\ sb' = [sb EXCEPT ![s] = [at |-> "ended", slot |-> None]]
  BY <1>0, GoesFacts DEF GiveBack, Ended
<1>3. /\ HadOK' /\ had'.late = had.late /\ had'.lapse = had.lapse /\ had'.fault >= had.fault
      /\ had.fault \in Nat /\ had'.fault \in Nat
  <2>1. CASE Fault
    BY <1>0, <2>1, TroubleFacts DEF Fault, HadOK
  <2>2. CASE UNCHANGED had
    BY <1>0, <2>2, Constants DEF HadOK
  <2> QED
    BY <1>2, <2>1, <2>2
<1>4. /\ \/ sb'[s].at = "mark" /\ sb'[s].slot = k /\ k \notin live'
         \/ sb'[s].at = "ended" /\ sb'[s].slot = None
      /\ \A t \in Sandboxes : t # s => sb'[t] = sb[t]
      /\ TasksOK'
  <2>1. CASE sb' = [sb EXCEPT ![s] = [at |-> "mark", slot |-> k]] /\ live' = live \ {k}
    <3>1. TasksOK'
      BY <1>0, <1>1, <2>1 DEF TasksOK
    <3> QED
      BY <1>0, <2>1, <3>1 DEF TasksOK
  <2>2. CASE sb' = [sb EXCEPT ![s] = [at |-> "ended", slot |-> None]]
    BY <1>0, <1>1, <2>2 DEF TasksOK
  <2> QED
    BY <1>2, <2>1, <2>2
<1>5. /\ RowsOK' /\ \A j \in Slots : HasRow(j)' <=> HasRow(j)
      /\ \A j \in Slots : j # k => status'[j] = status[j] /\ (j \in live => j \in live')
      /\ \/ status'[k] = status[k] /\ k \notin live'
         \/ status'[k] = "deleting"
      /\ live' \subseteq live
  <2>1. CASE live' = live \ {k} /\ UNCHANGED status
    BY <1>0, <1>1, <2>1 DEF RowsOK, HasRow
  <2>2. CASE UNCHANGED live /\ Refused(k)
    BY <1>0, <1>1, <2>2, WriteFacts DEF Refused, Status
  <2> QED
    BY <1>2, <2>1, <2>2
<1>6. ConfigOK'
  BY <1>0, <1>1 DEF ConfigOK
<1>7. Referenced' /\ Filling'
  BY <1>0, <1>1, <1>4, <1>5, Constants DEF Referenced, Filling, TasksOK, ListType, ConfigOK
<1>8. Deleted' /\ LeakFree'
  BY <1>0, <1>1, <1>3, <1>4, <1>5 DEF Deleted, LeakFree, HasRow, RowsOK
<1>9. \A j \in Slots : Available(j)' => Available(j)
  BY <1>5 DEF Available
<1>10. Taken' /\ OneHolder'
  <2>1. Reapable' = Reapable /\ Reapable \subseteq Slots
    BY <1>0, <1>1 DEF Reapable, TasksOK, ListType
  <2>2. \A t \in Sandboxes : /\ sb'[t].slot \in {sb[t].slot, None}
                            /\ sb[t].slot \in Slots \cup {None}
    BY <1>0, <1>4 DEF TasksOK
  <2>3. Taken'
    BY <1>0, <1>3, <1>9, <2>1, <2>2 DEF Taken
  <2>4. OneHolder'
    BY <1>0, <1>3, <2>2 DEF OneHolder
  <2> QED
    BY <2>3, <2>4
<1>11a. ~had.late => \A t \in Sandboxes : t # s => sb[t].slot # k
  BY <1>0, Constants DEF OneHolder
<1>11. Spared'
  BY <1>0, <1>1, <1>3, <1>4, <1>5, <1>11a DEF Spared, Reapable, TasksOK, Referenced
<1>12. NotOverfilled'
  BY <1>0, <1>1, <1>3, <1>9, Constants, PoolShrinks DEF Current, Missing, TasksOK, ListType
<1> QED
  BY <1>3, <1>4, <1>5, <1>6, <1>7, <1>8, <1>10, <1>11, <1>12 DEF IInv

LEMMA GivenBackStep == ASSUME IInv, NEW s \in Sandboxes, GivenBack(s) PROVE IInv'
<1> DEFINE k == sb[s].slot
<1>0. /\ RowsOK /\ HadOK /\ TasksOK /\ ConfigOK /\ Referenced /\ Filling /\ Deleted /\ LeakFree
      /\ Taken /\ OneHolder /\ Spared
      /\ k \in Slots /\ HasRow(k) /\ sb[s].at = "mark" /\ k \notin live
  BY DEF IInv, GivenBack, Referenced, Deleted, TasksOK
<1>1. /\ Write(k, "error")
      /\ sb' = [sb EXCEPT ![s] = [at |-> "ended", slot |-> None]]
      /\ UNCHANGED <<live, made, aged, old, had, want, changes, asked, checks, rec, chk, reap>>
  BY DEF GivenBack, Creating, Ended, config
<1>2. /\ RowsOK' /\ HadOK' /\ Current' \subseteq Current
      /\ \A j \in Slots : HasRow(j)' <=> HasRow(j)
      /\ \A j \in Slots : status'[j] = IF j = k THEN "error" ELSE status[j]
      /\ \A j \in live' : status'[j] # "error"
  BY <1>0, <1>1, MarkFacts
<1>3. /\ sb'[s].at = "ended" /\ sb'[s].slot = None
      /\ \A t \in Sandboxes : t # s => sb'[t] = sb[t]
      /\ ConfigOK' /\ TasksOK'
  BY <1>0, <1>1 DEF ConfigOK, TasksOK
<1>4. Referenced' /\ Filling' /\ Deleted'
  BY <1>0, <1>1, <1>2, <1>3
  DEF Referenced, Filling, Deleted, TasksOK, ListType, ConfigOK
<1>5. LeakFree'
  BY <1>0, <1>1, <1>2 DEF LeakFree, HasRow, RowsOK
<1>6. Taken' /\ OneHolder'
  BY <1>0, <1>1, <1>2, <1>3 DEF Taken, OneHolder, Reapable, Available, TasksOK, ListType
<1>7a. ~had.late => \A t \in Sandboxes : t # s => sb[t].slot # k
  BY <1>0, Constants DEF OneHolder
<1>7. Spared'
  BY <1>0, <1>1, <1>2, <1>3, <1>7a DEF Spared, Reapable, TasksOK, Referenced
<1>8. NotOverfilled'
  BY <1>0, <1>1, <1>2, PoolShrinks, Constants DEF Missing, TasksOK, ListType
<1> QED
  BY <1>2, <1>3, <1>4, <1>5, <1>6, <1>7, <1>8 DEF IInv
-----------------------------------------------------------------------------
(* The reaper.                                                               *)

LEMMA AgeStep == ASSUME IInv, NEW k \in Slots, Age(k) PROVE IInv'
<1>0. /\ RowsOK /\ HadOK /\ TasksOK /\ ConfigOK /\ Referenced /\ Filling /\ Deleted /\ LeakFree
      /\ Taken /\ OneHolder /\ Spared
  BY DEF IInv
<1>1. /\ UNCHANGED <<status, live, made, want, changes, old, asked, checks, rec, chk, sb, reap>>
      /\ aged' = aged \cup {k} /\ status[k] = "claiming"
      /\ IF \E s \in Sandboxes : Claiming(s) /\ sb[s].slot = k THEN Trouble("lapse")
         ELSE UNCHANGED had
  BY DEF Age, Reaping, config, tasks
<1>2. /\ HadOK' /\ had'.late = had.late /\ had'.fault >= had.fault
      /\ had.fault \in Nat /\ had'.fault \in Nat
      /\ \/ had'.lapse > 0
         \/ had'.lapse = had.lapse /\ \A s \in Sandboxes : Claiming(s) => sb[s].slot # k
  <2>1. CASE Trouble("lapse")
    <3>1. HadOK' /\ had'.late = had.late /\ had'["lapse"] > 0 /\ had'.fault >= had.fault
      BY <1>0, <2>1, TroubleFacts
    <3> QED
      BY <1>0, <3>1 DEF HadOK
  <2>2. CASE UNCHANGED had
    BY <1>0, <1>1, <2>2, Constants DEF HadOK, Trouble
  <2> QED
    BY <1>1, <2>1, <2>2
<1>3. RowsOK' /\ ConfigOK' /\ TasksOK'
  BY <1>0, <1>1 DEF RowsOK, ConfigOK, TasksOK
<1>4. Referenced' /\ Filling' /\ Deleted' /\ LeakFree'
  BY <1>0, <1>1, <1>2 DEF Referenced, Filling, Deleted, LeakFree, HasRow
<1>5. Taken' /\ OneHolder'
  BY <1>0, <1>1, <1>2 DEF Taken, OneHolder, Reapable, Available
<1>6. Spared'
  BY <1>0, <1>1, <1>2 DEF Spared, Reapable, Claiming
<1>7. NotOverfilled'
  BY <1>1, <1>2 DEF IInv, NotOverfilled, Current, Missing, Available
<1> QED
  BY <1>2, <1>3, <1>4, <1>5, <1>6, <1>7 DEF IInv

LEMMA ReapListsStep == ASSUME IInv, ReapLists PROVE IInv'
<1>0. /\ RowsOK /\ HadOK /\ TasksOK /\ ConfigOK /\ Referenced /\ Filling /\ Deleted /\ LeakFree
      /\ Taken /\ OneHolder /\ Spared
  BY DEF IInv
<1>1. /\ UNCHANGED <<status, live, made, aged, had, want, changes, old, asked, checks, rec, chk, sb>>
      /\ reap' = [Idle EXCEPT !.at = "reap", !.todo = Stale]
  BY DEF ReapLists, Reaping, config, tasks
<1>2. reap' \in ListType /\ reap'.todo = Stale /\ reap'.slot = None /\ Stale \subseteq Slots
  BY <1>1, IdleFacts, Constants DEF ListType, Stale, Steps, Idle
<1>3. RowsOK' /\ HadOK' /\ ConfigOK' /\ TasksOK'
  BY <1>0, <1>1, <1>2 DEF RowsOK, HadOK, ConfigOK, TasksOK
<1>4. \A k \in Stale : HasRow(k) /\ ~Available(k) /\ (status[k] = "claiming" => k \in aged)
  BY DEF Stale, HasRow, Available
<1>5. Referenced' /\ Filling' /\ Deleted' /\ LeakFree'
  BY <1>0, <1>1, <1>2, <1>4 DEF Referenced, Filling, Deleted, LeakFree, HasRow
<1>6. Taken' /\ OneHolder'
  BY <1>0, <1>1, <1>2, <1>4 DEF Taken, OneHolder, Reapable, Available
<1>7. Spared'
  BY <1>0, <1>1, <1>2, <1>4 DEF Spared, Reapable
<1>8. NotOverfilled'
  BY <1>1 DEF IInv, NotOverfilled, Current, Missing, Available
<1> QED
  BY <1>3, <1>5, <1>6, <1>7, <1>8 DEF IInv

\* What is left on the reaper's list after one slot.
LEMMA ReapNextFacts ==
    ASSUME reap \in ListType, reap.at = "reap", NEW k \in Slots, ReapNext(k)
    PROVE  reap' \in ListType /\ reap'.todo \subseteq reap.todo /\ reap'.slot = None
BY IdleFacts DEF ReapNext, ListType

LEMMA ReapDeletesStep == ASSUME IInv, ReapDeletes PROVE IInv'
<1>0. /\ RowsOK /\ HadOK /\ TasksOK /\ ConfigOK /\ Referenced /\ Filling /\ Deleted /\ LeakFree
      /\ Taken /\ OneHolder /\ Spared /\ reap \in ListType
  BY DEF IInv, TasksOK
<1>1. /\ UNCHANGED <<status, made, aged, want, changes, old, asked, checks, rec, chk, sb>>
      /\ reap.at = "reap"
  BY DEF ReapDeletes, Reaping, config, tasks
<1>2. PICK k \in reap.todo :
        \/ /\ live' = live \ {k} /\ reap' = [reap EXCEPT !.slot = k]
           /\ Late(status[k] = "claimed")
        \/ Fault /\ ReapNext(k) /\ UNCHANGED live
  BY DEF ReapDeletes
<1>3. k \in Slots /\ HasRow(k) /\ k \in Reapable
  BY <1>0 DEF ListType, Referenced, Reapable
<1>4. /\ HadOK' /\ had'.lapse = had.lapse /\ had'.fault >= had.fault
      /\ had.fault \in Nat /\ had'.fault \in Nat
      /\ (had.late => had'.late)
      /\ (live' # live /\ ~had'.late => status[k] # "claimed")
  <2>1. CASE Late(status[k] = "claimed")
    <3>1. HadOK' /\ had'.late = (had.late \/ status[k] = "claimed") /\ had'.lapse = had.lapse
          /\ had'.fault >= had.fault
      BY <1>0, <2>1, LateFacts
    <3> QED
      BY <1>0, <3>1 DEF HadOK
  <2>2. CASE Fault /\ UNCHANGED live
    BY <1>0, <2>2, TroubleFacts DEF Fault, HadOK
  <2> QED
    BY <1>2, <2>1, <2>2
<1>5. /\ reap' \in ListType /\ reap'.todo \subseteq reap.todo
      /\ \/ reap'.slot = None
         \/ reap'.slot = k /\ k \notin live'
      /\ Reapable' \subseteq Reapable /\ live' \subseteq live
      /\ \A j \in live : j # k => j \in live'
  <2>1. CASE live' = live \ {k} /\ reap' = [reap EXCEPT !.slot = k]
    BY <1>0, <1>3, <2>1 DEF ListType, Reapable
  <2>2. CASE ReapNext(k) /\ UNCHANGED live
    BY <1>0, <1>1, <1>3, <2>2, ReapNextFacts DEF Reapable
  <2> QED
    BY <1>2, <2>1, <2>2
<1>6. RowsOK' /\ ConfigOK' /\ TasksOK'
  BY <1>0, <1>1, <1>5 DEF RowsOK, ConfigOK, TasksOK
<1>7. Referenced' /\ Filling' /\ Deleted' /\ LeakFree'
  BY <1>0, <1>1, <1>3, <1>4, <1>5 DEF Referenced, Filling, Deleted, LeakFree, HasRow
<1>8. Taken' /\ OneHolder'
  BY <1>0, <1>1, <1>4, <1>5 DEF Taken, OneHolder, Available
<1>9. Spared'
  <2> SUFFICES ASSUME ~had'.late, had.lapse = 0, NEW t \in Sandboxes
               PROVE  /\ sb[t].at \in {"confirm", "up"} => sb[t].slot \in live'
                      /\ sb[t].at = "up" => status[sb[t].slot] = "claimed"
                      /\ sb[t].at \in {"wait", "confirm"} /\ sb[t].slot \in live' =>
                            /\ status[sb[t].slot] = "claiming"
                            /\ sb[t].slot \notin aged \cup Reapable'
    BY <1>1, <1>4 DEF Spared
  <2>1. /\ sb[t].at \in {"confirm", "up"} => sb[t].slot \in live
        /\ sb[t].at = "up" => status[sb[t].slot] = "claimed"
        /\ sb[t].at \in {"wait", "confirm"} /\ sb[t].slot \in live =>
              /\ status[sb[t].slot] = "claiming"
              /\ sb[t].slot \notin aged \cup Reapable
    BY <1>0, <1>4 DEF Spared
  <2> QED
    BY <1>3, <1>4, <1>5, <2>1
<1>10. NotOverfilled'
  BY <1>1, <1>4 DEF IInv, NotOverfilled, Current, Missing, Available
<1> QED
  BY <1>4, <1>6, <1>7, <1>8, <1>9, <1>10 DEF IInv

LEMMA ReapMarksStep == ASSUME IInv, ReapMarks PROVE IInv'
<1> DEFINE k == reap.slot
<1>0. /\ RowsOK /\ HadOK /\ TasksOK /\ ConfigOK /\ Referenced /\ Filling /\ Deleted /\ LeakFree
      /\ Taken /\ OneHolder /\ Spared /\ reap \in ListType
      /\ k \in Slots /\ HasRow(k) /\ k \notin live /\ k \in Reapable
  BY DEF IInv, TasksOK, ReapMarks, ListType, Referenced, Deleted, Reapable
<1>1. /\ UNCHANGED <<live, made, aged, want, changes, old, asked, checks, rec, chk, sb>>
      /\ reap.at = "reap" /\ ReapNext(k)
      /\ \/ Write(k, "error") /\ UNCHANGED had
         \/ Fault /\ UNCHANGED status
  BY DEF ReapMarks, Reaping, config, tasks
<1>2. /\ HadOK' /\ had'.late = had.late /\ had'.lapse = had.lapse /\ had'.fault >= had.fault
      /\ had.fault \in Nat /\ had'.fault \in Nat
  <2>1. CASE Fault
    BY <1>0, <2>1, TroubleFacts DEF Fault, HadOK
  <2>2. CASE UNCHANGED had
    BY <1>0, <2>2, Constants DEF HadOK
  <2> QED
    BY <1>1, <2>1, <2>2
<1>3. /\ RowsOK' /\ \A j \in Slots : HasRow(j)' <=> HasRow(j)
      /\ \A j \in Slots : j # k => status'[j] = status[j]
      /\ status'[k] \in {status[k], "error"}
  <2>1. CASE Write(k, "error")
    BY <1>0, <1>1, <2>1, WriteFacts DEF Status
  <2>2. CASE UNCHANGED status
    BY <1>0, <1>1, <2>2 DEF RowsOK, HasRow
  <2> QED
    BY <1>1, <2>1, <2>2
<1>4. /\ reap' \in ListType /\ reap'.todo \subseteq reap.todo /\ reap'.slot = None
      /\ Reapable' \subseteq Reapable
  BY <1>0, <1>1, ReapNextFacts DEF Reapable
<1>5. ConfigOK' /\ TasksOK'
  BY <1>0, <1>1, <1>4 DEF ConfigOK, TasksOK
<1>6. Referenced' /\ Filling' /\ Deleted' /\ LeakFree'
  <2>1. Referenced'
    BY <1>0, <1>1, <1>3, <1>4 DEF Referenced, TasksOK, ListType, ConfigOK
  <2>2. Filling' /\ Deleted'
    BY <1>0, <1>1, <1>3, <1>4 DEF Filling, Deleted, TasksOK, ListType
  <2>3. LeakFree'
    BY <1>0, <1>1, <1>2, <1>3 DEF LeakFree, RowsOK, HasRow
  <2> QED
    BY <2>1, <2>2, <2>3
<1>7. \A j \in Slots : Available(j)' => Available(j)
  BY <1>3 DEF Available
<1>8. Taken' /\ OneHolder'
  BY <1>0, <1>1, <1>2, <1>4, <1>7 DEF Taken, OneHolder, Reapable, TasksOK, ListType
<1>9. Spared'
  <2> SUFFICES ASSUME ~had.late, had.lapse = 0, NEW t \in Sandboxes
               PROVE  /\ sb[t].at \in {"confirm", "up"} => sb[t].slot \in live
                      /\ sb[t].at = "up" => status'[sb[t].slot] = "claimed"
                      /\ sb[t].at \in {"wait", "confirm"} /\ sb[t].slot \in live =>
                            /\ status'[sb[t].slot] = "claiming"
                            /\ sb[t].slot \notin aged \cup Reapable'
    BY <1>1, <1>2 DEF Spared
  <2>1. /\ sb[t].at \in {"confirm", "up"} => sb[t].slot \in live
        /\ sb[t].at = "up" => status[sb[t].slot] = "claimed"
        /\ sb[t].at \in {"wait", "confirm"} /\ sb[t].slot \in live =>
              /\ status[sb[t].slot] = "claiming"
              /\ sb[t].slot \notin aged \cup Reapable
    BY <1>0 DEF Spared
  <2>2. \A j \in live : j \in Slots /\ j # k
    BY <1>0 DEF RowsOK
  <2> QED
    BY <1>3, <1>4, <2>1, <2>2
<1>10. NotOverfilled'
  BY <1>0, <1>1, <1>2, <1>7, Constants, PoolShrinks DEF Current, Missing, TasksOK, ListType
<1> QED
  BY <1>2, <1>3, <1>5, <1>6, <1>8, <1>9, <1>10 DEF IInv
-----------------------------------------------------------------------------
\* Every step keeps the invariant.
LEMMA NextIInv == IInv /\ [Next]_vars => IInv'
<1> SUFFICES ASSUME IInv, [Next]_vars PROVE IInv'
  OBVIOUS
<1>1. CASE Reconciles \/ ReconcileDies
  BY <1>1, StartStep, DropStep, DroppedStep, CountStep, TrimmedStep, ProvisionStep,
     InsertStep, RecheckStep, ReconcileDiesStep DEF Reconciles
<1>2. CASE \E c \in Checkers : Checks(c) \/ CheckDies(c)
  BY <1>2, CheckStartsStep, ProbeStep, CheckWritesStep, CheckDeletesStep, CheckMarksStep,
     CheckDiesStep DEF Checks
<1>3. CASE \E s \in Sandboxes : Creates(s) \/ CreatorDies(s)
  BY <1>3, ClaimStep, ReachStep, ConfirmStep, GiveBackStep, GivenBackStep, CreatorDiesStep
  DEF Creates
<1>4. CASE (\E k \in Slots : Age(k)) \/ Reaps
  BY <1>4, AgeStep, ReapListsStep, ReapDeletesStep, ReapMarksStep DEF Reaps
<1>5. CASE \E n \in 0..MaxWant : Configure(n)
  BY <1>5, ConfigureStep
<1>6. CASE Quiet \/ UNCHANGED vars
  <2>1. UNCHANGED <<status, old, live, made, aged, want, changes, asked, rec, checks, chk,
                    sb, reap, had>>
    BY <1>6 DEF Quiet, vars, config, tasks
  <2>2. RowsOK' /\ ConfigOK' /\ TasksOK' /\ HadOK'
    BY <2>1 DEF IInv, RowsOK, ConfigOK, TasksOK, HadOK
  <2>3. Referenced' /\ Filling' /\ Deleted' /\ LeakFree'
    BY <2>1 DEF IInv, Referenced, Filling, Deleted, LeakFree, HasRow
  <2>4. Taken' /\ OneHolder' /\ Spared' /\ NotOverfilled'
    BY <2>1 DEF IInv, Taken, OneHolder, Spared, NotOverfilled, Reapable, Available, Current,
       Missing
  <2> QED
    BY <2>2, <2>3, <2>4 DEF IInv
<1> QED
  BY <1>1, <1>2, <1>3, <1>4, <1>5, <1>6 DEF Next

LEMMA Invariance == Spec => []IInv
BY InitIInv, NextIInv, PTL DEF Spec

\* Rows, resources and the steps of all tasks stay of their types, and a slot that was
\* never created has neither a row nor a resource.
THEOREM TypeCorrect == Spec => []TypeOK
<1>1. IInv => TypeOK
  BY TypeParts DEF IInv
<1> QED
  BY <1>1, Invariance, PTL

\* tryClaimWarmRuntime gives a slot to one sandbox only, however many creations, checks,
\* reconciles and reapers run at the same time, as long as no decision is carried out on
\* a slot that moved on after it was read.
THEOREM OneSandboxPerSlot == Spec => []OneHolder
<1>1. IInv => OneHolder
  BY DEF IInv
<1> QED
  BY <1>1, Invariance, PTL

\* The runtime of a sandbox that was created from the pool is never deleted by trimSurplusSlots,
\* by a check, by the clean-up of a failed creation or by ReapStaleSlots, under the same
\* condition and while no claim takes longer than the reaper allows.
THEOREM RuntimeStaysAlive == Spec => []HeldAlive
<1>1. IInv => HeldAlive
  BY DEF IInv, Spared, HeldAlive
<1> QED
  BY <1>1, Invariance, PTL

\* A resource at the provider always has a row that the reaper or the pool still looks at,
\* except after a failure between provision's two writes.
THEOREM NothingLeaks == Spec => []LeakFree
<1>1. IInv => LeakFree
  BY DEF IInv
<1> QED
  BY <1>1, Invariance, PTL

\* The pool, with what the running reconcile still creates, is never larger than the
\* largest size it was configured to.
THEOREM NeverOverfilled == Spec => []NotOverfilled
<1>1. IInv => NotOverfilled
  BY DEF IInv
<1> QED
  BY <1>1, Invariance, PTL
=============================================================================
