-------------------------- MODULE KeyedLockProofs ---------------------------
(***************************************************************************)
(* The theorems about KeyedLock, for any set of keys and entries and any   *)
(* finite set of goroutines.  Mutual exclusion by itself is not inductive: *)
(* that two goroutines with the same key also share the mutex depends on   *)
(* the entry staying in the map while a reference to it is out, which in   *)
(* turn depends on refs counting exactly the goroutines that hold one.     *)
(***************************************************************************)
EXTENDS KeyedLock, FiniteSetTheorems, TLAPS

\* A goroutine has an entry exactly while it is inside Lock or the closure.
PcMatches ==
    \A p \in Procs : /\ pc[p] = "idle" <=> ent[p] = Nil
                     /\ pc[p] = "idle" <=> key[p] = Nil

\* The entry a goroutine holds is the one the map has for its key.
EntryInMap == \A p \in Procs : ent[p] # Nil => locks[key[p]] = ent[p]

\* No two keys share an entry.
MapInjective ==
    \A k, l \in Keys : locks[k] = locks[l] /\ locks[k] # Nil => k = l

\* e.refs counts the goroutines that hold a reference, and is never zero.
RefsCount ==
    \A k \in Keys, e \in Entries : locks[k] = e =>
        /\ refs[e] = Cardinality(Users(e))
        /\ Users(e) # {}

\* A goroutine between Lock and unlock owns its entry's mutex.
InsideOwns == \A p \in Procs : pc[p] = "inside" => owner[ent[p]] = p

IInv == TypeOK /\ PcMatches /\ EntryInMap /\ MapInjective /\ RefsCount /\ InsideOwns
-----------------------------------------------------------------------------
LEMMA UsersFinite ==
    ASSUME NEW e PROVE IsFiniteSet(Users(e))
<1>1. Users(e) \subseteq Procs
  BY DEF Users
<1> QED
  BY <1>1, FS_Subset, ProcsAssumption

LEMMA InitIInv == Init => IInv
BY NilAssumption DEF Init, IInv, TypeOK, PcMatches, EntryInMap, MapInjective,
                     RefsCount, InsideOwns

\* Lock's first section keeps the invariant: either the key had no entry and
\* gets one nobody else knows, with one user, or its users grow by one.
LEMMA ReferenceIInv ==
    ASSUME IInv, NEW p \in Procs, NEW k \in Keys, Reference(p, k)
    PROVE  IInv'
<1> USE NilAssumption
<1>0. TypeOK /\ PcMatches /\ EntryInMap /\ MapInjective /\ RefsCount /\ InsideOwns
  BY DEF IInv
<1>1. PICK e \in Entries :
          /\ IF locks[k] = Nil THEN Free(e) ELSE e = locks[k]
          /\ locks' = [locks EXCEPT ![k] = e]
          /\ refs' = [refs EXCEPT ![e] = IF locks[k] = Nil THEN 1 ELSE @ + 1]
          /\ owner' = [owner EXCEPT ![e] = IF locks[k] = Nil THEN Nil ELSE @]
          /\ ent' = [ent EXCEPT ![p] = e]
  BY DEF Reference
<1>2. /\ pc[p] = "idle" /\ ent[p] = Nil /\ key[p] = Nil
      /\ key' = [key EXCEPT ![p] = k]
      /\ pc' = [pc EXCEPT ![p] = "wait"]
      /\ calls' = [calls EXCEPT ![p] = @ + 1]
  BY <1>0 DEF Reference, PcMatches
<1>3. TypeOK'
  BY <1>0, <1>1, <1>2 DEF TypeOK
<1>4. PcMatches'
  BY <1>0, <1>1, <1>2 DEF TypeOK, PcMatches
<1>5. EntryInMap'
  <2> SUFFICES ASSUME NEW q \in Procs, ent'[q] # Nil
               PROVE  locks'[key'[q]] = ent'[q]
    BY DEF EntryInMap
  <2>1. CASE q = p
    BY <2>1, <1>0, <1>1, <1>2 DEF TypeOK
  <2>2. CASE q # p
    <3>1. ent'[q] = ent[q] /\ key'[q] = key[q] /\ ent[q] # Nil /\ key[q] \in Keys
      BY <2>2, <1>0, <1>1, <1>2 DEF TypeOK, PcMatches
    <3>2. locks[key[q]] = ent[q]
      BY <3>1, <1>0 DEF EntryInMap
    <3>3. CASE key[q] = k
      BY <3>1, <3>2, <3>3, <1>0, <1>1 DEF TypeOK
    <3>4. CASE key[q] # k
      BY <3>1, <3>2, <3>4, <1>0, <1>1 DEF TypeOK
    <3> QED BY <3>3, <3>4
  <2> QED BY <2>1, <2>2
<1>6. MapInjective'
  BY <1>0, <1>1 DEF TypeOK, MapInjective, Free
<1>7. Users(e)' = Users(e) \cup {p} /\ p \notin Users(e)
  BY <1>0, <1>1, <1>2 DEF Users, TypeOK
<1>8. Cardinality(Users(e)') = Cardinality(Users(e)) + 1
  BY <1>7, UsersFinite, FS_AddElement
<1>9. RefsCount'
  <2> SUFFICES ASSUME NEW l \in Keys, NEW x \in Entries, locks'[l] = x
               PROVE  refs'[x] = Cardinality(Users(x)') /\ Users(x)' # {}
    BY DEF RefsCount
  <2>1. CASE l = k /\ locks[k] = Nil
    <3>1. Users(e) = {}
      BY <2>1, <1>1 DEF Users, Free
    <3>2. refs'[e] = 1 /\ x = e
      BY <2>1, <1>0, <1>1 DEF TypeOK
    <3>3. Cardinality(Users(e)') = 1
      BY <3>1, <1>8, FS_EmptySet
    <3> QED BY <3>2, <3>3, <1>7
  <2>2. CASE l = k /\ locks[k] # Nil
    <3>1. e = locks[k] /\ refs'[e] = refs[e] + 1 /\ x = e
      BY <2>2, <1>0, <1>1 DEF TypeOK
    <3>2. refs[e] = Cardinality(Users(e))
      BY <2>2, <3>1, <1>0 DEF RefsCount
    <3> QED BY <3>1, <3>2, <1>7, <1>8
  <2>3. CASE l # k
    <3>1. x = locks[l] /\ x # e
      BY <2>3, <1>0, <1>1 DEF TypeOK, MapInjective, Free
    <3>2. refs'[x] = refs[x]
      BY <3>1, <1>0, <1>1 DEF TypeOK
    <3>3. Users(x)' = Users(x)
      BY <3>1, <1>0, <1>1, <1>2 DEF Users, TypeOK
    <3> QED BY <3>1, <3>2, <3>3, <1>0 DEF RefsCount
  <2> QED BY <2>1, <2>2, <2>3
<1>10. InsideOwns'
  <2> SUFFICES ASSUME NEW q \in Procs, pc'[q] = "inside"
               PROVE  owner'[ent'[q]] = q
    BY DEF InsideOwns
  <2>1. q # p /\ pc[q] = "inside" /\ ent'[q] = ent[q] /\ owner[ent[q]] = q
    BY <1>0, <1>1, <1>2 DEF TypeOK, InsideOwns
  <2>2. ent[q] \in Entries
    BY <2>1, <1>0 DEF TypeOK, PcMatches
  <2>3. CASE ent[q] = e
    BY <2>1, <2>2, <2>3, <1>0, <1>1 DEF TypeOK, Free
  <2>4. CASE ent[q] # e
    BY <2>1, <2>2, <2>4, <1>0, <1>1 DEF TypeOK
  <2> QED BY <2>3, <2>4
<1> QED
  BY <1>3, <1>4, <1>5, <1>6, <1>9, <1>10 DEF IInv

\* Taking or releasing e.mu disturbs neither the map nor the counts.
LEMMA MutexIInv ==
    ASSUME IInv, NEW p \in Procs, Acquire(p) \/ Unlock(p)
    PROVE  IInv'
<1> USE NilAssumption
<1>0. TypeOK /\ PcMatches /\ EntryInMap /\ MapInjective /\ RefsCount /\ InsideOwns
  BY DEF IInv
<1>1. UNCHANGED <<locks, refs, key, ent, calls>> /\ pc[p] \in {"wait", "inside"}
  BY DEF Acquire, Unlock
<1>2. ent[p] \in Entries
  BY <1>0, <1>1 DEF TypeOK, PcMatches
<1>3. TypeOK'
  BY <1>0, <1>1, <1>2 DEF TypeOK, Acquire, Unlock
<1>4. PcMatches'
  BY <1>0, <1>1 DEF PcMatches, TypeOK, Acquire, Unlock
<1>5. EntryInMap' /\ MapInjective' /\ RefsCount'
  BY <1>0, <1>1 DEF EntryInMap, MapInjective, RefsCount, Users
<1>6. InsideOwns'
  <2> SUFFICES ASSUME NEW q \in Procs, pc'[q] = "inside"
               PROVE  owner'[ent[q]] = q
    BY <1>1 DEF InsideOwns
  <2>1. CASE q = p
    BY <2>1, <1>0, <1>2 DEF TypeOK, Acquire, Unlock
  <2>2. CASE q # p
    <3>1. pc[q] = "inside" /\ owner[ent[q]] = q
      BY <2>2, <1>0 DEF TypeOK, InsideOwns, Acquire, Unlock
    <3>2. ent[q] # ent[p]
      BY <2>2, <3>1, <1>0 DEF InsideOwns, Acquire, Unlock
    <3>3. ent[q] \in Entries
      BY <3>1, <1>0 DEF TypeOK, PcMatches
    <3> QED BY <3>1, <3>2, <3>3, <1>0 DEF TypeOK, Acquire, Unlock
  <2> QED BY <2>1, <2>2
<1> QED
  BY <1>3, <1>4, <1>5, <1>6 DEF IInv

\* The closure's last section keeps the invariant: the count says 1 exactly
\* when the caller is the entry's only user, so nobody is left behind with an
\* entry the map no longer has.
LEMMA UnreferenceIInv ==
    ASSUME IInv, NEW p \in Procs, Unreference(p)
    PROVE  IInv'
<1> USE NilAssumption
<1>0. TypeOK /\ PcMatches /\ EntryInMap /\ MapInjective /\ RefsCount /\ InsideOwns
  BY DEF IInv
<1>a. ent[p] \in Entries /\ key[p] \in Keys
  BY <1>0 DEF TypeOK, PcMatches, Unreference, DropReference
<1>b. PICK e \in Entries, k \in Keys : e = ent[p] /\ k = key[p]
  BY <1>a
<1>1. /\ pc[p] = "unref"
      /\ refs' = [refs EXCEPT ![e] = @ - 1]
      /\ locks' = IF refs[e] = 1 THEN [locks EXCEPT ![k] = Nil] ELSE locks
      /\ pc' = [pc EXCEPT ![p] = "idle"]
      /\ key' = [key EXCEPT ![p] = Nil]
      /\ ent' = [ent EXCEPT ![p] = Nil]
      /\ owner' = owner /\ calls' = calls
  BY <1>b DEF Unreference, DropReference
<1>2. locks[k] = e
  BY <1>0, <1>b DEF EntryInMap
<1>3. refs[e] = Cardinality(Users(e))
  BY <1>0, <1>2 DEF RefsCount
<1>4. p \in Users(e) /\ Users(e)' = Users(e) \ {p}
  BY <1>0, <1>1, <1>b DEF Users, TypeOK
<1>5. Cardinality(Users(e)) \in Nat /\ Cardinality(Users(e)') = Cardinality(Users(e)) - 1
  BY <1>4, UsersFinite, FS_RemoveElement, FS_CardinalityType
<1>6. IsFiniteSet(Users(e)')
  BY <1>4, UsersFinite, FS_RemoveElement
<1>7. Cardinality(Users(e)') = 0 <=> Users(e)' = {}
  BY <1>6, FS_EmptySet
<1>8. Cardinality(Users(e)') \in Nat
  BY <1>6, FS_CardinalityType
<1>9. refs[e] = 1 <=> Users(e) \ {p} = {}
  BY <1>3, <1>4, <1>5, <1>7
<1>10. TypeOK'
  <2>1. refs[e] - 1 \in Nat
    BY <1>3, <1>5, <1>8
  <2>2. refs' \in [Entries -> Nat]
    BY <2>1, <1>0, <1>1, <1>2 DEF TypeOK
  <2> QED BY <2>2, <1>0, <1>1, <1>2 DEF TypeOK
<1>11. PcMatches'
  BY <1>0, <1>1 DEF PcMatches, TypeOK
<1>12. EntryInMap'
  <2> SUFFICES ASSUME NEW q \in Procs, ent'[q] # Nil
               PROVE  locks'[key'[q]] = ent'[q]
    BY DEF EntryInMap
  <2>1. q # p /\ ent'[q] = ent[q] /\ key'[q] = key[q] /\ key[q] \in Keys
    BY <1>0, <1>1 DEF TypeOK, PcMatches
  <2>2. locks[key[q]] = ent[q]
    BY <2>1, <1>0 DEF EntryInMap
  <2>3. CASE refs[e] = 1
    <3>1. q \notin Users(e)
      BY <2>1, <2>3, <1>9
    <3>2. key[q] # k
      BY <2>1, <2>2, <3>1, <1>2 DEF Users
    <3> QED BY <2>1, <2>2, <3>2, <1>0, <1>1 DEF TypeOK
  <2>4. CASE refs[e] # 1
    BY <2>1, <2>2, <2>4, <1>1
  <2> QED BY <2>3, <2>4
<1>13. MapInjective'
  BY <1>0, <1>1, <1>2 DEF MapInjective, TypeOK
<1>14. RefsCount'
  <2> SUFFICES ASSUME NEW l \in Keys, NEW x \in Entries, locks'[l] = x
               PROVE  refs'[x] = Cardinality(Users(x)') /\ Users(x)' # {}
    BY DEF RefsCount
  <2>1. locks[l] = x
    BY <1>0, <1>1, <1>2 DEF TypeOK
  <2>2. CASE l = k
    <3>1. refs[e] # 1
      BY <2>1, <2>2, <1>0, <1>1, <1>2 DEF TypeOK
    <3>2. refs'[e] = refs[e] - 1
      BY <1>0, <1>1, <1>2 DEF TypeOK
    <3>3. x = e /\ Users(e)' # {}
      BY <2>1, <2>2, <3>1, <1>2, <1>4, <1>9
    <3> QED BY <3>2, <3>3, <1>3, <1>5
  <2>3. CASE l # k
    <3>1. x # e
      BY <2>1, <2>3, <1>0, <1>2 DEF MapInjective
    <3>2. Users(x)' = Users(x)
      BY <3>1, <1>0, <1>1, <1>b DEF Users, TypeOK
    <3>3. refs'[x] = refs[x]
      BY <2>1, <3>1, <1>0, <1>1 DEF TypeOK
    <3> QED BY <2>1, <3>2, <3>3, <1>0 DEF RefsCount
  <2> QED BY <2>2, <2>3
<1>15. InsideOwns'
  BY <1>0, <1>1 DEF InsideOwns, TypeOK
<1> QED
  BY <1>10, <1>11, <1>12, <1>13, <1>14, <1>15 DEF IInv

LEMMA NextIInv == IInv /\ [Next]_vars => IInv'
<1> SUFFICES ASSUME IInv, [Next]_vars PROVE IInv'
  OBVIOUS
<1>1. ASSUME NEW p \in Procs, NEW k \in Keys, Reference(p, k) PROVE IInv'
  BY <1>1, ReferenceIInv
<1>2. ASSUME NEW p \in Procs, Acquire(p) \/ Unlock(p) PROVE IInv'
  BY <1>2, MutexIInv
<1>3. ASSUME NEW p \in Procs, Unreference(p) PROVE IInv'
  BY <1>3, UnreferenceIInv
<1>4. CASE UNCHANGED vars
  BY <1>4 DEF vars, IInv, TypeOK, PcMatches, EntryInMap, MapInjective, RefsCount,
              InsideOwns, Users
<1> QED
  BY <1>1, <1>2, <1>3, <1>4 DEF Next

\* keyedlock.go: the invariant above holds in every reachable state.
THEOREM Inductive == Spec => []IInv
BY InitIInv, NextIInv, PTL DEF Spec

\* Every field of the Locker keeps its type; in particular no reference count goes
\* below zero, however the goroutines interleave (keyedlock.go:34-40).
THEOREM Types == Spec => []TypeOK
<1>1. IInv => TypeOK
  BY DEF IInv
<1> QED
  BY Inductive, <1>1, PTL

LEMMA IInvExclusion == IInv => MutualExclusion
<1> SUFFICES ASSUME IInv, NEW p \in Procs, NEW q \in Procs,
                    pc[p] = "inside", pc[q] = "inside", key[p] = key[q]
             PROVE  p = q
  BY DEF MutualExclusion
<1>1. ent[p] = ent[q]
  BY DEF IInv, PcMatches, EntryInMap
<1> QED
  BY <1>1 DEF IInv, InsideOwns

\* Locker.Lock serializes work for one key: no two goroutines are ever between
\* Lock and unlock of the same key, whatever the number of goroutines and keys.
THEOREM Exclusion == Spec => []MutualExclusion
BY Inductive, IInvExclusion, PTL

LEMMA IInvMap == IInv => MapHoldsOnlyUsed
<1> SUFFICES ASSUME IInv, NEW k \in Keys
             PROVE  locks[k] # Nil <=> \E p \in Procs : key[p] = k
  BY DEF MapHoldsOnlyUsed
<1>0. TypeOK /\ PcMatches /\ EntryInMap /\ MapInjective /\ RefsCount
  BY DEF IInv
<1>1. ASSUME locks[k] # Nil PROVE \E p \in Procs : key[p] = k
  <2>0. PICK e \in Entries : locks[k] = e
    BY <1>0, <1>1 DEF TypeOK
  <2>1. PICK p \in Procs : ent[p] = locks[k]
    BY <1>0, <2>0 DEF RefsCount, Users
  <2>2. key[p] \in Keys /\ locks[key[p]] = locks[k]
    BY <2>1, <1>0, <1>1, NilAssumption DEF TypeOK, PcMatches, EntryInMap
  <2> QED BY <2>2, <1>0, <1>1 DEF MapInjective
<1>2. ASSUME NEW p \in Procs, key[p] = k PROVE locks[k] # Nil
  BY <1>2, <1>0, NilAssumption DEF PcMatches, EntryInMap
<1> QED BY <1>1, <1>2

\* Locker's map holds exactly the keys somebody is using: it does not grow with
\* the keys ever locked, and never drops one in use.
THEOREM MapExact == Spec => []MapHoldsOnlyUsed
BY Inductive, IInvMap, PTL

\* keyedlock.go implements SerialSections: seen through insideKey, every step
\* enters or leaves one section, or changes nothing.
THEOREM Refinement == Spec => Serializes
<1> USE NilAssumption
<1>1. Init => Abs!Init
  BY DEF Init, Abs!Init, insideKey
<1>2. IInv /\ [Next]_vars => [Abs!Next]_insideKey
  <2> SUFFICES ASSUME IInv, [Next]_vars PROVE [Abs!Next]_insideKey
    OBVIOUS
  <2>0. TypeOK /\ PcMatches /\ EntryInMap /\ InsideOwns
    BY DEF IInv
  <2>1. ASSUME NEW p \in Procs, NEW k \in Keys, Reference(p, k)
        PROVE  insideKey' = insideKey
    BY <2>0, <2>1 DEF Reference, insideKey, TypeOK
  <2>2. ASSUME NEW p \in Procs, Acquire(p)
        PROVE  \E k \in Keys : Abs!Enter(p, k)
    <3>1. key[p] \in Keys /\ ent[p] = locks[key[p]] /\ owner[ent[p]] = Nil
      BY <2>0, <2>2 DEF Acquire, TypeOK, PcMatches, EntryInMap
    <3>2. insideKey[p] = Nil
      BY <2>2 DEF Acquire, insideKey
    <3>3. ASSUME NEW q \in Procs, insideKey[q] = key[p] PROVE FALSE
      <4>1. pc[q] = "inside" /\ key[q] = key[p]
        BY <3>1, <3>3 DEF insideKey
      <4>2. owner[ent[q]] = q /\ ent[q] = locks[key[q]]
        BY <4>1, <2>0 DEF InsideOwns, PcMatches, EntryInMap
      <4> QED BY <3>1, <4>1, <4>2
    <3>4. insideKey' = [insideKey EXCEPT ![p] = key[p]]
      BY <2>0, <2>2 DEF Acquire, insideKey, TypeOK
    <3> QED BY <3>1, <3>2, <3>3, <3>4 DEF Abs!Enter
  <2>3. ASSUME NEW p \in Procs, Unlock(p) PROVE Abs!Leave(p)
    <3>1. insideKey[p] = key[p] /\ key[p] # Nil
      BY <2>0, <2>3 DEF Unlock, insideKey, PcMatches
    <3>2. insideKey' = [insideKey EXCEPT ![p] = Nil]
      BY <2>0, <2>3 DEF Unlock, insideKey, TypeOK
    <3> QED BY <3>1, <3>2 DEF Abs!Leave
  <2>4. ASSUME NEW p \in Procs, Unreference(p) PROVE insideKey' = insideKey
    BY <2>0, <2>4 DEF Unreference, DropReference, insideKey, TypeOK
  <2>5. CASE UNCHANGED vars
    BY <2>5 DEF vars, insideKey
  <2> QED BY <2>1, <2>2, <2>3, <2>4, <2>5 DEF Next, Abs!Next
<1> QED
  BY <1>1, <1>2, Inductive, PTL DEF Spec, Serializes, Abs!Spec
=============================================================================
