----------------------------- MODULE KeyedLock ------------------------------
(***************************************************************************)
(* src/internal/keyedlock/keyedlock.go: a map from keys to reference       *)
(* counted mutexes, itself guarded by one mutex (l.mu).  Every section     *)
(* under l.mu is one action, since it only touches state that l.mu guards. *)
(* Entries are heap objects: one nobody refers to any more is garbage and  *)
(* its address may come back from a later allocation.                      *)
(***************************************************************************)
EXTENDS Integers, FiniteSets

CONSTANTS Procs,     \* goroutines
          Keys,      \* lock keys (sandbox ids)
          Entries,   \* addresses of *entry
          Nil,       \* the nil pointer, and the absent key
          MaxCalls   \* bound on the Lock calls of one goroutine, for TLC

ASSUME ProcsAssumption == IsFiniteSet(Procs)
ASSUME NilAssumption == Nil \notin Entries /\ Nil \notin Keys /\ Nil \notin Procs
ASSUME MaxCallsAssumption == MaxCalls \in Nat

VARIABLES locks,   \* l.locks
          refs,    \* e.refs
          owner,   \* the goroutine that holds e.mu, or Nil
          pc,      \* where a goroutine is in Lock or in the returned closure
          key,     \* the key it passed to Lock
          ent,     \* its local variable e
          calls    \* calls made so far

vars == <<locks, refs, owner, pc, key, ent, calls>>

Init ==
    /\ locks = [k \in Keys |-> Nil]
    /\ refs = [e \in Entries |-> 0]
    /\ owner = [e \in Entries |-> Nil]
    /\ pc = [p \in Procs |-> "idle"]
    /\ key = [p \in Procs |-> Nil]
    /\ ent = [p \in Procs |-> Nil]
    /\ calls = [p \in Procs |-> 0]

\* An address the allocator may return: neither the map nor a goroutine has it.
Free(e) == (\A k \in Keys : locks[k] # e) /\ (\A p \in Procs : ent[p] # e)

\* Lock, the section under l.mu: find or create the entry, take a reference.
Reference(p, k) ==
    /\ pc[p] = "idle"
    /\ calls[p] < MaxCalls
    /\ \E e \in Entries :
          /\ IF locks[k] = Nil THEN Free(e) ELSE e = locks[k]
          /\ locks' = [locks EXCEPT ![k] = e]
          /\ refs' = [refs EXCEPT ![e] = IF locks[k] = Nil THEN 1 ELSE @ + 1]
          /\ owner' = [owner EXCEPT ![e] = IF locks[k] = Nil THEN Nil ELSE @]
          /\ ent' = [ent EXCEPT ![p] = e]
    /\ key' = [key EXCEPT ![p] = k]
    /\ pc' = [pc EXCEPT ![p] = "wait"]
    /\ calls' = [calls EXCEPT ![p] = @ + 1]

\* mutant: an e.mu that lets everybody in
AcquireShared(p) ==
    /\ pc[p] = "wait"
    /\ owner' = [owner EXCEPT ![ent[p]] = p]
    /\ pc' = [pc EXCEPT ![p] = "inside"]
    /\ UNCHANGED <<locks, refs, key, ent, calls>>

\* e.mu.Lock() returns, and with it Lock.
Acquire(p) ==
    /\ pc[p] = "wait"
    /\ owner[ent[p]] = Nil
    /\ owner' = [owner EXCEPT ![ent[p]] = p]
    /\ pc' = [pc EXCEPT ![p] = "inside"]
    /\ UNCHANGED <<locks, refs, key, ent, calls>>

\* mutant: a closure that forgets e.mu.Unlock()
UnlockNothing(p) ==
    /\ pc[p] = "inside"
    /\ pc' = [pc EXCEPT ![p] = "unref"]
    /\ UNCHANGED <<locks, refs, owner, key, ent, calls>>

\* The closure Lock returned, first statement: e.mu.Unlock().
Unlock(p) ==
    /\ pc[p] = "inside"
    /\ owner' = [owner EXCEPT ![ent[p]] = Nil]
    /\ pc' = [pc EXCEPT ![p] = "unref"]
    /\ UNCHANGED <<locks, refs, key, ent, calls>>

\* The closure's section under l.mu drops n references, and the entry when
\* deletes says so.
DropReference(p, n, deletes) ==
    /\ pc[p] = "unref"
    /\ refs' = [refs EXCEPT ![ent[p]] = @ - n]
    /\ locks' = IF deletes THEN [locks EXCEPT ![key[p]] = Nil] ELSE locks
    /\ pc' = [pc EXCEPT ![p] = "idle"]
    /\ key' = [key EXCEPT ![p] = Nil]
    /\ ent' = [ent EXCEPT ![p] = Nil]
    /\ UNCHANGED <<owner, calls>>

\* mutant: the entry is never deleted
UnreferenceNever(p) == DropReference(p, 1, FALSE)

\* The entry goes with its last reference.
Unreference(p) == DropReference(p, 1, refs[ent[p]] = 1)

Next == \E p \in Procs :
            \/ \E k \in Keys : Reference(p, k)
            \/ Acquire(p)
            \/ Unlock(p)
            \/ Unreference(p)

\* A goroutine in the code between Lock and unlock goes on running, and Go's
\* sync.Mutex hands itself to a waiter that has waited long enough.
Fairness == \A p \in Procs :
                SF_vars(Acquire(p)) /\ WF_vars(Unlock(p)) /\ WF_vars(Unreference(p))

Spec == Init /\ [][Next]_vars
FairSpec == Spec /\ Fairness
-----------------------------------------------------------------------------
\* The goroutines that hold a reference to e.
Users(e) == {p \in Procs : ent[p] = e}

TypeOK ==
    /\ locks \in [Keys -> Entries \cup {Nil}]
    /\ refs \in [Entries -> Nat]
    /\ owner \in [Entries -> Procs \cup {Nil}]
    /\ pc \in [Procs -> {"idle", "wait", "inside", "unref"}]
    /\ key \in [Procs -> Keys \cup {Nil}]
    /\ ent \in [Procs -> Entries \cup {Nil}]
    /\ calls \in [Procs -> Nat]

\* "Locker serializes work for a single key" (keyedlock.go:5): two goroutines
\* are never between Lock and unlock of the same key.  It would break if an
\* entry were deleted while somebody still waits on it: the next caller would
\* create a second mutex for the key.
MutualExclusion ==
    \A p, q \in Procs :
        pc[p] = "inside" /\ pc[q] = "inside" /\ key[p] = key[q] => p = q

\* The map neither leaks nor loses an entry: a key is in it exactly while some
\* goroutine is between the two l.mu sections for that key.
MapHoldsOnlyUsed ==
    \A k \in Keys : locks[k] # Nil <=> \E p \in Procs : key[p] = k

\* Every call of Lock returns: no wake-up is lost when an entry is dropped and
\* created again.
LockReturns == \A p \in Procs : pc[p] = "wait" ~> pc[p] = "inside"

\* The refinement: a goroutine is in the section of a key between Lock's return
\* and e.mu.Unlock().
insideKey == [p \in Procs |-> IF pc[p] = "inside" THEN key[p] ELSE Nil]
Abs == INSTANCE SerialSections WITH inside <- insideKey, NoKey <- Nil
Serializes == Abs!Spec
=============================================================================
