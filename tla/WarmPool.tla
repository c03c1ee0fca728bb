------------------------------- MODULE WarmPool -------------------------------
(***************************************************************************)
(* The warm pool of one sandbox profile: slots with a runtime that is      *)
(* already up, which new sandboxes claim instead of starting their own.    *)
(* Four kinds of task work on the slots' rows and on the resources at the  *)
(* provider, each row and resource in a step of its own: the reconcile     *)
(* task, the check tasks of new slots, the creations of sandboxes and the  *)
(* reaper.  (internal/sandbox/warm_pool*.go, orchestrator_warm_claim.go,   *)
(* internal/tasks/sandbox_warm_pool.go)                                    *)
(*                                                                         *)
(* A slot is known by the order of its creation, and the slots of a list   *)
(* are worked off in any order.  `had` says what went wrong: calls that    *)
(* failed, workers that died and claims that took longer than the reaper   *)
(* allows, which are counted and bounded; and whether a decision was       *)
(* carried out on a slot that had moved on since it was read.              *)
(***************************************************************************)
EXTENDS Integers, FiniteSets

CONSTANTS Sandboxes,   \* sandboxes being created
          Checkers,    \* workers that run check tasks
          None,
          MaxWant,     \* the largest size the pool is configured to
          MaxSlots,    \* bound on the slots ever created
          MaxQueued,   \* bound on the check tasks of one slot that wait
          MaxTrouble,  \* bound on failures, deaths and slow claims together
          MaxChanges   \* bound on the changes of the configuration

ASSUME NobodyAssumption == None \notin 1..MaxSlots
ASSUME BoundsAssumption ==
    {MaxWant, MaxSlots, MaxQueued, MaxTrouble, MaxChanges} \subseteq Nat

VARIABLES status,   \* the status column of each slot
          old,      \* slots of an image that is no longer configured
          live,     \* slots whose resource exists at the provider
          made,     \* resources created so far
          aged,     \* slots that have been in claiming for ten minutes
          want,     \* the configured size
          changes,  \* configurations rolled out
          asked,    \* a reconcile task waits
          rec,      \* what the reconcile task that holds the advisory lock does
          checks,   \* check tasks that wait, by slot
          chk,      \* what each checker does
          sb,       \* how far each sandbox's creation is
          reap,     \* what the reaper does
          had       \* what went wrong so far

config == <<want, changes, old>>
tasks  == <<asked, checks>>
vars   == <<status, live, made, aged, config, tasks, rec, chk, sb, reap, had>>

Slots == 1..MaxSlots
Status == {"none", "warming", "warm", "claiming", "claimed", "deleting", "error"}
Available(k) == status[k] \in {"warming", "warm"}
Current == {k \in Slots : Available(k) /\ k \notin old}

Idle == [at |-> "idle", todo |-> {}, slot |-> None, n |-> 0]
Resting == [at |-> "idle", slot |-> None]

Init ==
    /\ status = [k \in Slots |-> "none"]
    /\ old = {} /\ live = {} /\ made = 0 /\ aged = {}
    /\ want = MaxWant /\ changes = 0
    /\ asked = TRUE                  \* the server asks when it starts
    /\ rec = Idle /\ reap = Idle
    /\ checks = [k \in Slots |-> 0]
    /\ chk = [c \in Checkers |-> Resting]
    /\ sb = [s \in Sandboxes |-> [at |-> "new", slot |-> None]]
    /\ had = [fault |-> 0, lapse |-> 0, late |-> FALSE]

Troubled == had.fault + had.lapse < MaxTrouble
Trouble(kind) == Troubled /\ had' = [had EXCEPT ![kind] = @ + 1]
\* A call fails or a worker dies.
Fault == Trouble("fault")
\* A decision is carried out on a slot that has moved on, and its call succeeds or not.
Late(moved) == had' = [had EXCEPT !.late = @ \/ moved]
LateFault(moved) == Troubled /\ had' = [had EXCEPT !.late = @ \/ moved, !.fault = @ + 1]
Held(k) == status[k] \in {"claiming", "claimed"}

Write(k, st) == status' = [status EXCEPT ![k] = st]
\* The task is unique: while one waits or runs, another is dropped.
Ask == asked' = (asked \/ rec.at = "idle")
Check(k, n) == checks' = [checks EXCEPT ![k] = IF @ + n > MaxQueued THEN MaxQueued ELSE @ + n]

\* mutant: a resource that could not be deleted is given up with its slot
RefusedAsError(k) == Write(k, "error")
\* MarkError, the provider having failed to delete the resource.
Refused(k) == Write(k, "deleting")
-----------------------------------------------------------------------------
(* Reconcile.                                                                *)

\* A rollout brings another size or another runtime image.  Every server asks for a
\* reconcile when it starts.
Configure(n) ==
    /\ changes < MaxChanges
    /\ changes' = changes + 1 /\ want' = n
    /\ old' = IF n = want THEN {k \in Slots : status[k] # "none"} ELSE old
    /\ Ask
    /\ UNCHANGED <<status, live, made, aged, checks, rec, chk, sb, reap, had>>

Waiting == UNCHANGED <<made, config, chk, sb, reap>>
\* The task comes back after an error or the death of its worker.
Again == rec' = Idle /\ asked' = TRUE

\* Reconcile, with the size it goes by, and the list of deleteStaleAvailableSlots.  A
\* pool of size 0 is left alone.
Start ==
    /\ asked /\ rec.at = "idle"
    /\ asked' = FALSE
    /\ rec' = IF want = 0 THEN Idle
              ELSE [Idle EXCEPT !.at = "stale", !.n = want,
                                !.todo = {k \in old : Available(k)}]
    /\ UNCHANGED <<status, live, aged, checks, had>> /\ Waiting

\* MarkError of a listed slot, whatever it is by now: the resource, then the row.
Drop ==
    /\ rec.at \in {"stale", "trim"} /\ rec.slot = None
    /\ \E k \in rec.todo :
          \/ /\ live' = live \ {k}
             /\ rec' = [rec EXCEPT !.slot = k]
             /\ Late(Held(k))
             /\ UNCHANGED <<status, asked>>
          \/ /\ LateFault(Held(k)) /\ Refused(k) /\ Again
             /\ UNCHANGED live
    /\ UNCHANGED <<aged, checks>> /\ Waiting

Dropped ==
    /\ rec.at \in {"stale", "trim"} /\ rec.slot # None
    /\ Write(rec.slot, "error")
    /\ rec' = [rec EXCEPT !.slot = None, !.todo = @ \ {rec.slot}]
    /\ UNCHANGED <<live, aged, tasks, had>> /\ Waiting

\* trimSurplusSlots goes backwards through the warm slots followed by the warming ones.
TrimsBefore(i, j) == IF status[i] = status[j] THEN i > j ELSE status[i] = "warming"
Surplus == {k \in Current :
              Cardinality({j \in Current : TrimsBefore(j, k)}) < Cardinality(Current) - rec.n}

\* mutant: slots that still warm up are not counted
PoolWarm == {k \in Current : status[k] = "warm"}
Pool == Current
\* reconcileLocked counts the available slots and decides.
Count ==
    /\ rec.at = "stale" /\ rec.todo = {}
    /\ rec' = IF Cardinality(Pool) > rec.n THEN [Idle EXCEPT !.at = "trim", !.todo = Surplus]
              ELSE [Idle EXCEPT !.at = "fill", !.n = rec.n - Cardinality(Pool)]
    /\ UNCHANGED <<status, live, aged, tasks, had>> /\ Waiting

Trimmed ==
    /\ rec.at = "trim" /\ rec.todo = {}
    /\ rec' = Idle
    /\ UNCHANGED <<status, live, aged, tasks, had>> /\ Waiting

\* provision: the resource first,
Provision ==
    /\ rec.at = "fill" /\ rec.n > 0 /\ rec.slot = None /\ made < MaxSlots
    /\ \/ /\ made' = made + 1
          /\ live' = live \cup {made + 1}
          /\ rec' = [rec EXCEPT !.slot = made + 1]
          /\ UNCHANGED <<asked, had>>
       \/ Fault /\ Again /\ UNCHANGED <<live, made>>
    /\ UNCHANGED <<status, aged, config, checks, chk, sb, reap>>

\* then the row, committed outside the transaction of the lock, and a check task.  The
\* resource of a row that cannot be written is deleted, if it can be.
Insert ==
    /\ rec.at = "fill" /\ rec.slot # None
    /\ LET k == rec.slot IN
          \/ /\ Write(k, "warming") /\ Check(k, 1)
             /\ rec' = [rec EXCEPT !.slot = None, !.n = @ - 1, !.todo = @ \cup {k}]
             /\ UNCHANGED <<live, asked, had>>
          \/ /\ Fault /\ Again
             /\ \/ Write(k, "warming") /\ UNCHANGED live
                \/ UNCHANGED status /\ live' \in {live, live \ {k}}
             /\ UNCHANGED checks
    /\ UNCHANGED aged /\ Waiting

\* Another check task for every slot that warms up, beside the ones just created.
Recheck ==
    /\ rec.at = "fill" /\ rec.slot = None /\ (rec.n = 0 \/ made = MaxSlots)
    /\ checks' = [k \in Slots |->
          IF k \in Current /\ status[k] = "warming" /\ k \notin rec.todo
             /\ checks[k] < MaxQueued
          THEN checks[k] + 1 ELSE checks[k]]
    /\ rec' = Idle
    /\ UNCHANGED <<status, live, aged, asked, had>> /\ Waiting

ReconcileDies ==
    /\ rec.at # "idle" /\ Fault /\ Again
    /\ UNCHANGED <<status, live, aged, checks>> /\ Waiting
-----------------------------------------------------------------------------
(* CheckWarmSlot and its task.                                               *)

Checking == UNCHANGED <<made, aged, config, rec, sb, reap>>
Done(c) == chk' = [chk EXCEPT ![c] = Resting]
At(c, step) == chk' = [chk EXCEPT ![c].at = step]

CheckStarts(c, k) ==
    /\ chk[c].at = "idle" /\ checks[k] > 0
    /\ Check(k, -1)
    /\ IF status[k] # "warming" THEN UNCHANGED chk
       ELSE chk' = [chk EXCEPT ![c] = [at |-> "probe", slot |-> k]]
    /\ UNCHANGED <<status, live, asked, had>> /\ Checking

\* GetStatus and /healthz.  A resource that is gone is never healthy; one that is
\* there becomes so in time, unless something goes wrong with it.
Probe(c) ==
    /\ chk[c].at = "probe"
    /\ LET k == chk[c].slot IN
          \/ k \in live /\ At(c, "write") /\ UNCHANGED <<checks, had>>
          \/ Check(k, 1) /\ Done(c) /\ UNCHANGED had      \* pending, checked again later
          \/ /\ IF k \in live THEN Fault ELSE UNCHANGED had
             /\ \/ Done(c)            \* an error, after the last retry
                \/ At(c, "delete")    \* broken, or not ready for five minutes
             /\ UNCHANGED checks
    /\ UNCHANGED <<status, live, asked>> /\ Checking

\* The slot becomes warm; nothing says it must still be warming.
CheckWrites(c) ==
    /\ chk[c].at = "write"
    /\ LET k == chk[c].slot IN
          \/ Write(k, "warm") /\ Late(~Available(k)) /\ UNCHANGED checks
          \/ Fault /\ Check(k, 1) /\ UNCHANGED status
    /\ Done(c)
    /\ UNCHANGED <<live, asked>> /\ Checking

\* A slot that was given up for its time is replaced, a broken one is not.
Replaced == Ask \/ UNCHANGED asked
\* MarkError: the resource,
CheckDeletes(c) ==
    /\ chk[c].at = "delete"
    /\ LET k == chk[c].slot IN
          \/ /\ live' = live \ {k} /\ At(c, "mark")
             /\ Late(Held(k))
             /\ UNCHANGED <<status, asked>>
          \/ /\ LateFault(Held(k)) /\ Refused(k) /\ Done(c)
             /\ Replaced /\ UNCHANGED live
    /\ UNCHANGED checks /\ Checking
\* and the row.
CheckMarks(c) ==
    /\ chk[c].at = "mark"
    /\ Write(chk[c].slot, "error") /\ Done(c)
    /\ Replaced
    /\ UNCHANGED <<live, checks, had>> /\ Checking

CheckDies(c) ==
    /\ chk[c].at # "idle" /\ Fault
    /\ Check(chk[c].slot, 1) /\ Done(c)
    /\ UNCHANGED <<status, live, asked>> /\ Checking
-----------------------------------------------------------------------------
(* tryClaimWarmRuntime, and what CreateAgentSandbox does with its error.     *)

Creating == UNCHANGED <<made, config, checks, rec, chk, reap>>
Goes(s, step) == sb' = [sb EXCEPT ![s].at = step]
Ended(s) == sb' = [sb EXCEPT ![s] = [at |-> "ended", slot |-> None]]

\* mutant: a slot may be claimed until its claim is confirmed
WarmOrClaiming == {k \in Slots \ old : status[k] \in {"warm", "claiming"}}
\* The warm slots of the profile, FOR UPDATE.
Warm == {k \in Slots \ old : status[k] = "warm"}
\* The sandbox's row is running from then on, at the slot's resource, unless it cannot
\* be written.  Without a slot the sandbox starts a runtime of its own.
Claim(s) ==
    /\ sb[s].at = "new"
    /\ \/ /\ Warm = {}
          /\ Ended(s) /\ Ask
          /\ UNCHANGED <<status, aged, had>>
       \/ \E k \in Warm :
             /\ \A j \in Warm : k <= j
             /\ Write(k, "claiming") /\ aged' = aged \ {k}
             /\ \E step \in {"wait", "delete"} :
                   /\ sb' = [sb EXCEPT ![s] = [at |-> step, slot |-> k]]
                   /\ IF step = "delete" THEN Fault ELSE UNCHANGED had
             /\ UNCHANGED asked
    /\ UNCHANGED live /\ Creating

\* waitForAgentRuntimeLive and pushAgentRuntimeConfig.
Reach(s) ==
    /\ sb[s].at = "wait"
    /\ \/ sb[s].slot \in live /\ Goes(s, "confirm") /\ UNCHANGED had
       \/ sb[s].slot \notin live /\ Goes(s, "delete") /\ UNCHANGED had
       \/ Goes(s, "delete") /\ Fault
    /\ UNCHANGED <<status, live, aged, asked>> /\ Creating

\* MarkClaimed.  Its failure gives the sandbox up and leaves the slot to the reaper.
Confirm(s) ==
    /\ sb[s].at = "confirm"
    /\ \/ /\ Write(sb[s].slot, "claimed") /\ aged' = aged \ {sb[s].slot}
          /\ Goes(s, "up") /\ Ask
          /\ UNCHANGED had
       \/ Ended(s) /\ Fault /\ UNCHANGED <<status, aged, asked>>
    /\ UNCHANGED live /\ Creating

\* MarkError of the slot, then the sandbox's row is deleted.
GiveBack(s) ==
    /\ sb[s].at = "delete"
    /\ \/ live' = live \ {sb[s].slot} /\ Goes(s, "mark") /\ UNCHANGED <<status, had>>
       \/ Fault /\ Refused(sb[s].slot) /\ Ended(s) /\ UNCHANGED live
    /\ UNCHANGED <<aged, asked>> /\ Creating
GivenBack(s) ==
    /\ sb[s].at = "mark"
    /\ Write(sb[s].slot, "error") /\ Ended(s)
    /\ UNCHANGED <<live, aged, asked, had>> /\ Creating

\* The worker dies; the sandbox's row stays as it is.
Claiming(s) == sb[s].at \in {"wait", "confirm", "delete", "mark"}
CreatorDies(s) ==
    /\ Claiming(s) /\ Fault /\ Ended(s)
    /\ UNCHANGED <<status, live, aged, asked>> /\ Creating
-----------------------------------------------------------------------------
(* ReapStaleSlots.                                                           *)

Reaping == UNCHANGED <<made, config, tasks, rec, chk, sb>>

\* Ten minutes in claiming: nobody claims the slot any more, or somebody is that slow.
Age(k) ==
    /\ status[k] = "claiming" /\ k \notin aged
    /\ aged' = aged \cup {k}
    /\ IF \E s \in Sandboxes : Claiming(s) /\ sb[s].slot = k THEN Trouble("lapse")
       ELSE UNCHANGED had
    /\ UNCHANGED <<status, live, reap>> /\ Reaping

\* mutant: the age of a claim is not looked at
StaleAnyAge == {k \in Slots : status[k] \in {"claiming", "deleting"}}
\* mutant: a deletion that failed is not tried again
StaleClaims == {k \in Slots : status[k] = "claiming" /\ k \in aged}
Stale == {k \in Slots : status[k] = "deleting" \/ (status[k] = "claiming" /\ k \in aged)}
ReapLists ==
    /\ reap.at = "idle" /\ Stale # {}
    /\ reap' = [Idle EXCEPT !.at = "reap", !.todo = Stale]
    /\ UNCHANGED <<status, live, aged, had>> /\ Reaping

ReapNext(k) == reap' = IF reap.todo = {k} THEN Idle
                       ELSE [reap EXCEPT !.slot = None, !.todo = @ \ {k}]
ReapDeletes ==
    /\ reap.at = "reap" /\ reap.slot = None
    /\ \E k \in reap.todo :
          \/ /\ live' = live \ {k}
             /\ reap' = [reap EXCEPT !.slot = k]
             /\ Late(status[k] = "claimed")
          \/ Fault /\ ReapNext(k) /\ UNCHANGED live
    /\ UNCHANGED <<status, aged>> /\ Reaping
ReapMarks ==
    /\ reap.at = "reap" /\ reap.slot # None
    /\ \/ Write(reap.slot, "error") /\ UNCHANGED had
       \/ Fault /\ UNCHANGED status
    /\ ReapNext(reap.slot)
    /\ UNCHANGED <<live, aged>> /\ Reaping
-----------------------------------------------------------------------------
Quiet == /\ ~asked /\ rec.at = "idle" /\ reap.at = "idle" /\ Stale = {}
         /\ \A c \in Checkers : chk[c].at = "idle"
         /\ \A s \in Sandboxes : sb[s].at \in {"up", "ended"}
         /\ UNCHANGED vars

Reconciles == Start \/ Drop \/ Dropped \/ Count \/ Trimmed \/ Provision \/ Insert \/ Recheck
Checks(c) == \/ \E k \in Slots : CheckStarts(c, k)
             \/ Probe(c) \/ CheckWrites(c) \/ CheckDeletes(c) \/ CheckMarks(c)
Creates(s) == Claim(s) \/ Reach(s) \/ Confirm(s) \/ GiveBack(s) \/ GivenBack(s)
Reaps == ReapLists \/ ReapDeletes \/ ReapMarks
Abandoned(k) == Age(k) /\ ~\E s \in Sandboxes : Claiming(s) /\ sb[s].slot = k

Next ==
    \/ \E n \in 0..MaxWant : Configure(n)
    \/ Reconciles \/ ReconcileDies
    \/ \E c \in Checkers : Checks(c) \/ CheckDies(c)
    \/ \E s \in Sandboxes : Creates(s) \/ CreatorDies(s)
    \/ \E k \in Slots : Age(k)
    \/ Reaps \/ Quiet

\* A creation goes on while its worker lives, the reaper is periodic, and time passes.
Fairness == /\ \A s \in Sandboxes : WF_vars(Creates(s))
            /\ WF_vars(Reaps)
            /\ \A k \in Slots : WF_vars(Abandoned(k))

Spec == Init /\ [][Next]_vars /\ Fairness
-----------------------------------------------------------------------------
(* Properties.                                                               *)

Steps == {"idle", "stale", "trim", "fill", "reap"}
TypeOK ==
    /\ status \in [Slots -> Status] /\ made \in 0..MaxSlots
    /\ \A k \in Slots : k > made => status[k] = "none" /\ k \notin live
    /\ live \subseteq Slots /\ old \subseteq Slots /\ aged \subseteq Slots
    /\ want \in 0..MaxWant /\ changes \in 0..MaxChanges /\ asked \in BOOLEAN
    /\ checks \in [Slots -> 0..MaxQueued]
    /\ {rec, reap} \subseteq [at : Steps, todo : SUBSET Slots, slot : Slots \cup {None}, n : 0..MaxWant]
    /\ chk \in [Checkers -> [at : {"idle", "probe", "write", "delete", "mark"},
                             slot : Slots \cup {None}]]
    /\ sb \in [Sandboxes -> [at : {"new", "wait", "confirm", "up", "delete", "mark", "ended"},
                       slot : Slots \cup {None}]]
    /\ had \in [fault : 0..MaxTrouble, lapse : 0..MaxTrouble, late : BOOLEAN]

\* A runtime belongs to one sandbox: two creations are never at the same slot, unless
\* a slot was made warm again by a check that read it before it was claimed.
OneHolder ==
    ~had.late =>
        \A s, t \in Sandboxes :
            sb[s].slot = sb[t].slot => s = t \/ sb[s].slot = None

\* The runtime of a sandbox whose creation ended well is still there: trimming, late
\* checks, failed deletions and the reaper take only what nobody holds, unless one of
\* them acts on a slot that changed after it was read, or a claim takes ten minutes.
HeldAlive ==
    ~had.late /\ had.lapse = 0 =>
        \A s \in Sandboxes : sb[s].at = "up" => sb[s].slot \in live

\* No resource is paid for without a row that says so: a slot in error, which nothing
\* looks at again, has none, and one without a row is about to get it, except after a
\* failure or a death between the two.
LeakFree ==
    \A k \in live : status[k] # "error"
                    /\ (status[k] = "none" => rec.slot = k \/ had.fault > 0)

\* The pool, with the slots a reconcile still has to create, is never larger than it was
\* configured to be, although slots are counted before they are created and only some
\* of them are warm.
Missing == IF rec.at = "fill" THEN rec.n ELSE 0
NotOverfilled == ~had.late => Cardinality(Current) + Missing <= MaxWant

\* A slot that was claimed or that could not be deleted does not stay like that: it is
\* claimed to the end or comes out of the reaper.
Unsettled(k) == status[k] \in {"claiming", "deleting"}
Reclaimed == []<>(\A k \in Slots : ~Unsettled(k))
=============================================================================
