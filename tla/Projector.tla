------------------------------ MODULE Projector ------------------------------
(***************************************************************************)
(* One shard of the event stream and the projectors of the API's replicas  *)
(* that compete for it: the shard's lease, the consumer group with its     *)
(* list of pending entries, the batch a projector has in memory, the rows  *)
(* of session_events and the turn state of the sessions.                   *)
(* (internal/runtimestream/projector*.go)                                  *)
(*                                                                         *)
(* A step is one command on Redis or one statement on Postgres.  Entries   *)
(* are known by their position in the stream, rows by the entry they were  *)
(* written for.  Of an entry the model keeps its session, its runtime_seq  *)
(* and whether it gets a row: user.message.received and what is not        *)
(* durable get none.  The projected_seq checkpoint is left out: it is      *)
(* written and never read.                                                 *)
(***************************************************************************)
EXTENDS Integers, Sequences, FiniteSets

CONSTANTS Projectors,   \* the replicas, each the one consumer of its process
          Sessions,     \* sessions of the shard
          None,         \* nobody
          BatchSize,    \* entries read or claimed at a time
          MaxEntries,   \* bound on the entries of the stream
          MaxQuiet,     \* bound on those that get no row
          MaxTrouble    \* bound on failing calls, leases lost, slow calls, crashes,
                        \* sessions deleted and sessions forgotten by Redis, together

ASSUME NobodyAssumption == None \notin Projectors
ASSUME SizesAssumption ==
    /\ BatchSize \in Nat \ {0} /\ MaxEntries \in Nat /\ MaxQuiet \in Nat /\ MaxTrouble \in Nat
    /\ IsFiniteSet(Sessions)

VARIABLES stream,   \* the entries: session, runtime_seq, whether they get a row
          last,     \* the runtime_seq Redis has of each session, 0 for none
          next,     \* the last entry the group was given
          pel,      \* entries given and not acknowledged
          stale,    \* of these, the ones idle for minIdle
          lease,    \* who holds the shard's lease
          proj,     \* what each projector does with which batch
          stored,   \* entries with a row in session_events
          applied,  \* entries whose turn state was written to their session
          state,    \* of each session, the entry whose turn state was written last
          gone,     \* sessions deleted
          had       \* what went wrong so far

redis    == <<stream, last, next, pel, stale>>
postgres == <<stored, applied, state, gone>>
vars     == <<redis, lease, proj, postgres, had>>

Entries == 1..MaxEntries
Least(S) == CHOOSE i \in S : \A j \in S : i <= j
\* The first n members of S.
First(n, S) == {i \in S : Cardinality({j \in S : j < i}) < n}
Of(s) == {i \in 1..Len(stream) : stream[i].of = s}

Quiet == {i \in 1..Len(stream) : ~ stream[i].persist}

Out == [at |-> "out", batch |-> {}, left |-> {}]
Running == [at |-> "run", batch |-> {}, left |-> {}]

Init ==
    /\ stream = <<>> /\ last = [s \in Sessions |-> 0] /\ next = 0 /\ pel = {} /\ stale = {}
    /\ lease = None
    /\ proj = [p \in Projectors |-> Out]
    /\ stored = {} /\ applied = {} /\ state = [s \in Sessions |-> 0] /\ gone = {}
    /\ had = [fault |-> 0, lapse |-> 0]

Troubled == had.fault + had.lapse + Cardinality(gone) < MaxTrouble
Trouble(kind) == Troubled /\ had' = [had EXCEPT ![kind] = @ + 1]
\* A call fails, before it took effect or after; a replica dies; Redis forgets.
Fault == Trouble("fault")
\* A lease is lost under its holder, or a call is slower than minIdle.
Lapse == Trouble("lapse")

\* appendScript, seen from here: the next number; or number 1 once more, of a new
\* sandbox, after the key with the session's last number has expired.
Add(s) ==
    /\ Len(stream) < MaxEntries /\ s \notin gone
    /\ \E n \in {last[s] + 1, 1}, persist \in BOOLEAN :
          /\ persist \/ Cardinality(Quiet) < MaxQuiet
          /\ stream' = Append(stream, [of |-> s, seq |-> n, persist |-> persist])
          /\ last' = [last EXCEPT ![s] = n]
          /\ IF n = last[s] + 1 THEN UNCHANGED had ELSE Fault
    /\ UNCHANGED <<next, pel, stale, lease, proj, postgres>>

\* A session is deleted with its rows in session_events.
Delete(s) ==
    /\ Troubled
    /\ gone' = gone \cup {s}
    /\ stored' = stored \ Of(s)
    /\ UNCHANGED <<redis, lease, proj, applied, state, had>>
-----------------------------------------------------------------------------
(* The lease of the shard.                                                   *)

\* runShard: SET NX.
Acquire(p) ==
    /\ proj[p].at = "out" /\ lease = None
    /\ lease' = p
    /\ proj' = [proj EXCEPT ![p] = Running]
    /\ UNCHANGED <<redis, postgres, had>>

\* The lease ends: its holder is dead, or could not renew it in time.
LeaseEnds ==
    /\ lease # None
    /\ lease' = None
    /\ IF proj[lease].at = "out" THEN UNCHANGED had ELSE Lapse
    /\ UNCHANGED <<redis, proj, postgres>>

\* renewShardLease sees that the lease is somebody else's and cancels the shard's
\* work: what it was doing is left where it is.
Notice(p) ==
    /\ proj[p].at # "out" /\ lease # p
    /\ proj' = [proj EXCEPT ![p] = Out]
    /\ UNCHANGED <<redis, lease, postgres, had>>

Crash(p) ==
    /\ proj[p].at # "out"
    /\ Fault
    /\ proj' = [proj EXCEPT ![p] = Out]
    /\ UNCHANGED <<redis, lease, postgres>>
-----------------------------------------------------------------------------
(* runOwnedShard.                                                            *)

Idle(p) == proj[p].at = "run" /\ proj[p].batch = {}

\* claimStale, the batch being empty: XAUTOCLAIM from the start of the list.
ClaimStale(p) ==
    /\ Idle(p) /\ stale # {}
    /\ LET taken == First(BatchSize, stale) IN
          /\ proj' = [proj EXCEPT ![p] = [at |-> "store", batch |-> taken, left |-> {}]]
          /\ stale' = stale \ taken
    /\ UNCHANGED <<stream, last, next, pel, lease, postgres, had>>

Room(p) == BatchSize - Cardinality(proj[p].batch)

\* XREADGROUP with ">": entries the group has not been given.  More may be stale
\* than the one batch claimed before.
Read(p) ==
    /\ proj[p].at = "run" /\ Room(p) > 0
    /\ next < Len(stream)
    /\ LET taken == First(Room(p), (next + 1)..Len(stream)) IN
          /\ proj' = [proj EXCEPT ![p].batch = @ \cup taken]
          /\ pel' = pel \cup taken
          /\ next' = next + Cardinality(taken)
    /\ UNCHANGED <<stream, last, stale, lease, postgres, had>>

\* A read or a renewal of the lease that fails ends runOwnedShard, and the batch with
\* it; runShard gives the lease back.
Stops(p) ==
    /\ proj[p].at # "out" /\ Fault
    /\ proj' = [proj EXCEPT ![p] = Out]
    /\ lease' = IF lease = p THEN None ELSE lease
    /\ UNCHANGED <<redis, postgres>>

\* The batch is full, or it has waited for flushWait.
Flush(p) ==
    /\ proj[p].at = "run" /\ proj[p].batch # {}
    /\ proj' = [proj EXCEPT ![p].at = "store"]
    /\ UNCHANGED <<redis, lease, postgres, had>>

\* An entry has been pending for minIdle: nobody has it in hand, or somebody
\* takes that long.
Age(i) ==
    /\ i \in pel \ stale
    /\ stale' = stale \cup {i}
    /\ IF \E p \in Projectors : i \in proj[p].batch THEN Lapse ELSE UNCHANGED had
    /\ UNCHANGED <<stream, last, next, pel, lease, proj, postgres>>
-----------------------------------------------------------------------------
(* processMessages, for a flushed or a claimed batch.                        *)

\* mutant: an error is logged and the batch acknowledged
AbandonToAck(p) == proj' = [proj EXCEPT ![p].at = "ack", ![p].left = {}]
\* An error is logged and the batch forgotten; its entries stay pending.
Abandon(p) == proj' = [proj EXCEPT ![p] = Running]
Deleted(i) == stream[i].of \in gone

\* The unique index of session_events: session_id, runtime_seq.
RowKey(i) == <<stream[i].of, stream[i].seq>>
\* runtimeSeqOnConflict: of these entries, the ones whose row is written.  Nothing is
\* done for one whose key has a row already, or comes before it in the statement.
Inserted(B) == {i \in B : \A j \in stored \cup B : RowKey(j) = RowKey(i) => j \notin stored /\ i <= j}
HasRow(i) == \E j \in stored : RowKey(j) = RowKey(i)

\* persistDurableEvents: the rows of the whole batch in one INSERT.  The row of a
\* session that is gone fails it.  A batch of which nothing is persisted is only
\* acknowledged.
Store(p) ==
    LET B == {i \in proj[p].batch : stream[i].persist} IN
    /\ proj[p].at = "store"
    /\ \/ /\ \A i \in B : ~Deleted(i)
          /\ stored' = stored \cup Inserted(B)
          /\ proj' = [proj EXCEPT ![p] =
                [@ EXCEPT !.at = IF B = {} THEN "ack" ELSE "project", !.left = B]]
          /\ UNCHANGED had
       \/ /\ \E i \in B : Deleted(i)
          /\ Abandon(p) /\ UNCHANGED <<stored, had>>
       \/ Fault /\ Abandon(p) /\ UNCHANGED stored
    /\ UNCHANGED <<redis, lease, applied, state, gone>>

\* projectSessionState: no condition on what the session says.
Advance(i) == state' = [state EXCEPT ![stream[i].of] = i]

\* publishCommittedEvent and projectSessionState, entry by entry: also where the row
\* was not written because another has its key.  A failure comes before the session's
\* update or after it (the delivery task cannot be enqueued).
Project(p) ==
    /\ proj[p].at = "project"
    /\ LET i == Least(proj[p].left)
           rest == proj[p].left \ {i}
       IN \/ /\ ~Deleted(i)
             /\ Advance(i)
             /\ applied' = applied \cup {i}
             /\ proj' = [proj EXCEPT ![p] =
                   [@ EXCEPT !.left = rest, !.at = IF rest = {} THEN "ack" ELSE "project"]]
             /\ UNCHANGED had
          \/ /\ Deleted(i)
             /\ Abandon(p) /\ UNCHANGED <<applied, state, had>>
          \/ /\ Fault /\ Abandon(p)
             /\ \/ ~Deleted(i) /\ Advance(i)
                \/ UNCHANGED state
             /\ UNCHANGED applied
    /\ UNCHANGED <<redis, lease, stored, gone>>

\* mutant: what was applied before is not acknowledged again
AckNewOnly(p) ==
    /\ proj[p].at = "ack"
    /\ pel' = pel \ (proj[p].batch \ applied) /\ stale' = stale \ (proj[p].batch \ applied)
    /\ Abandon(p)
    /\ UNCHANGED <<stream, last, next, lease, postgres, had>>
\* XACK, whoever holds the entries by now.
Ack(p) ==
    /\ proj[p].at = "ack"
    /\ \/ /\ pel' = pel \ proj[p].batch
          /\ stale' = stale \ proj[p].batch
          /\ UNCHANGED had
       \/ Fault /\ UNCHANGED <<pel, stale>>
    /\ Abandon(p)
    /\ UNCHANGED <<stream, last, next, lease, postgres>>
-----------------------------------------------------------------------------
AtRest == /\ Len(stream) = MaxEntries \/ gone = Sessions
          /\ next = Len(stream)
          /\ \A p \in Projectors : proj[p].batch = {}
          /\ UNCHANGED vars

Next ==
    \/ \E s \in Sessions : Add(s) \/ Delete(s)
    \/ \E i \in Entries : Age(i)
    \/ LeaseEnds \/ AtRest
    \/ \E p \in Projectors :
          \/ Acquire(p) \/ Notice(p) \/ Crash(p) \/ Stops(p)
          \/ ClaimStale(p) \/ Read(p) \/ Flush(p) \/ Store(p) \/ Project(p) \/ Ack(p)

\* A replica that runs goes on with its work, takes the lease when it can, and time passes
\* for the lease of a dead one and for pending entries.
Works(p) == \/ Notice(p) \/ ClaimStale(p) \/ Read(p) \/ Flush(p)
            \/ Store(p) \/ Project(p) \/ Ack(p)
Fairness ==
    /\ \A p \in Projectors : WF_vars(Works(p))
    /\ WF_vars(\E p \in Projectors : Acquire(p))
    /\ WF_vars(lease # None /\ proj[lease].at = "out" /\ LeaseEnds)
    /\ \A i \in Entries : WF_vars((\A p \in Projectors : i \notin proj[p].batch) /\ Age(i))

Spec == Init /\ [][Next]_vars /\ Fairness
-----------------------------------------------------------------------------
(* Properties.                                                               *)

Entry == [of : Sessions, seq : Nat, persist : BOOLEAN]
TypeOK ==
    /\ stream \in Seq(Entry) /\ Len(stream) <= MaxEntries /\ last \in [Sessions -> Nat]
    /\ next \in 0..Len(stream) /\ pel \subseteq 1..next /\ stale \subseteq pel
    /\ lease \in Projectors \cup {None}
    /\ proj \in [Projectors -> [at : {"out", "run", "store", "project", "ack"},
                                batch : SUBSET (1..next), left : SUBSET (1..next)]]
    /\ \A p \in Projectors : Cardinality(proj[p].batch) <= BatchSize
    /\ stored \subseteq 1..next /\ applied \subseteq 1..next
    /\ state \in [Sessions -> 0..next]
    /\ gone \subseteq Sessions
    /\ had \in [fault : 0..MaxTrouble, lapse : 0..MaxTrouble]

\* An entry that is to be persisted stays pending until a row with its session and
\* number is stored and its turn state written: neither a failed batch, a lost lease,
\* two projectors at the same entries nor a crash acknowledges what was not projected.
\* The row is its own unless the number was given twice: what a new sandbox sends
\* after Redis has forgotten the session may be acknowledged with an older event's
\* row in its place.
AckedProjected ==
    \A i \in 1..next : stream[i].persist /\ ~Deleted(i) =>
        \/ i \in pel
        \/ i \in applied /\ IF \A j \in 1..Len(stream) : RowKey(j) = RowKey(i) => j = i
                            THEN i \in stored ELSE HasRow(i)

\* While every call succeeds, no lease is lost and Redis forgets no session, the
\* session's turn state is that of the latest event projected: batches are read and
\* written in stream order.
Undisturbed == had.fault = 0 /\ had.lapse = 0 /\ gone = {}
StateIsLatest ==
    Undisturbed => \A s \in Sessions : \A i \in applied \cap Of(s) : i <= state[s]

\* Two replicas work on the shard at a time only after a lease was lost.
OneOwner ==
    had.lapse = 0 =>
        \A p, q \in Projectors : proj[p].at # "out" /\ proj[q].at # "out" => p = q

\* Every entry is stored, projected and acknowledged in the end, by whichever replica
\* is left, as long as no session of the shard is deleted under its events.
AllProjected == <>[](gone # {} \/ (next = Len(stream) /\ pel = {}))
=============================================================================
