---------------------------- MODULE RuntimeStream ----------------------------
(***************************************************************************)
(* The way of one session's events from the runtime to the event store:    *)
(* the outbox table in the sandbox's SQLite file, the dispatcher and its   *)
(* deliveries, the websocket and its acknowledgements, the ingress handler *)
(* of the API and the append script it runs on Redis.                      *)
(* (crates/outbound, crates/storage, handler/runtime_stream_ingress.go,    *)
(* runtimestream/store.go)                                                 *)
(*                                                                         *)
(* A step is one write through the runtime's single writer, one message on *)
(* the websocket, or one run of the script.  An event is its sandbox and   *)
(* its runtime_seq: the append script compares hashes of the payloads, and *)
(* those of two sandboxes differ.                                          *)
(***************************************************************************)
EXTENDS Integers, Sequences, FiniteSets

CONSTANTS Permits,       \* deliveries at a time (MAX_CONCURRENT_DELIVERIES)
          None,          \* no delivery waits for the frame
          MaxEvents,     \* bound on the events of one sandbox
          MaxBoxes,      \* bound on the sandboxes the session lives in
          MaxAttempts,   \* MAX_RETRY_ATTEMPTS
          MaxFaults,     \* bound on failing connections, calls and writes
          MaxLapses,     \* bound on leases that end under a running delivery
          MaxCrashes,    \* bound on crashes of the runtime
          MaxExpiries    \* bound on sessions forgotten by Redis

ASSUME PermitsAssumption == None \notin Permits
ASSUME LimitsAssumption ==
    MaxEvents \in Nat /\ MaxBoxes \in Nat \ {0} /\ MaxAttempts \in Nat \ {0} /\ MaxFaults \in Nat
    /\ MaxLapses \in Nat /\ MaxCrashes \in Nat /\ MaxExpiries \in Nat

VARIABLES box,        \* the sandbox the session lives in
          lastSeq,    \* runtime_event_sequences.last_seq
          row,        \* the row of each event in outbound_outbox
          delivery    \* what each running delivery does, with the rows it claimed

VARIABLES frames,     \* frames an ingress handler works on
          last,       \* Redis: last_seq of the session
          identity,   \* Redis: the event index of the session, 0 where it has no entry
          stream,     \* Redis: the session's entries in the stream
          used        \* counters behind the bounds

outbox == <<box, lastSeq, row>>
redis  == <<last, identity, stream>>
vars   == <<outbox, delivery, frames, redis, used>>

Seqs == 1..MaxEvents
Least(S) == CHOOSE s \in S : \A t \in S : s <= t
Elems(q) == {q[i] : i \in 1..Len(q)}
InStream(b, s) == [box |-> b, seq |-> s] \in Elems(stream)

NoRow == [status |-> "none", leased |-> FALSE, waiting |-> FALSE, attempts |-> 0]
Idle == [at |-> "idle", rows |-> {}, tries |-> [s \in Seqs |-> 0]]

Init ==
    /\ box = 1 /\ lastSeq = 0
    /\ row = [s \in Seqs |-> NoRow]
    /\ delivery = [d \in Permits |-> Idle]
    /\ frames = {}
    /\ last = 0 /\ identity = [s \in Seqs |-> 0] /\ stream = <<>>
    /\ used = [faults |-> 0, lapses |-> 0, crashes |-> 0, expiries |-> 0]

Fault == used.faults < MaxFaults /\ used' = [used EXCEPT !.faults = @ + 1]
-----------------------------------------------------------------------------
(* The outbox.                                                               *)

\* outbox_enqueue_runtime: the number and the row in one transaction.
Emit ==
    /\ lastSeq < MaxEvents
    /\ lastSeq' = lastSeq + 1
    /\ row' = [row EXCEPT ![lastSeq'] = [NoRow EXCEPT !.status = "pending"]]
    /\ UNCHANGED <<box, delivery, frames, redis, used>>

Pending == {s \in Seqs : row[s].status = "pending"}
Blocked(s) == row[s].leased \/ row[s].waiting
\* mutant: every row that is due by itself
DueAlone == {s \in Pending : ~Blocked(s)}
\* mutant: a lease does not hold a row back
DueLeased == {s \in Pending : \A t \in Pending : t <= s => ~row[t].waiting}
\* The pending rows up to the first that is leased or waits for its retry.
Due == {s \in Pending : \A t \in Pending : t <= s => ~Blocked(t)}

\* outbox_claim_due, and the task drain_one_batch starts for the group; or no
\* permit is left for it, and its rows go back as they are.
ClaimDue(d) ==
    /\ delivery[d].at = "idle"
    /\ Due # {}
    /\ row' = [s \in Seqs |-> IF s \in Due THEN [row[s] EXCEPT !.leased = TRUE] ELSE row[s]]
    /\ \/ /\ delivery' = [delivery EXCEPT ![d] =
                  [at |-> "send", rows |-> Due,
                   tries |-> [s \in Seqs |-> IF s \in Due THEN row[s].attempts ELSE 0]]]
          /\ UNCHANGED used
       \/ /\ Fault
          /\ delivery' = [delivery EXCEPT ![d] =
                  [at |-> "postpone", rows |-> Due,
                   tries |-> [s \in Seqs |-> IF s \in Due THEN row[s].attempts ELSE 0]]]
    /\ UNCHANGED <<box, lastSeq, frames, redis>>

\* The time of a retry has come.
RetryDue(s) ==
    /\ row[s].waiting
    /\ row' = [row EXCEPT ![s].waiting = FALSE]
    /\ UNCHANGED <<box, lastSeq, delivery, frames, redis, used>>

Holds(d, s) == s \in delivery[d].rows
\* A lease ends: nobody works on the row any more, or somebody does for longer
\* than OUTBOX_LEASE_SECONDS (connect_async has no timeout of its own).
LeaseEnds(s) ==
    /\ row[s].leased
    /\ row' = [row EXCEPT ![s].leased = FALSE]
    /\ \A d \in Permits : Holds(d, s) => delivery[d].at # "postpone"
    /\ IF \E d \in Permits : Holds(d, s)
       THEN used.lapses < MaxLapses /\ used' = [used EXCEPT !.lapses = @ + 1]
       ELSE UNCHANGED used
    /\ UNCHANGED <<box, lastSeq, delivery, frames, redis>>
-----------------------------------------------------------------------------
(* A delivery: deliver_rows, WebSocketChannel::deliver_batch.                *)

\* The session's connection is locked from here to the acknowledgement.
Connected(d) == delivery[d].at = "sent"
Frame(d) == [by |-> d, box |-> box, todo |-> delivery[d].rows]
Orphan(f) == [f EXCEPT !.by = None]

\* The frame is sent; or sent twice, the first connection broke; or no
\* connection comes up; or the channel is not registered.
Send(d) ==
    /\ delivery[d].at = "send"
    /\ \/ /\ ~ \E e \in Permits : Connected(e)
          /\ delivery' = [delivery EXCEPT ![d].at = "sent"]
          /\ \/ frames' = frames \cup {Frame(d)} /\ UNCHANGED used
             \/ frames' = frames \cup {Frame(d), Orphan(Frame(d))} /\ Fault
       \/ /\ \E at \in {"failed", "unregistered"} : delivery' = [delivery EXCEPT ![d].at = at]
          /\ Fault
          /\ UNCHANGED frames
    /\ UNCHANGED <<outbox, redis>>

\* ACK_TIMEOUT or a broken connection.  The handler of the frame goes on.
GiveUp(d) ==
    /\ Connected(d)
    /\ Fault
    /\ delivery' = [delivery EXCEPT ![d].at = "failed"]
    /\ frames' = {IF f.by = d THEN Orphan(f) ELSE f : f \in frames}
    /\ UNCHANGED <<outbox, redis>>

\* mutant: a failed attempt is not counted
Uncounted(tries) == tries
\* deliver_rows: the attempts of a row after a failure,
Attempts(tries) == tries + 1
\* ... and whether it was the last.
GivesUp(attempts) == attempts >= MaxAttempts

\* What becomes of a claimed row, by the outcome of its delivery.
Free(s, status) == [row[s] EXCEPT !.status = status, !.leased = FALSE]
Retry(attempts, waiting) ==
    [status |-> "pending", leased |-> FALSE, waiting |-> waiting, attempts |-> attempts]
Settled(s, at, tries) ==
    CASE at = "acked"        -> Free(s, "delivered")
      [] at = "unregistered" -> Free(s, "failed")
      [] at = "postpone"     -> Retry(tries, FALSE)
      [] at = "failed"       -> IF GivesUp(Attempts(tries)) THEN Free(s, "failed")
                                ELSE Retry(Attempts(tries), TRUE)

\* mark_delivered, mark_failed, schedule_retry: row by row, whatever the row
\* says by now.  A write that fails is logged and leaves the row leased.
Settle(d) ==
    /\ delivery[d].at \in {"acked", "failed", "unregistered", "postpone"}
    /\ LET s == Least(delivery[d].rows)
           rest == delivery[d].rows \ {s}
       IN /\ \/ /\ row' = [row EXCEPT ![s] = Settled(s, delivery[d].at, delivery[d].tries[s])]
                /\ UNCHANGED used
             \/ Fault /\ UNCHANGED row
          /\ delivery' = [delivery EXCEPT ![d] =
                IF rest = {} THEN Idle
                ELSE [at |-> @.at, rows |-> rest, tries |-> [@.tries EXCEPT ![s] = 0]]]
    /\ UNCHANGED <<box, lastSeq, frames, redis>>
-----------------------------------------------------------------------------
(* The ingress handler and the append script.                                *)

\* mutant: a gap is accepted
StatusNoGap(b, s) ==
    CASE s <= last /\ identity[s] = b -> "duplicate"
      [] s <= last /\ identity[s] # b -> "conflict"
      [] s > last                     -> "accepted"
\* appendScript: what it says of an event.
Status(b, s) ==
    CASE s <= last /\ identity[s] = b -> "duplicate"
      [] s <= last /\ identity[s] # b -> "conflict"
      [] s = last + 1                 -> "accepted"
      [] s > last + 1                 -> "gap"

\* ... and what it does.
Append1(b, s) ==
    IF Status(b, s) = "accepted"
    THEN /\ stream' = Append(stream, [box |-> b, seq |-> s])
         /\ identity' = [identity EXCEPT ![s] = b]
         /\ last' = s
    ELSE UNCHANGED redis

\* mutant: every answer counts as an acknowledgement
AnswerAcked(f, at) ==
    delivery' = IF f.by = None THEN delivery ELSE [delivery EXCEPT ![f.by].at = "acked"]
\* The answer reaches the delivery that waits for it, if one still does.
Answer(f, at) ==
    delivery' = IF f.by = None THEN delivery ELSE [delivery EXCEPT ![f.by].at = at]

Rest(f) == [f EXCEPT !.todo = @ \ {Least(@)}]

\* acceptRuntimeEvents takes the events of a frame one after the other.  A gap, a
\* conflict or an error of Redis (before or after the script ran) rejects the frame.
Ingest(f) ==
    LET s == Least(f.todo) IN
    /\ f \in frames
    /\ \/ /\ Status(f.box, s) \in {"accepted", "duplicate"}
          /\ Append1(f.box, s)
          /\ IF Rest(f).todo # {}
             THEN frames' = (frames \ {f}) \cup {Rest(f)} /\ UNCHANGED delivery
             ELSE frames' = frames \ {f} /\ Answer(f, "acked")
          /\ UNCHANGED used
       \/ /\ Status(f.box, s) \in {"gap", "conflict"}
          /\ frames' = frames \ {f} /\ Answer(f, "failed")
          /\ UNCHANGED <<redis, used>>
       \/ /\ Fault
          /\ Append1(f.box, s) \/ UNCHANGED redis
          /\ frames' = frames \ {f} /\ Answer(f, "failed")
    /\ UNCHANGED outbox
\* A frame whose connection is gone may never have been read.
Lose(f) ==
    /\ f \in frames /\ f.by = None
    /\ frames' = frames \ {f}
    /\ UNCHANGED <<outbox, delivery, redis, used>>
-----------------------------------------------------------------------------
(* What happens to the two sides.                                            *)

\* The runtime dies and starts again on the same database.
Crash ==
    /\ used.crashes < MaxCrashes
    /\ used' = [used EXCEPT !.crashes = @ + 1]
    /\ delivery' = [d \in Permits |-> Idle]
    /\ frames' = {Orphan(f) : f \in frames}
    /\ UNCHANGED <<outbox, redis>>

\* The sandbox is gone and the session gets a new one, with an empty database.
Replace ==
    /\ box < MaxBoxes
    /\ box' = box + 1
    /\ lastSeq' = 0
    /\ row' = [s \in Seqs |-> NoRow]
    /\ delivery' = [d \in Permits |-> Idle]
    /\ frames' = {Orphan(f) : f \in frames}
    /\ UNCHANGED <<redis, used>>

\* A week after the last append both keys of the session expire.
Expire ==
    /\ used.expiries < MaxExpiries
    /\ last # 0 /\ frames = {}
    /\ used' = [used EXCEPT !.expiries = @ + 1]
    /\ last' = 0 /\ identity' = [s \in Seqs |-> 0]
    /\ UNCHANGED <<outbox, delivery, frames, stream>>
-----------------------------------------------------------------------------
Done == /\ lastSeq = MaxEvents /\ frames = {} /\ Pending = {}
        /\ \A d \in Permits : delivery[d].at = "idle"
        /\ UNCHANGED vars

Next ==
    \/ Emit \/ Crash \/ Replace \/ Expire \/ Done
    \/ \E s \in Seqs : RetryDue(s) \/ LeaseEnds(s)
    \/ \E d \in Permits : ClaimDue(d) \/ Send(d) \/ GiveUp(d) \/ Settle(d)
    \/ \E f \in frames : Ingest(f) \/ Lose(f)

\* The dispatcher polls every 25 ms, time passes, a delivery ends by its own
\* timeouts and a handler works its frame off.  Nobody has to emit, and nothing
\* has to fail.
Fairness ==
    /\ \A s \in Seqs : WF_vars(RetryDue(s)) /\ WF_vars(LeaseEnds(s))
    /\ WF_vars(\E d \in Permits : ClaimDue(d))
    /\ \A d \in Permits : SF_vars(Send(d)) /\ WF_vars(Settle(d))
    /\ WF_vars(\E f \in frames : Ingest(f))

Spec == Init /\ [][Next]_vars /\ Fairness
-----------------------------------------------------------------------------
(* Properties.                                                               *)

TypeOK ==
    /\ box \in 1..MaxBoxes /\ lastSeq \in 0..MaxEvents
    /\ row \in [Seqs -> [status : {"none", "pending", "delivered", "failed"}, leased : BOOLEAN,
                         waiting : BOOLEAN, attempts : 0..(MaxAttempts - 1)]]
    /\ delivery \in [Permits ->
            [at : {"idle", "send", "sent", "acked", "failed", "unregistered", "postpone"},
             rows : SUBSET Seqs, tries : [Seqs -> 0..(MaxAttempts - 1)]]]
    /\ frames \subseteq [by : Permits \cup {None}, box : 1..MaxBoxes,
                         todo : (SUBSET Seqs) \ {{}}]
    /\ last \in 0..MaxEvents
    /\ identity \in [Seqs -> 0..MaxBoxes]
    /\ stream \in Seq([box : 1..MaxBoxes, seq : Seqs])
    /\ used \in [faults : 0..MaxFaults, lapses : 0..MaxLapses, crashes : 0..MaxCrashes,
                 expiries : 0..MaxExpiries]

\* What the outbox calls delivered is in the stream: neither a lost
\* acknowledgement, nor a frame sent twice, nor two deliveries of one row, nor a
\* crash makes the runtime drop an event the store never took.
DeliveredAccepted == \A s \in Seqs : row[s].status = "delivered" => InStream(box, s)

\* The store asks for an earlier event than the one it is sent only when the
\* runtime has given that one up, Redis has forgotten the session, or a lease
\* ended under its delivery: claims, retries, crashes and old connections never
\* open a hole by themselves.
GivenUp(b, s) == b = box /\ row[s].status = "failed" /\ ~InStream(b, s)
NoHole ==
    \A f \in frames, s \in Seqs :
        (f.box = box /\ used.expiries = 0 /\ used.lapses = 0 /\ s \in f.todo) =>
            \/ s <= last + 1 \/ s - 1 \in f.todo
            \/ \E t \in Seqs : t < s /\ GivenUp(f.box, t)

\* As long as no lease ends under a delivery, a row that is delivered or given up
\* stays so: mark_status and schedule_retry look at nothing, and only the claim
\* keeps a second delivery from writing over the first.
Final(s) == row[s].status \in {"delivered", "failed"}
SettledStays ==
    [][\A s \in Seqs : Final(s) /\ used.lapses = 0 /\ box' = box =>
            row'[s].status = row[s].status]_vars

\* The store keeps the promise of EventLog: every number once, in order, one event
\* for each, whatever frames of old and new connections and sandboxes interleave.
EL == INSTANCE EventLog WITH Sources <- 1..MaxBoxes, log <- stream, base <- Len(stream) - last
ImplementsEventLog == EL!Spec

\* The outbox empties, which the runtime's drain waits for: no row is retried for
\* ever, also when the store rejects it every time.
Drains == <>[](Pending = {})
=============================================================================
