--------------------------- MODULE TriggerDelivery ---------------------------
(***************************************************************************)
(* How an event of an integration becomes a message of one session: the    *)
(* dispatch tasks, which are redelivered, retried and doubled by a second  *)
(* connection to the same repository; the claims that tell them apart; the *)
(* session's queue; and the batches that gather the reviews of a pull      *)
(* request for thirty seconds before they are released as one message.     *)
(* (internal/tasks/agent_trigger_deliver.go,                               *)
(* agent_trigger_github_pr_route.go, agent_trigger_github_review_batch.go, *)
(* session_review_batch_flush.go)                                          *)
(*                                                                         *)
(* A step is one transaction, one enqueue or one call to the runtime.      *)
(* What a message says, which triggers match, how the session takes turns  *)
(* (SessionTurns) and tasks that run out of asynq's retries are left out.  *)
(***************************************************************************)
EXTENDS Integers, Sequences, FiniteSets

CONSTANTS Events,      \* events at the integration
          Stable,      \* those with an id of their own in the payload
          Reviews,     \* of these, the submitted reviews of the one pull request
          Suites,      \* of these, the completed check suites
          HeadOf,      \* the head commit of a suite, or its own key if it names none
          Deliveries,  \* dispatch tasks
          EventOf,     \* the event of each
          ClaimOf,     \* its claim, the delivery id: the connection and the event's stable
                       \* key, or the connection and an id drawn when the webhook came,
                       \* which the task keeps when it is retried
          Routed,      \* tasks that reach the session by the pull request it opened
          None,
          MaxFaults,   \* bound on calls that fail and workers that die
          MaxTasks     \* bound on equal tasks that wait

ASSUME ShapeAssumption ==
    /\ IsFiniteSet(Deliveries) /\ Routed \subseteq Deliveries
    /\ Stable \subseteq Events /\ Reviews \subseteq Stable /\ Suites \subseteq Stable
    /\ Reviews \cap Suites = {} /\ DOMAIN HeadOf = Suites
    /\ EventOf \in [Deliveries -> Events] /\ DOMAIN ClaimOf = Deliveries
    /\ \A d, f \in Deliveries : ClaimOf[d] = ClaimOf[f] => EventOf[d] = EventOf[f]
    /\ {MaxFaults, MaxTasks} \subseteq Nat /\ None \notin Nat

VARIABLES at,        \* how far each dispatch task is, and the row it is about
          claims,    \* rows of agent_trigger_deliveries
          queue,     \* rows of session_message_queue
          flushes,   \* flush tasks that wait, by row
          flushing,  \* flush tasks that run: the rows they have released
          delivers,  \* session delivery tasks that wait
          faults,    \* calls failed so far
          lost,      \* claims left behind without a message
          stranded   \* a row was left without a task

vars == <<at, claims, queue, flushes, flushing, delivers, faults, lost, stranded>>

\* triggerSessionEventID and prRouteEventID: the id under which the session knows the
\* event.  It is the event's stable key, whichever connection brought it; for an event
\* that has none, what the webhook drew; for a routed suite, the head commit it settles.
Key(d) ==
    LET e == EventOf[d] IN
    IF d \in Routed /\ e \in Suites THEN HeadOf[e]
    ELSE IF e \in Stable THEN e ELSE ClaimOf[d]
Keys == {Key(d) : d \in Deliveries}
Rows == 1..Cardinality(Keys)
Claims == {ClaimOf[d] : d \in Deliveries}
Holding(k) == {i \in DOMAIN queue : k \in queue[i].keys}
More(n) == IF n < MaxTasks THEN n + 1 ELSE n
Review(d) == EventOf[d] \in Reviews

Init ==
    /\ at = [d \in Deliveries |-> [step |-> "due", row |-> None]]
    /\ claims = {} /\ queue = <<>>
    /\ flushes = [i \in Rows |-> 0] /\ flushing = {} /\ delivers = 0
    /\ faults = 0 /\ lost = {} /\ stranded = FALSE

Fault == faults < MaxFaults /\ faults' = faults + 1
Goes(d, step) == at' = [at EXCEPT ![d].step = step]
\* The task fails and is tried again from the start.
Retries(d) == at' = [at EXCEPT ![d] = [step |-> "due", row |-> None]]
-----------------------------------------------------------------------------
(* A dispatch task.                                                          *)

\* maybeRoutePREvent goes on without a claim.
Route(d) ==
    /\ d \in Routed /\ at[d].step = "due"
    /\ Goes(d, "append")
    /\ UNCHANGED <<claims, queue, flushes, flushing, delivers, faults, lost, stranded>>

\* claimTriggerDelivery.  A review that is claimed already is left to whoever did it; any
\* other event asks for the session's delivery again.
Claim(d) ==
    /\ d \notin Routed /\ at[d].step = "due"
    /\ \/ /\ ClaimOf[d] \notin claims
          /\ claims' = claims \cup {ClaimOf[d]}
          /\ Goes(d, "append")
          /\ UNCHANGED faults
       \/ /\ ClaimOf[d] \in claims
          /\ Goes(d, IF Review(d) THEN "done" ELSE "ask")
          /\ UNCHANGED <<claims, faults>>
       \/ Fault /\ UNCHANGED <<at, claims>>
    /\ UNCHANGED <<queue, flushes, flushing, delivers, lost, stranded>>

\* The trigger path and the routed path give the batch of a pull request two keys.
BatchKey(d) == IF ~Review(d) THEN "none" ELSE IF d \in Routed THEN "routed" ELSE "triggered"
Row(d) == [keys |-> {Key(d)}, batch |-> BatchKey(d),
           status |-> IF Review(d) THEN "buffering" ELSE "pending"]
\* mutant: the event is looked for in its own row only, not in a batch
KnownFirst(d) == {i \in Holding(Key(d)) : ~Review(d)}
\* The row that holds the event's key already.
Known(d) == Holding(Key(d))
\* mutant: the batch is looked for by its key, whatever became of it
BatchesAny(d) == {i \in DOMAIN queue : queue[i].batch = BatchKey(d)}
\* The batch that still gathers reviews under this key.
Batches(d) == {i \in DOMAIN queue : queue[i].batch = BatchKey(d) /\ queue[i].status = "buffering"}

\* enqueueTriggerSessionMessage and enqueueGitHubReviewBatch, under the session's lock:
\* the row the event is in already, else the open batch, else a new row.
Written(d, i) ==
    \/ i \in Known(d) /\ UNCHANGED queue
    \/ /\ Known(d) = {} /\ Review(d) /\ i \in Batches(d)
       /\ queue' = [queue EXCEPT ![i].keys = @ \cup {Key(d)}]
    \/ /\ Known(d) = {} /\ (Review(d) => Batches(d) = {}) /\ i = Len(queue) + 1
       /\ queue' = Append(queue, Row(d))

\* mutant: a failure keeps the claim
ReleaseNever(d) == UNCHANGED claims
\* releaseTriggerDeliveryClaim.
Release(d) == claims' = IF d \in Routed THEN claims ELSE claims \ {ClaimOf[d]}

\* A failure releases the claim, if that does not fail as well: both use the task's
\* context, which may have ended.
Write(d) ==
    /\ at[d].step = "append"
    /\ \/ /\ \E i \in Rows :
                /\ Written(d, i)
                /\ at' = [at EXCEPT ![d] = [step |-> "ask", row |-> i]]
          /\ UNCHANGED <<claims, faults, lost>>
       \/ /\ Fault /\ Retries(d)
          /\ \/ Release(d) /\ UNCHANGED lost
             \/ /\ d \notin Routed
                /\ lost' = lost \cup {ClaimOf[d]} /\ UNCHANGED claims
          /\ UNCHANGED queue
    /\ UNCHANGED <<flushes, flushing, delivers, stranded>>

\* EnqueueSessionReviewBatchFlush or EnqueueSessionMessageDeliver.  The retry of a
\* claimed review comes no further than its claim.
Ask(d) ==
    /\ at[d].step = "ask"
    /\ \/ /\ IF Review(d)
             THEN /\ flushes' = [flushes EXCEPT ![at[d].row] = More(@)]
                  /\ UNCHANGED delivers
             ELSE delivers' = More(delivers) /\ UNCHANGED flushes
          /\ Goes(d, "done")
          /\ UNCHANGED <<faults, stranded>>
       \/ /\ Fault /\ Retries(d)
          /\ stranded' = (stranded \/ (Review(d) /\ d \notin Routed))
          /\ UNCHANGED <<flushes, delivers>>
    /\ UNCHANGED <<claims, queue, flushing, lost>>

\* The worker dies between two steps.
DispatchDies(d) ==
    /\ at[d].step \in {"append", "ask"} /\ Fault /\ Retries(d)
    /\ lost' = IF at[d].step = "append" /\ d \notin Routed THEN lost \cup {ClaimOf[d]} ELSE lost
    /\ stranded' = (stranded \/ (at[d].step = "ask" /\ Review(d) /\ d \notin Routed))
    /\ UNCHANGED <<claims, queue, flushes, flushing, delivers>>
-----------------------------------------------------------------------------
(* SessionReviewBatchFlushHandler.                                           *)

Set(i, st) == queue' = [queue EXCEPT ![i].status = st]

\* The batch is released, if it is still open.
FlushReleases(i) ==
    /\ flushes[i] > 0
    /\ flushes' = [flushes EXCEPT ![i] = @ - 1]
    /\ IF queue[i].status = "buffering" THEN Set(i, "pending") /\ flushing' = flushing \cup {i}
       ELSE UNCHANGED <<queue, flushing>>
    /\ UNCHANGED <<at, claims, delivers, faults, lost, stranded>>

\* mutant: the batch is opened again whatever became of it
ReopenAnyway(i) == Set(i, "buffering")
\* mutant: the batch stays released
ReopenNever(i) == UNCHANGED queue
Reopen(i) == IF queue[i].status = "pending" THEN Set(i, "buffering") ELSE UNCHANGED queue

\* The delivery is asked for.  A failure opens the batch again and the task comes back;
\* one that cannot open it, or a worker that dies, comes back to a released batch.
FlushAsks(i) ==
    /\ i \in flushing
    /\ flushing' = flushing \ {i}
    /\ \/ /\ delivers' = More(delivers)
          /\ UNCHANGED <<queue, flushes, faults, stranded>>
       \/ /\ Fault
          /\ flushes' = [flushes EXCEPT ![i] = More(@)]
          /\ \/ Reopen(i) /\ UNCHANGED stranded
             \/ stranded' = TRUE /\ UNCHANGED queue
          /\ UNCHANGED delivers
    /\ UNCHANGED <<at, claims, lost>>
-----------------------------------------------------------------------------
(* The session's delivery task, which SessionTurns has in full, with its lease and its
   worker's death.                                                                   *)

Undelivered == {i \in DOMAIN queue : queue[i].status # "delivered"}
First == {i \in Undelivered : \A j \in Undelivered : i <= j}

\* claimNext: the first row that is not delivered.  A task that finds it claimed, or
\* gathering reviews, ends.
DeliverClaims ==
    /\ delivers > 0 /\ delivers' = delivers - 1
    /\ \/ \E i \in First : queue[i].status = "pending" /\ Set(i, "processing")
       \/ (\A i \in First : queue[i].status # "pending") /\ UNCHANGED queue
    /\ UNCHANGED <<at, claims, flushes, flushing, faults, lost, stranded>>

\* deliverClaim with markDelivered or releaseClaim.  The end of the message's turn asks for
\* the next one.  A call that fails, before the runtime had the message or with only the
\* answer lost, gives the row back, and the task is tried again.
DeliverPosts(i) ==
    /\ i \in First /\ queue[i].status = "processing"
    /\ \/ Set(i, "delivered") /\ UNCHANGED faults
       \/ Fault /\ Set(i, "pending")
    /\ delivers' = More(delivers)
    /\ UNCHANGED <<at, claims, flushes, flushing, lost, stranded>>
-----------------------------------------------------------------------------
Dispatches(d) == Route(d) \/ Claim(d) \/ Write(d) \/ Ask(d)
Finished == /\ \A d \in Deliveries : at[d].step = "done"
            /\ \A i \in Rows : flushes[i] = 0
            /\ flushing = {} /\ delivers = 0
            /\ UNCHANGED vars

Works == \/ \E d \in Deliveries : Dispatches(d)
         \/ \E i \in Rows : FlushReleases(i) \/ FlushAsks(i) \/ DeliverPosts(i)
         \/ DeliverClaims

Next == Works \/ (\E d \in Deliveries : DispatchDies(d)) \/ Finished

\* As long as tasks wait, some worker takes one; a task is run again until it succeeds.
Fairness == WF_vars(Works)

Spec == Init /\ [][Next]_vars /\ Fairness
-----------------------------------------------------------------------------
(* Properties.                                                               *)

TypeOK ==
    /\ at \in [Deliveries -> [step : {"due", "append", "ask", "done"}, row : Rows \cup {None}]]
    /\ \A d \in Deliveries :
          /\ at[d].row # None => at[d].row \in DOMAIN queue
          /\ at[d].step = "ask" /\ Review(d) => at[d].row # None
    /\ claims \subseteq Claims /\ lost \subseteq Claims
    /\ queue \in Seq([keys : SUBSET Keys, batch : {"none", "routed", "triggered"},
                      status : {"buffering", "pending", "processing", "delivered"}])
    /\ Len(queue) <= Cardinality(Keys)
    /\ flushes \in [Rows -> 0..MaxTasks] /\ flushing \subseteq DOMAIN queue
    /\ \A i \in Rows : flushes[i] > 0 => i \in DOMAIN queue
    /\ delivers \in 0..MaxTasks /\ faults \in 0..MaxFaults /\ stranded \in BOOLEAN

\* A key is in one row: in a message or a batch, open, released or delivered.  So the
\* session hears of a comment, a review or an opened pull request once, over redeliveries,
\* retries and both connections; of any other event once for each webhook that brings it,
\* however often its task is retried; of a check suite once by the trigger and, with all
\* the suites of its head commit, once by the route.
OnceEach == \A k \in Keys : Cardinality(Holding(k)) <= 1

\* A key whose tasks are done is in the queue, unless one of its claims was left behind
\* by a worker that died or a release that failed.
Kept ==
    \A k \in Keys :
        LET its == {d \in Deliveries : Key(d) = k} IN
        (\A d \in its : at[d].step = "done") /\ (\A d \in its : ClaimOf[d] \notin lost)
        => Holding(k) # {}

\* What a message says is settled once it can be delivered: a review that comes while
\* its batch is released goes into the next one.  A message recorded as delivered stays
\* so: a flush that failed late does not open a batch which the session has read.  One
\* that the runtime accepted without its answer coming back is not recorded, and may be
\* opened again.
Sealed ==
    [][\A i \in DOMAIN queue :
          /\ queue[i].status # "buffering" => queue'[i].keys = queue[i].keys
          /\ queue[i].status = "delivered" => queue'[i].status = "delivered"]_vars

\* Every message is delivered in the end, an open batch in front of it or not, unless a
\* batch was left without its flush, or a released one without its delivery.
Delivered == <>[](stranded \/ Undelivered = {})
=============================================================================
