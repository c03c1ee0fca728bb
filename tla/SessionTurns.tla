---------------------------- MODULE SessionTurns ----------------------------
(***************************************************************************)
(* One session in the control plane: its row (agent_turn_status and        *)
(* agent_turn_id), its rows of session_message_queue, the asynq delivery   *)
(* tasks and the workers that run them, the API calls that deliver a       *)
(* message directly, and everything that gives the turn back: the stream   *)
(* projector, the turn-state callback, an interrupt, the watchdog.         *)
(* (internal/tasks, internal/handler, internal/runtimestream)              *)
(*                                                                         *)
(* A step is one transaction or one statement on Postgres, or one call to  *)
(* the runtime.  A message names the turn it starts.  Nothing under src/   *)
(* writes 'draining' into sandboxes.status, so the two checks of that      *)
(* column before a delivery never fire; the runtime's own refusal does.    *)
(***************************************************************************)
EXTENDS Integers, Sequences, FiniteSets

CONSTANTS Posts,          \* messages users post through the API
          Triggers,       \* messages workers append to the queue
          Workers,        \* asynq workers that run delivery tasks
          None,           \* no turn id, no message
          MaxRetry,       \* asynq.MaxRetry of a delivery task
          MaxFailures,    \* bound on failing calls, crashes and timeouts
          MaxInterrupts,  \* bound on user interrupts
          MaxDrains,      \* bound on drains of the runtime
          MaxCallbacks    \* bound on turn-state callbacks that are not lost

Messages == Posts \cup Triggers

ASSUME MessagesAssumption == Posts \cap Triggers = {} /\ None \notin Messages
ASSUME BoundsAssumption ==
    MaxRetry \in Nat /\ MaxFailures \in Nat /\ MaxInterrupts \in Nat /\ MaxDrains \in Nat
    /\ MaxCallbacks \in Nat

VARIABLES status,     \* sessions.agent_turn_status
          turn,       \* sessions.agent_turn_id, None for ''
          queue,      \* the messages with a queue row, by sequence_number
          row,        \* status of a message's queue row
          leased,     \* its leased_until lies in the future
          tasks,      \* delivery tasks waiting, by the retries they have behind them
          worker,     \* what each worker is doing
          sender,     \* what the request or task that brought the message is doing
          interrupt   \* what the interrupt request is doing

VARIABLES inbox,      \* runtime: turns accepted and not yet started
          running,    \* runtime: the turn that runs
          draining,   \* runtime: refuses messages
          stream,     \* durable events the projector has not read
          unacked,    \* events whose projection failed, claimed again later
          callbacks   \* turn-state callbacks on their way

VARIABLES posted,     \* observer: the messages the runtime accepted, in order
          lost,       \* observer: accepted, but the sender could not record it
          stranded,   \* observer: rows left behind by a step that enqueues nothing
          used        \* counters behind the bounds

session == <<status, turn>>
rows    == <<queue, row, leased>>
actors  == <<tasks, worker, sender, interrupt>>
runtime == <<inbox, running, draining>>
events  == <<stream, unacked, callbacks>>
history == <<posted, lost, stranded, used>>
vars    == <<session, rows, actors, runtime, events, history>>

Elems(s) == {s[i] : i \in 1..Len(s)}
Undelivered == {m \in Messages : row[m] \in {"pending", "processing"}}
Idle == [at |-> "idle", msg |-> None, try |-> 0]
\* Past claimNext and not yet done with the row.
Holding(w) == worker[w].at \in {"post", "record", "release", "release drained"}

Init ==
    /\ status = "idle" /\ turn = None
    /\ queue = <<>>
    /\ row = [m \in Messages |-> "none"]
    /\ leased = [m \in Messages |-> FALSE]
    /\ tasks = [k \in 0..MaxRetry |-> 0]
    /\ worker = [w \in Workers |-> Idle]
    /\ sender = [m \in Messages |-> "new"]
    /\ interrupt = "none"
    /\ inbox = <<>> /\ running = None /\ draining = FALSE
    /\ stream = <<>> /\ unacked = {} /\ callbacks = {}
    /\ posted = <<>> /\ lost = {} /\ stranded = {}
    /\ used = [failures |-> 0, interrupts |-> 0, drains |-> 0, callbacks |-> 0]

Fail == /\ used.failures < MaxFailures
        /\ used' = [used EXCEPT !.failures = @ + 1]

\* EnqueueSessionMessageDeliver.
Enqueue == tasks' = [tasks EXCEPT ![0] = @ + 1]
\* asynq runs a failed task again until it has used up its retries.
Retry(k) == tasks' = IF k < MaxRetry THEN [tasks EXCEPT ![k + 1] = @ + 1] ELSE tasks

Starting == status' = "active" /\ turn' = None
Active(t) == status' = "active" /\ turn' = t
Released == status' = "idle" /\ turn' = None

\* PostHTTPMessage as the runtime sees it.
Accept(m) == inbox' = Append(inbox, m) /\ posted' = Append(posted, m)
Refuse == UNCHANGED <<inbox, posted>>
-----------------------------------------------------------------------------
(* The API: createSessionMessageIntent, dispatchSessionMessageIntent.        *)

\* The session row is locked.  A turn is active: the message queues behind it,
\* and nobody is told.  Otherwise the turn is this message's, whatever the
\* queue holds.
CreateIntent(m) ==
    /\ sender[m] = "new"
    /\ IF status = "active"
       THEN /\ queue' = Append(queue, m)
            /\ row' = [row EXCEPT ![m] = "pending"]
            /\ sender' = [sender EXCEPT ![m] = "done"]
            /\ UNCHANGED session
       ELSE /\ Starting
            /\ sender' = [sender EXCEPT ![m] = "post"]
            /\ UNCHANGED <<queue, row>>
    /\ UNCHANGED <<leased, tasks, worker, interrupt, runtime, events, posted, lost, stranded, used>>

\* DeliverCommand: accepted; refused; failed before the runtime had the message;
\* or accepted with the answer lost.
PostDirect(m) ==
    /\ sender[m] = "post"
    /\ \/ /\ ~draining /\ Accept(m)
          /\ sender' = [sender EXCEPT ![m] = "record"]
          /\ UNCHANGED <<lost, used>>
       \/ /\ draining /\ Refuse
          /\ sender' = [sender EXCEPT ![m] = "release"]
          /\ UNCHANGED <<lost, used>>
       \/ /\ Fail /\ Refuse
          /\ sender' = [sender EXCEPT ![m] = "release"]
          /\ UNCHANGED lost
       \/ /\ ~draining /\ Fail /\ Accept(m)
          /\ sender' = [sender EXCEPT ![m] = "release"]
          /\ lost' = lost \cup {m}
    /\ UNCHANGED <<session, rows, tasks, worker, interrupt, running, draining, events, stranded>>

\* recordDirectSessionDelivery: no condition on the session's present turn.
RecordDirect(m) ==
    /\ sender[m] = "record"
    /\ sender' = [sender EXCEPT ![m] = "done"]
    /\ \/ Active(m) /\ UNCHANGED used
       \/ Fail /\ UNCHANGED session
    /\ UNCHANGED <<rows, tasks, worker, interrupt, runtime, events, posted, lost, stranded>>

\* The delivery failed.  DeliverCommand has replaced the runtime's answer by
\* ErrSessionRuntimeDraining, which IsRuntimeDrainingError does not recognise:
\* a refusal takes the path of every other error.  The release's own error is
\* dropped: the turn then stays active.
ReleaseDirect(m) ==
    /\ sender[m] = "release"
    /\ sender' = [sender EXCEPT ![m] = "done"]
    /\ \/ Released /\ stranded' = stranded \cup Undelivered /\ UNCHANGED used
       \/ Fail /\ UNCHANGED <<session, stranded>>
    /\ UNCHANGED <<rows, tasks, worker, interrupt, runtime, events, posted, lost>>

\* enqueueTriggerSessionMessage: always a queue row; then a delivery task.  The
\* trigger's own task is run again until both are done, or it is out of retries.
AppendTrigger(m) ==
    /\ sender[m] = "new"
    /\ queue' = Append(queue, m)
    /\ row' = [row EXCEPT ![m] = "pending"]
    /\ sender' = [sender EXCEPT ![m] = "enqueue"]
    /\ UNCHANGED <<session, leased, tasks, worker, interrupt, runtime, events, history>>

EnqueueTrigger(m) ==
    /\ sender[m] = "enqueue"
    /\ sender' = [sender EXCEPT ![m] = "done"]
    /\ \/ Enqueue /\ UNCHANGED <<stranded, used>>
       \/ Fail /\ UNCHANGED tasks /\ stranded' = stranded \cup Undelivered
    /\ UNCHANGED <<session, rows, worker, interrupt, runtime, events, posted, lost>>
-----------------------------------------------------------------------------
(* A delivery task: DispatchNext. *)

\* mutant: any row in 'processing' may be claimed
ClaimableUnleased(i) ==
    /\ row[queue[i]] \in {"pending", "processing"}
    /\ \A j \in 1..(i - 1) : row[queue[j]] = "delivered"
\* mutant: no NOT EXISTS over the earlier rows
ClaimableAnyOrder(i) ==
    \/ row[queue[i]] = "pending"
    \/ row[queue[i]] = "processing" /\ ~leased[queue[i]]

\* The WHERE of claimNext's query.
Claimable(i) ==
    /\ \/ row[queue[i]] = "pending"
       \/ row[queue[i]] = "processing" /\ ~leased[queue[i]]
    /\ \A j \in 1..(i - 1) : row[queue[j]] = "delivered"

\* claimNext.  While a turn is active, or when no row qualifies, the task ends
\* and counts as done.  No row qualifies also while the first one is leased: if
\* its worker is gone, the task was the last to care.
DropTask(w, k) ==
    /\ worker[w] = Idle /\ tasks[k] > 0
    /\ status = "active" \/ ~ \E i \in 1..Len(queue) : Claimable(i)
    /\ tasks' = [tasks EXCEPT ![k] = @ - 1]
    /\ stranded' = IF status = "idle" /\ \A v \in Workers : ~ Holding(v)
                   THEN stranded \cup Undelivered ELSE stranded
    /\ UNCHANGED <<session, rows, worker, sender, interrupt, runtime, events, posted, lost, used>>

ClaimNext(w, k, i) ==
    /\ worker[w] = Idle /\ tasks[k] > 0
    /\ status = "idle" /\ Claimable(i)
    /\ tasks' = [tasks EXCEPT ![k] = @ - 1]
    /\ row' = [row EXCEPT ![queue[i]] = "processing"]
    /\ leased' = [leased EXCEPT ![queue[i]] = TRUE]
    /\ Starting
    /\ worker' = [worker EXCEPT ![w] = [at |-> "post", msg |-> queue[i], try |-> k]]
    /\ UNCHANGED <<queue, sender, interrupt, runtime, events, history>>

\* deliverClaim.
PostClaim(w) ==
    LET m == worker[w].msg
        GoTo(pc) == worker' = [worker EXCEPT ![w].at = pc]
    IN
    /\ worker[w].at = "post"
    /\ \/ ~draining /\ Accept(m) /\ GoTo("record") /\ UNCHANGED <<lost, used>>
       \/ draining /\ Refuse /\ GoTo("release drained") /\ UNCHANGED <<lost, used>>
       \/ Fail /\ Refuse /\ GoTo("release") /\ UNCHANGED lost
       \/ ~draining /\ Fail /\ Accept(m) /\ GoTo("release") /\ lost' = lost \cup {m}
    /\ UNCHANGED <<session, rows, tasks, sender, interrupt, running, draining, events, stranded>>

\* markDelivered: no condition on the session's present turn.
MarkDelivered(w) ==
    LET m == worker[w].msg IN
    /\ worker[w].at = "record"
    /\ row' = [row EXCEPT ![m] = "delivered"]
    /\ leased' = [leased EXCEPT ![m] = FALSE]
    /\ Active(m)
    /\ worker' = [worker EXCEPT ![w] = Idle]
    /\ UNCHANGED <<queue, tasks, sender, interrupt, runtime, events, history>>

\* releaseClaim, then releaseSessionTurn or releaseSessionTurnIdle.
ReleaseClaim(w) ==
    LET m == worker[w].msg IN
    /\ worker[w].at \in {"release", "release drained"}
    /\ IF row[m] = "processing"
       THEN /\ row' = [row EXCEPT ![m] = "pending"]
            /\ leased' = [leased EXCEPT ![m] = FALSE]
       ELSE UNCHANGED <<row, leased>>
    /\ worker' = [worker EXCEPT ![w].at = IF @ = "release" THEN "unlock" ELSE "unlock drained"]
    /\ UNCHANGED <<session, queue, tasks, sender, interrupt, runtime, events, history>>

\* Handle counts a refusal as done; any other error is retried.
ReleaseTurn(w) ==
    /\ worker[w].at \in {"unlock", "unlock drained"}
    /\ Released
    /\ IF worker[w].at = "unlock" THEN Retry(worker[w].try) ELSE UNCHANGED tasks
    /\ stranded' = IF worker[w].at = "unlock" /\ worker[w].try < MaxRetry
                   THEN stranded ELSE stranded \cup Undelivered
    /\ worker' = [worker EXCEPT ![w] = Idle]
    /\ UNCHANGED <<rows, sender, interrupt, runtime, events, posted, lost, used>>

\* The worker dies, a statement fails, or the task's three minutes are over:
\* the releases run on the task's own context and are lost with it.
Abandon(w) ==
    /\ worker[w] # Idle
    /\ Fail
    /\ Retry(worker[w].try)
    /\ worker' = [worker EXCEPT ![w] = Idle]
    /\ lost' = IF worker[w].at = "record" THEN lost \cup {worker[w].msg} ELSE lost
    /\ stranded' = stranded \cup Undelivered
    /\ UNCHANGED <<session, rows, sender, interrupt, runtime, events, posted>>

\* A lease (5 minutes) outlives the task that took it (3 minutes).
LeaseExpires(m) ==
    /\ leased[m]
    /\ \A w \in Workers : worker[w].msg # m
    /\ leased' = [leased EXCEPT ![m] = FALSE]
    /\ UNCHANGED <<session, queue, row, actors, runtime, events, history>>
-----------------------------------------------------------------------------
(* The runtime, as TurnCoordinator describes it: one turn at a time; what    *)
(* arrives meanwhile is merged into one later turn.                          *)

Emit(kind, t) ==
    LET e == [kind |-> kind, turn |-> t] IN
    /\ stream' = Append(stream, e)
    /\ \/ UNCHANGED <<callbacks, used>>
       \/ /\ used.callbacks < MaxCallbacks
          /\ callbacks' = callbacks \cup {e}
          /\ used' = [used EXCEPT !.callbacks = @ + 1]

RuntimeStart ==
    /\ running = None /\ inbox # <<>>
    /\ running' = Head(inbox) /\ inbox' = <<>>
    /\ Emit("started", Head(inbox))
    /\ UNCHANGED <<session, rows, actors, draining, unacked, posted, lost, stranded>>

RuntimeFinish ==
    /\ running # None
    /\ running' = None
    /\ Emit("ended", running)
    /\ UNCHANGED <<session, rows, actors, inbox, draining, unacked, posted, lost, stranded>>

\* The sandbox dies with its turn and what was queued.
RuntimeCrash ==
    /\ running # None \/ inbox # <<>>
    /\ Fail
    /\ running' = None /\ inbox' = <<>>
    /\ UNCHANGED <<session, rows, actors, draining, events, posted, lost, stranded>>

Drain ==
    /\ IF draining THEN UNCHANGED used
       ELSE used.drains < MaxDrains /\ used' = [used EXCEPT !.drains = @ + 1]
    /\ draining' = ~draining
    /\ UNCHANGED <<session, rows, actors, inbox, running, events, posted, lost, stranded>>
-----------------------------------------------------------------------------
(* What gives the turn back. *)

\* mutant: the projector releases the turn and leaves the queue to others
ProjectSilent(e) ==
    /\ IF e.kind = "started" THEN Active(e.turn) ELSE Released
    /\ UNCHANGED tasks

\* projectSessionState: whatever turn the session is in; then
\* enqueuePendingSessionDelivery.
ProjectSessionState(e) ==
    /\ IF e.kind = "started" THEN Active(e.turn) ELSE Released
    /\ IF e.kind = "ended" /\ Undelivered # {} THEN Enqueue ELSE UNCHANGED tasks

Project ==
    /\ stream # <<>>
    /\ stream' = Tail(stream)
    /\ ProjectSessionState(Head(stream))
    /\ UNCHANGED <<rows, worker, sender, interrupt, runtime, unacked, callbacks, history>>

\* A batch fails before its event reached the session row, after it, or with
\* all done but the acknowledgement.  Its messages stay unacknowledged; later
\* batches are read before they come back.
ProjectFails ==
    /\ stream # <<>>
    /\ Fail
    /\ stream' = Tail(stream)
    /\ unacked' = unacked \cup {Head(stream)}
    /\ \/ UNCHANGED <<session, tasks>>
       \/ ProjectSessionState(Head(stream))
       \/ /\ IF Head(stream).kind = "started" THEN Active(Head(stream).turn) ELSE Released
          /\ UNCHANGED tasks
    /\ UNCHANGED <<rows, worker, sender, interrupt, runtime, callbacks, posted, lost, stranded>>

ProjectAgain(e) ==
    /\ e \in unacked
    /\ unacked' = unacked \ {e}
    /\ ProjectSessionState(e)
    /\ UNCHANGED <<rows, worker, sender, interrupt, runtime, stream, callbacks, history>>

\* applyRuntimeTurnState: only for the turn the session is in, and no task.  A
\* callback behind the projection of the same end has nobody to enqueue for it.
Callback(e) ==
    LET applies == /\ status = "active"
                   /\ turn = e.turn \/ (e.kind = "started" /\ turn = None)
        late == e \notin Elems(stream) \cup unacked
    IN
    /\ e \in callbacks
    /\ callbacks' = callbacks \ {e}
    /\ IF ~applies THEN UNCHANGED session
       ELSE IF e.kind = "started" THEN Active(e.turn) ELSE Released
    /\ stranded' = IF applies /\ e.kind = "ended" /\ late
                   THEN stranded \cup Undelivered ELSE stranded
    /\ UNCHANGED <<rows, actors, runtime, stream, unacked, posted, lost, used>>

\* Interrupt: the runtime has been told; releaseSessionTurnAfterInterrupt.
Interrupt ==
    /\ interrupt = "none"
    /\ used.interrupts < MaxInterrupts
    /\ used' = [used EXCEPT !.interrupts = @ + 1]
    /\ interrupt' = "release"
    /\ UNCHANGED <<session, rows, tasks, worker, sender, runtime, events, posted, lost, stranded>>

\* No turn to release, or the statement fails: the request ends here.
InterruptRelease ==
    /\ interrupt = "release"
    /\ \/ status = "active" /\ Released /\ interrupt' = "count" /\ UNCHANGED used
       \/ status = "idle" /\ UNCHANGED <<session, used>> /\ interrupt' = "none"
       \/ Fail /\ UNCHANGED session /\ interrupt' = "none"
    /\ UNCHANGED <<rows, tasks, worker, sender, runtime, events, posted, lost, stranded>>

\* The turn is back already.  The count may fail, the error of the enqueue is
\* dropped, and the API process may die in between: then nobody is told.
InterruptEnqueue ==
    /\ interrupt = "count"
    /\ interrupt' = "none"
    /\ \/ /\ IF Undelivered # {} THEN Enqueue ELSE UNCHANGED tasks
          /\ UNCHANGED <<stranded, used>>
       \/ Fail /\ UNCHANGED tasks /\ stranded' = stranded \cup Undelivered
    /\ UNCHANGED <<session, rows, worker, sender, runtime, events, posted, lost>>

Quiet == /\ running = None /\ inbox = <<>> /\ stream = <<>> /\ unacked = {}
         /\ \A w \in Workers : worker[w] = Idle
         /\ \A m \in Posts : sender[m] \notin {"post", "record", "release"}

\* mutant: the watchdog looks for turns that have an id
WatchdogWithId ==
    /\ status = "active" /\ turn # None /\ Quiet
    /\ Released
    /\ stranded' = stranded \cup Undelivered
    /\ UNCHANGED <<rows, actors, runtime, events, posted, lost, used>>

\* The periodic watchdog: half an hour without an event.  Requests and tasks
\* take minutes and a live turn streams events, so all of them are over.
Watchdog ==
    /\ status = "active" /\ Quiet
    /\ Released
    /\ stranded' = stranded \cup Undelivered
    /\ UNCHANGED <<rows, actors, runtime, events, posted, lost, used>>
-----------------------------------------------------------------------------
WorkerStep(w) ==
    \/ \E k \in 0..MaxRetry : \/ DropTask(w, k)
                              \/ \E i \in 1..Len(queue) : ClaimNext(w, k, i)
    \/ PostClaim(w) \/ MarkDelivered(w) \/ ReleaseClaim(w) \/ ReleaseTurn(w)

SenderStep(m) ==
    \/ m \in Posts /\ (PostDirect(m) \/ RecordDirect(m) \/ ReleaseDirect(m))
    \/ m \in Triggers /\ EnqueueTrigger(m)

Next ==
    \/ \E m \in Posts : CreateIntent(m)
    \/ \E m \in Triggers : AppendTrigger(m)
    \/ \E m \in Messages : SenderStep(m) \/ LeaseExpires(m)
    \/ \E w \in Workers : WorkerStep(w) \/ Abandon(w)
    \/ RuntimeStart \/ RuntimeFinish \/ RuntimeCrash \/ Drain
    \/ Project \/ ProjectFails \/ (\E e \in unacked : ProjectAgain(e))
    \/ \E e \in callbacks : Callback(e)
    \/ Interrupt \/ InterruptRelease \/ InterruptEnqueue
    \/ Watchdog

\* asynq runs every task, a request runs to its end, a turn ends, the projector
\* reads its stream and claims what is left unacknowledged, the watchdog is
\* periodic.  Nothing promises that a callback arrives.
Fairness ==
    /\ \A m \in Messages : WF_vars(SenderStep(m)) /\ WF_vars(LeaseExpires(m))
    /\ \A w \in Workers : WF_vars(WorkerStep(w))
    /\ WF_vars(RuntimeStart) /\ WF_vars(RuntimeFinish)
    /\ WF_vars(Project) /\ WF_vars(\E e \in unacked : ProjectAgain(e))
    /\ WF_vars(InterruptRelease) /\ WF_vars(InterruptEnqueue)
    /\ WF_vars(Watchdog)
    /\ WF_vars(draining /\ Drain)

Spec == Init /\ [][Next]_vars
FairSpec == Spec /\ Fairness
-----------------------------------------------------------------------------
Event == [kind : {"started", "ended"}, turn : Messages]

TypeOK ==
    /\ status \in {"idle", "active"} /\ turn \in Messages \cup {None}
    /\ status = "idle" => turn = None
    /\ queue \in Seq(Messages)
    /\ row \in [Messages -> {"none", "pending", "processing", "delivered"}]
    /\ leased \in [Messages -> BOOLEAN]
    /\ tasks \in [0..MaxRetry -> Nat]
    /\ worker \in [Workers -> [at : {"idle", "post", "record", "release", "unlock",
                                     "release drained", "unlock drained"},
                               msg : Messages \cup {None}, try : 0..MaxRetry]]
    /\ sender \in [Messages -> {"new", "post", "record", "release", "enqueue", "done"}]
    /\ interrupt \in {"none", "release", "count"}
    /\ inbox \in Seq(Messages) /\ running \in Messages \cup {None}
    /\ draining \in BOOLEAN
    /\ stream \in Seq(Event) /\ unacked \subseteq Event /\ callbacks \subseteq Event
    /\ posted \in Seq(Messages)

\* The queue has one deliverer: of the workers past claimNext and not yet done
\* with their row there is at most one, although late events may set the session
\* idle under it (session_message_deliver_claim.go:36-51).
OneDeliverer == \A v, w \in Workers : Holding(v) /\ Holding(w) => v = w

\* Rows reach the runtime in the order of their sequence numbers, through
\* failures, retries and claims that expire.
PostedInOrder ==
    \A i, j \in 1..Len(queue) : i < j /\ queue[j] \in Elems(posted) =>
        \E p \in 1..Len(posted) :
            /\ posted[p] = queue[i]
            /\ \A q \in 1..(p - 1) : posted[q] # queue[j]

\* A message reaches the runtime twice only if its sender could not write down
\* that it had: no interleaving of tasks, requests and events alone repeats it.
PostedOnce ==
    \A p, q \in 1..Len(posted) : p < q /\ posted[p] = posted[q] => posted[p] \in lost

Ends(s) == \E e \in s : e.kind = "ended"
Carrier ==
    \/ \E k \in 0..MaxRetry : tasks[k] > 0
    \/ \E w \in Workers : worker[w] # Idle
    \/ \E m \in Messages : sender[m] \in {"post", "record", "release", "enqueue"}
    \/ interrupt # "none"
    \/ running # None \/ inbox # <<>> \/ Ends(Elems(stream)) \/ Ends(unacked)

\* An idle session with rows to deliver has somebody who will: a task, a worker,
\* a request, or a turn whose end is still to be projected.  The exceptions are
\* rows left behind where nothing is enqueued: by the watchdog, a direct delivery
\* that failed, an interrupt whose count or enqueue failed, a trigger's task out
\* of retries, a refusal, the last retry, an abandoned task, a task dropped at a
\* leased row, and a callback that comes last.
Carried == status = "idle" /\ ~Carrier => Undelivered \subseteq stranded

\* No session stays in a turn: every way to lose the end of one is covered.
TurnReleased == status = "active" ~> status = "idle"
=============================================================================
