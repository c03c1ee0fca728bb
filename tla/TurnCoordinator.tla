--------------------------- MODULE TurnCoordinator ---------------------------
(***************************************************************************)
(* One session inside the sandbox runtime: SessionCoordinator, the turn    *)
(* loop of handle_inbound, the backlog of queued messages and the panic    *)
(* guard of the event loop (sandboxes/runtime/crates/runtime/src).         *)
(*                                                                         *)
(* The event loop spawns one tokio task per inbound message, so a message  *)
(* names its task.  A task whose message finds the session free becomes a  *)
(* turn loop; the others leave their message in the session's queue and    *)
(* end.  Each call of the coordinator holds one DashMap shard lock and is  *)
(* one action; tasks interleave between calls.                             *)
(***************************************************************************)
EXTENDS Integers, Sequences, FiniteSets

CONSTANTS Inbound,         \* messages
          Scheduled,       \* those that carry cron metadata
          None,            \* no task
          MaxRegular,      \* MAX_REGULAR_BATCHES_BEFORE_SCHEDULED
          MaxInterrupts,   \* bound on interrupt requests
          MaxSubagents,    \* bound on subagent tasks started
          MaxPanics        \* bound on panicking turns

ASSUME InboundAssumption == None \notin Inbound /\ Scheduled \subseteq Inbound
ASSUME BoundsAssumption ==
    /\ MaxRegular \in Nat \ {0}
    /\ MaxInterrupts \in Nat /\ MaxSubagents \in Nat /\ MaxPanics \in Nat

VARIABLES pc,         \* where the task of a message is
          reserved,   \* the session has an entry in SessionCoordinator.sessions
          queue,      \* that entry's Vec<InboundEvent>
          active,     \* whose start_turn put the sender into active_turns
          cancelled,  \* a loop's TurnCancellation fires
          current,    \* current_inbound, as the messages merged into it
          backlog,    \* queued_backlog
          waiting,    \* published_waiting
          result,     \* what process_single_turn is going to return
          subagents   \* the session has active subagent tasks

VARIABLES fate,       \* observer: what became of a message
          ran,        \* observer: messages in the order their turns started
          ticket,     \* observer: when submit_or_queue last took a message
          requested,  \* observer: the user interrupted this loop's turn
          gapHit,     \* observer: a message ran now while a loop was in the gap
          used        \* counters behind the three bounds

control == <<pc, reserved, active>>
data    == <<queue, cancelled, current, backlog, waiting, result, subagents>>
history == <<fate, ran, ticket, requested, gapHit, used>>
vars    == <<control, data, history>>

EmptyBacklog == [regular |-> <<>>, scheduled |-> <<>>, since |-> 0]
Elems(s) == {s[i] : i \in 1..Len(s)}
IsScheduled(m) == m \in Scheduled
IsRegular(m) == m \notin Scheduled

Init ==
    /\ pc = [m \in Inbound |-> "unsent"]
    /\ reserved = FALSE
    /\ queue = <<>>
    /\ active = None
    /\ cancelled = [m \in Inbound |-> FALSE]
    /\ current = [m \in Inbound |-> <<>>]
    /\ backlog = [m \in Inbound |-> EmptyBacklog]
    /\ waiting = [m \in Inbound |-> FALSE]
    /\ result = [m \in Inbound |-> "none"]
    /\ subagents = FALSE
    /\ fate = [m \in Inbound |-> "open"]
    /\ ran = <<>>
    /\ ticket = [m \in Inbound |-> 0]
    /\ requested = [m \in Inbound |-> FALSE]
    /\ gapHit = FALSE
    /\ used = [tickets |-> 0, interrupts |-> 0, subagents |-> 0, panics |-> 0]
-----------------------------------------------------------------------------
(* next_queued_inbound: regular messages are merged into one batch, a       *)
(* scheduled run goes alone and is passed by at most MaxRegular batches.    *)
(* The batch counter stops at MaxRegular: only the comparison reads it.     *)

\* mutant: always prefer the regular batch
PickRegularFirst(b) ==
    IF b.regular # <<>>
    THEN [batch |-> b.regular, rest |-> [b EXCEPT !.regular = <<>>]]
    ELSE IF b.scheduled # <<>>
    THEN [batch |-> <<Head(b.scheduled)>>,
          rest  |-> [b EXCEPT !.scheduled = Tail(@)]]
    ELSE [batch |-> <<>>, rest |-> b]

Pick(b) ==
    IF b.scheduled # <<>> /\ (b.regular = <<>> \/ b.since >= MaxRegular)
    THEN [batch |-> <<Head(b.scheduled)>>,
          rest  |-> [b EXCEPT !.scheduled = Tail(@), !.since = 0]]
    ELSE IF b.regular # <<>>
    THEN [batch |-> b.regular,
          rest  |-> [b EXCEPT !.regular = <<>>,
                              !.since = IF @ < MaxRegular THEN @ + 1 ELSE @]]
    ELSE [batch |-> <<>>, rest |-> b]

\* mutant: a regular message goes before those kept back
KeepFront(b, m) ==
    IF IsScheduled(m) THEN [b EXCEPT !.scheduled = Append(@, m)]
                      ELSE [b EXCEPT !.regular = <<m>> \o @]

Keep(b, m) ==
    IF IsScheduled(m) THEN [b EXCEPT !.scheduled = Append(@, m)]
                      ELSE [b EXCEPT !.regular = Append(@, m)]

\* The messages of a drain, one after the other.
KeepAll(b, q) ==
    LET kept[i \in 0..Len(q)] == IF i = 0 THEN b ELSE Keep(kept[i - 1], q[i])
    IN  kept[Len(q)]

NextQueued(b, q) == Pick(KeepAll(b, q))
-----------------------------------------------------------------------------
\* A message reaches the runtime's inbound channel; the event loop spawns its
\* task.
Post(m) ==
    /\ pc[m] = "unsent"
    /\ pc' = [pc EXCEPT ![m] = "spawned"]
    /\ UNCHANGED <<reserved, active, data, history>>

RunNow(m) ==
    /\ reserved' = TRUE
    /\ pc' = [pc EXCEPT ![m] = "start"]
    /\ queue' = <<>>
    /\ current' = [current EXCEPT ![m] = <<m>>]
    /\ backlog' = [backlog EXCEPT ![m] = EmptyBacklog]
    /\ gapHit' = (gapHit \/ \E n \in Inbound : pc[n] = "gap")

Enqueue(m) ==
    /\ queue' = Append(queue, m)
    /\ pc' = [pc EXCEPT ![m] = "absent"]
    /\ UNCHANGED <<reserved, current, backlog, gapHit>>

\* mutant: the check of the slot is not atomic with taking it
SubmitRacy(m) ==
    /\ pc[m] = "spawned"
    /\ IF ~reserved \/ \E n \in Inbound : pc[n] = "start"
       THEN RunNow(m) ELSE Enqueue(m)
    /\ ticket' = [ticket EXCEPT ![m] = used.tickets + 1]
    /\ used' = [used EXCEPT !.tickets = @ + 1]
    /\ UNCHANGED <<active, cancelled, waiting, result, subagents, fate, ran, requested>>

\* submit_or_queue.
Submit(m) ==
    /\ pc[m] = "spawned"
    /\ IF reserved THEN Enqueue(m) ELSE RunNow(m)
    /\ ticket' = [ticket EXCEPT ![m] = used.tickets + 1]
    /\ used' = [used EXCEPT !.tickets = @ + 1]
    /\ UNCHANGED <<active, cancelled, waiting, result, subagents, fate, ran, requested>>

\* The sender another loop left in active_turns is dropped when it is replaced
\* or removed: that loop's receiver sees an error and counts as cancelled.
Dropped(m, c) == IF active \in {m, None} THEN c ELSE [c EXCEPT ![active] = TRUE]

\* mutant: a turn that inherits the previous turn's cancellation
StartTurnUncleared(m) ==
    /\ pc[m] = "start"
    /\ pc' = [pc EXCEPT ![m] = "turn"]
    /\ active' = m
    /\ cancelled' = Dropped(m, cancelled)
    /\ requested' = [requested EXCEPT ![m] = FALSE]
    /\ waiting' = [waiting EXCEPT ![m] = FALSE]
    /\ ran' = ran \o [i \in 1..Len(current[m]) |-> [loop |-> m, batch |-> Len(ran), msg |-> current[m][i]]]
    /\ UNCHANGED <<reserved, queue, current, backlog, result, subagents,
                   fate, ticket, gapHit, used>>

\* start_turn, and process_single_turn begins.
StartTurn(m) ==
    /\ pc[m] = "start"
    /\ pc' = [pc EXCEPT ![m] = "turn"]
    /\ active' = m
    /\ cancelled' = [Dropped(m, cancelled) EXCEPT ![m] = FALSE]
    /\ requested' = [requested EXCEPT ![m] = FALSE]
    /\ waiting' = [waiting EXCEPT ![m] = FALSE]
    /\ ran' = ran \o [i \in 1..Len(current[m]) |-> [loop |-> m, batch |-> Len(ran), msg |-> current[m][i]]]
    /\ UNCHANGED <<reserved, queue, current, backlog, result, subagents,
                   fate, ticket, gapHit, used>>

\* A user's interrupt: coordinator.interrupt signals whatever turn is active,
\* and reports "not running" when there is none.
Interrupt ==
    /\ used.interrupts < MaxInterrupts
    /\ used' = [used EXCEPT !.interrupts = @ + 1]
    /\ IF active = None
       THEN UNCHANGED <<cancelled, requested>>
       ELSE /\ cancelled' = [cancelled EXCEPT ![active] = TRUE]
            /\ requested' = [requested EXCEPT ![active] = TRUE]
    /\ UNCHANGED <<control, queue, current, backlog, waiting, result, subagents,
                   fate, ran, ticket, gapHit>>

\* The turn spawns a subagent task, or one reports back.
StartSubagent(m) ==
    /\ pc[m] = "turn"
    /\ used.subagents < MaxSubagents
    /\ subagents' = TRUE
    /\ used' = [used EXCEPT !.subagents = @ + 1]
    /\ UNCHANGED <<control, queue, cancelled, current, backlog, waiting, result,
                   fate, ran, ticket, requested, gapHit>>

SubagentsReport ==
    /\ subagents
    /\ subagents' = FALSE
    /\ UNCHANGED <<control, queue, cancelled, current, backlog, waiting, result, history>>

\* process_single_turn settles its outcome: the stream ended, with an answer or
\* an error, or the cancellation fired first.
Decide(m) ==
    /\ pc[m] = "turn"
    /\ \E r \in {"completed"} \cup (IF cancelled[m] THEN {"interrupted"} ELSE {}) :
          /\ result' = [result EXCEPT ![m] = r]
          /\ fate' = [n \in Inbound |-> IF n \in Elems(current[m]) THEN r ELSE fate[n]]
    /\ pc' = [pc EXCEPT ![m] = "report"]
    /\ UNCHANGED <<reserved, active, queue, cancelled, current, backlog, waiting,
                   subagents, ran, ticket, requested, gapHit, used>>

\* process_single_turn has emitted its events and returns; finish_active_turn.
FinishActiveTurn(m) ==
    /\ pc[m] = "report"
    /\ active' = None
    /\ cancelled' = Dropped(m, cancelled)
    /\ pc' = [pc EXCEPT ![m] = IF result[m] = "interrupted" THEN "interrupted" ELSE "poll"]
    /\ UNCHANGED <<reserved, queue, current, backlog, waiting, result, subagents, history>>

\* mutant: the interrupted loop leaves its reservation behind
FinishInterruptedKeeping(m) ==
    /\ pc[m] = "interrupted"
    /\ queue' = <<>>
    /\ pc' = [n \in Inbound |-> IF n = m THEN "done"
                               ELSE IF n \in Elems(queue) THEN "spawned" ELSE pc[n]]
    /\ UNCHANGED <<reserved, active, cancelled, current, backlog, waiting, result,
                   subagents, history>>

\* An interrupted loop gives the session back and sends the messages queued
\* with the coordinator through the inbound channel again.  Its own backlog
\* goes with it.
FinishInterrupted(m) ==
    /\ pc[m] = "interrupted"
    /\ reserved' = FALSE
    /\ queue' = <<>>
    /\ pc' = [n \in Inbound |-> IF n = m THEN "done"
                               ELSE IF n \in Elems(queue) THEN "spawned" ELSE pc[n]]
    /\ fate' = [n \in Inbound |->
                  IF n \in Elems(backlog[m].regular) \cup Elems(backlog[m].scheduled)
                  THEN "forgotten" ELSE fate[n]]
    /\ UNCHANGED <<active, cancelled, current, backlog, waiting, result, subagents,
                   ran, ticket, requested, gapHit, used>>

\* mutant: a drain that starts from an empty backlog each time
DrainForgetting(m, from, onEmpty) ==
    LET next == NextQueued(EmptyBacklog, queue) IN
    /\ pc[m] = from
    /\ queue' = <<>>
    /\ backlog' = [backlog EXCEPT ![m] = next.rest]
    /\ IF next.batch # <<>>
       THEN pc' = [pc EXCEPT ![m] = "start"] /\ current' = [current EXCEPT ![m] = next.batch]
       ELSE pc' = [pc EXCEPT ![m] = onEmpty] /\ UNCHANGED current
    /\ UNCHANGED <<reserved, active, cancelled, waiting, result, subagents, history>>

\* mutant: drain_queued that copies the queue instead of taking it
DrainCopying(m, from, onEmpty) ==
    LET next == NextQueued(backlog[m], queue) IN
    /\ pc[m] = from
    /\ backlog' = [backlog EXCEPT ![m] = next.rest]
    /\ IF next.batch # <<>>
       THEN pc' = [pc EXCEPT ![m] = "start"] /\ current' = [current EXCEPT ![m] = next.batch]
       ELSE pc' = [pc EXCEPT ![m] = onEmpty] /\ UNCHANGED current
    /\ UNCHANGED <<reserved, active, queue, cancelled, waiting, result, subagents, history>>

\* drain_queued, and the next batch if there is one.
Drain(m, from, onEmpty) ==
    LET next == NextQueued(backlog[m], queue) IN
    /\ pc[m] = from
    /\ queue' = <<>>
    /\ backlog' = [backlog EXCEPT ![m] = next.rest]
    /\ IF next.batch # <<>>
       THEN pc' = [pc EXCEPT ![m] = "start"] /\ current' = [current EXCEPT ![m] = next.batch]
       ELSE pc' = [pc EXCEPT ![m] = onEmpty] /\ UNCHANGED current
    /\ UNCHANGED <<reserved, active, cancelled, waiting, result, subagents, history>>

Poll(m) == Drain(m, "poll", "check")
PollAgain(m) == Drain(m, "again", "finish")

\* session_has_active_subagent_tasks says yes: wait and poll again.
WaitForSubagents(m) ==
    /\ pc[m] = "check"
    /\ subagents
    /\ waiting' = [waiting EXCEPT ![m] = TRUE]
    /\ pc' = [pc EXCEPT ![m] = "poll"]
    /\ UNCHANGED <<reserved, active, queue, cancelled, current, backlog, result,
                   subagents, history>>

\* The deadline has passed: force-fail the tasks and poll again.
ForceFailSubagents(m) ==
    /\ pc[m] = "check"
    /\ subagents
    /\ subagents' = FALSE
    /\ pc' = [pc EXCEPT ![m] = "poll"]
    /\ UNCHANGED <<reserved, active, queue, cancelled, current, backlog, waiting,
                   result, history>>

\* The write that force-fails them fails: poll again all the same.
ForceFailLost(m) ==
    /\ pc[m] = "check"
    /\ subagents
    /\ pc' = [pc EXCEPT ![m] = "poll"]
    /\ UNCHANGED <<reserved, active, data, history>>

\* It says no, or could not be read, which counts as no.
NoSubagents(m) ==
    /\ pc[m] = "check"
    /\ pc' = [pc EXCEPT ![m] = IF waiting[m] THEN "again" ELSE "finish"]
    /\ UNCHANGED <<reserved, active, data, history>>

\* finish_turn takes the entry out of the map.  Nothing queued: the loop ends.
\* Something queued since the last drain: the loop goes on, without an entry
\* until reserve puts one back.
FinishTurn(m) ==
    LET next == NextQueued(backlog[m], queue) IN
    /\ pc[m] = "finish"
    /\ reserved' = FALSE
    /\ queue' = <<>>
    /\ backlog' = [backlog EXCEPT ![m] = next.rest]
    /\ IF next.batch # <<>>
       THEN pc' = [pc EXCEPT ![m] = "gap"] /\ current' = [current EXCEPT ![m] = next.batch]
       ELSE pc' = [pc EXCEPT ![m] = "done"] /\ UNCHANGED current
    /\ UNCHANGED <<active, cancelled, waiting, result, subagents, history>>

\* reserve inserts an empty queue, over whatever entry is there by now.
Reserve(m) ==
    /\ pc[m] = "gap"
    /\ reserved' = TRUE
    /\ queue' = <<>>
    /\ fate' = [n \in Inbound |-> IF n \in Elems(queue) THEN "overwritten" ELSE fate[n]]
    /\ pc' = [pc EXCEPT ![m] = "start"]
    /\ UNCHANGED <<active, cancelled, current, backlog, waiting, result, subagents,
                   ran, ticket, requested, gapHit, used>>

\* The turn's task panics.  The guard around it clears active_turns, then takes
\* the session's entry and drops what was queued with it.
Panic(m) ==
    /\ pc[m] = "turn"
    /\ used.panics < MaxPanics
    /\ used' = [used EXCEPT !.panics = @ + 1]
    /\ active' = None
    /\ cancelled' = Dropped(m, cancelled)
    /\ fate' = [n \in Inbound |->
                  IF n \in Elems(current[m]) \cup Elems(backlog[m].regular)
                              \cup Elems(backlog[m].scheduled)
                  THEN "panicked" ELSE fate[n]]
    /\ pc' = [pc EXCEPT ![m] = "unwound"]
    /\ UNCHANGED <<reserved, queue, current, backlog, waiting, result, subagents,
                   ran, ticket, requested, gapHit>>

PanicRelease(m) ==
    /\ pc[m] = "unwound"
    /\ reserved' = FALSE
    /\ queue' = <<>>
    /\ fate' = [n \in Inbound |-> IF n \in Elems(queue) THEN "panicked" ELSE fate[n]]
    /\ pc' = [pc EXCEPT ![m] = "done"]
    /\ UNCHANGED <<active, cancelled, current, backlog, waiting, result, subagents,
                   ran, ticket, requested, gapHit, used>>

LoopStep(m) ==
    \/ StartTurn(m) \/ Decide(m) \/ FinishActiveTurn(m) \/ FinishInterrupted(m)
    \/ Poll(m) \/ PollAgain(m) \/ WaitForSubagents(m) \/ NoSubagents(m)
    \/ FinishTurn(m) \/ Reserve(m) \/ PanicRelease(m)

Next ==
    \/ Interrupt
    \/ SubagentsReport
    \/ \E m \in Inbound : \/ Post(m) \/ Submit(m) \/ LoopStep(m)
                          \/ StartSubagent(m) \/ ForceFailSubagents(m)
                          \/ ForceFailLost(m) \/ Panic(m)

\* tokio polls every task that can run, a turn ends (the runner and its model
\* calls time out), and once the wait for subagents has passed its deadline
\* every check takes the force-fail branch, whose write does not fail for ever.
Fairness == \A m \in Inbound : /\ WF_vars(Submit(m)) /\ WF_vars(LoopStep(m))
                               /\ SF_vars(ForceFailSubagents(m))

Spec == Init /\ [][Next]_vars
FairSpec == Spec /\ Fairness
-----------------------------------------------------------------------------
LoopPcs == {"start", "turn", "report", "interrupted", "poll", "check", "again",
            "finish", "gap", "unwound"}
Loops == {m \in Inbound : pc[m] \in LoopPcs}
Backlogged(m) == Elems(backlog[m].regular) \cup Elems(backlog[m].scheduled)

TypeOK ==
    /\ pc \in [Inbound -> {"unsent", "spawned", "absent", "done"} \cup LoopPcs]
    /\ reserved \in BOOLEAN /\ subagents \in BOOLEAN /\ gapHit \in BOOLEAN
    /\ active \in Inbound \cup {None}
    /\ queue \in Seq(Inbound)
    /\ cancelled \in [Inbound -> BOOLEAN] /\ waiting \in [Inbound -> BOOLEAN]
    /\ requested \in [Inbound -> BOOLEAN]
    /\ current \in [Inbound -> Seq(Inbound)]
    /\ backlog \in [Inbound -> [regular : Seq(Inbound), scheduled : Seq(Inbound),
                                since : 0..MaxRegular]]
    /\ result \in [Inbound -> {"none", "completed", "interrupted"}]
    /\ fate \in [Inbound -> {"open", "completed", "interrupted", "panicked",
                             "forgotten", "overwritten"}]
    /\ ticket \in [Inbound -> Nat]

\* "two concurrent first messages for the same session cannot both observe a
\* vacant slot and both run a turn" (session_coordinator.rs:53): a session has
\* one turn loop, unless a message arrived between finish_turn and reserve
\* (handler.rs:627-632), the only window in which a live loop has no entry.
OneLoopOutsideGap == gapHit \/ \A m, n \in Loops : m = n

\* The comment without the exception: what the code does not keep.
OneLoop == \A m, n \in Loops : m = n

\* No message starts two turns, although messages move between the channel,
\* the queue, the backlog and, after an interrupt, the channel again.
RunOnce == \A i, j \in 1..Len(ran) : ran[i].msg = ran[j].msg => i = j

\* One loop runs the regular messages it takes in the order submit_or_queue
\* took them, across drains, merged batches and scheduled runs in between.
InOrder ==
    \A i, j \in 1..Len(ran) :
        /\ i < j /\ ran[i].loop = ran[j].loop
        /\ IsRegular(ran[i].msg) /\ IsRegular(ran[j].msg)
        => ticket[ran[i].msg] < ticket[ran[j].msg]

\* "scheduled_backlog_runs_after_one_regular_batch_even_when_more_regular_
\* arrives" (handler/queue.rs:377): of the batches a loop runs before a
\* scheduled run, those with a message that came after it number at most
\* MaxRegular for that run and for each scheduled run ahead of it.
ScheduledNotStarved ==
    \A j \in 1..Len(ran) : IsScheduled(ran[j].msg) =>
        LET before == {i \in 1..(j - 1) : ran[i].loop = ran[j].loop}
            late == {i \in before : /\ IsRegular(ran[i].msg)
                                    /\ ticket[ran[i].msg] > ticket[ran[j].msg]}
            ahead == {i \in before : IsScheduled(ran[i].msg)}
        IN Cardinality({ran[i].batch : i \in late})
               <= MaxRegular * (Cardinality(ahead) + 1)

\* A message whose task ended without running it is still held by somebody who
\* will: the session's queue, or the backlog or batch of a live loop.
Accounted ==
    \A m \in Inbound : pc[m] = "absent" /\ fate[m] = "open" =>
        \/ m \in Elems(queue)
        \/ \E n \in Loops : m \in Elems(current[n]) \cup Backlogged(n)

\* A message ends once: what was run, cut short or given up keeps that fate, and
\* only a message without one starts a turn, although the loop that dropped it
\* may be dead, interrupted or overtaken by another one in the gap.
FateFinal ==
    [][/\ \A m \in Inbound : fate[m] # "open" => fate'[m] = fate[m]
       /\ \A i \in (Len(ran) + 1)..Len(ran') : fate[ran'[i].msg] = "open"]_vars

\* A turn is cut short only if the user asked for it while that very turn was
\* active: a request is not inherited by the loop's next turn, and finishing
\* one turn does not cancel another (again outside the gap).
InterruptedOnRequest ==
    \A m \in Inbound :
        pc[m] = "report" /\ result[m] = "interrupted" => requested[m] \/ gapHit

\* Every message that reaches the runtime is settled: run, or given up by an
\* interrupt, a panic or the overwrite; none waits behind a reservation nobody
\* owns.
Settled == \A m \in Inbound : pc[m] = "spawned" ~> fate[m] # "open"
=============================================================================
