# Verification of Hivy

TLA+ models of the parts of Hivy whose correctness depends on the order in
which several actors step, the TLC configurations that check them on small
instances, and TLAPS proofs of the properties that matter most. The Go control
plane is under `src/internal`, the Rust runtime that lives in every sandbox
under `src/sandboxes/runtime`. All line numbers are of this commit.

Contents: [the system](#1-the-system), [plan](#2-plan),
[the models](#3-the-models), [the runs](#4-the-runs),
[what the code does not keep](#5-what-the-code-does-not-keep),
[the proofs](#6-the-proofs), [what is left](#7-what-is-left).

## 1. The system

Organisations hire agents. A conversation with an agent is a *session*; the
agent works in the session's *sandbox*, where the runtime executes one *turn*
at a time. Messages come from users (HTTP), from Slack, from webhooks and from
schedules. The control plane keeps its state in Postgres, runs its background
work as asynq tasks on Redis, and learns what a sandbox does from a stream of
numbered events.

| Component | State it keeps | Operations | Interacts with |
|---|---|---|---|
| Keyed lock (`internal/keyedlock`) | map of reference counted mutexes | `Lock(key)`, the returned unlock | guards sandbox operations in `sandbox`, `microsandbox/control`, `microsandbox/runner` |
| Runtime turn coordinator (`runtime/src`: `session_coordinator.rs`, `handler.rs`, `handler/queue.rs`, `main.rs`) | per session: reserved entry with its queue, active turn, backlog of the loop | submit, start/finish a turn, drain the queue, interrupt, reserve; panic guard | spawned per inbound message; emits turn events; polls subagent tasks |
| Session turns and queue (`tasks/session_message_deliver*`, `handler/sessions_delivery.go`, `sessions_interrupt.go`, `tasks/session_turn_watchdog.go`) | `sessions.agent_turn_status`/`agent_turn_id`, `session_message_queue` | post, queue, claim, deliver, record, release, interrupt, watchdog | posts to the runtime; is told of turns by the projector and a callback |
| Trigger dispatch and review batches (`tasks/agent_trigger_*`, `session_review_batch_flush.go`) | claims of deliveries, batches that buffer | route or claim, append to the queue, gather, flush | appends to the session queue, asks for its delivery |
| Runtime event stream (`runtimestream`, `handler/runtime_stream_ingress.go`) | Redis streams per shard, last sequence number and event index per session, leases, pending entries; rows of `session_events` | append (Lua script), read, claim stale, store, project, acknowledge | fed by the outbox, writes the session's turn |
| Runtime outbox and write gateway (`crates/outbound`, `crates/storage`) | numbered rows with lease, retry time and attempts | enqueue, claim what is due, send a frame, settle by its answer | the other end of the stream |
| Runtime drain (`runtime/src/drain.rs`) | draining flag, completion time | start, status, cancel | reads the coordinator and the outbox |
| Sandbox lifecycle (`sandbox`) | `sandboxes` rows, wake reservations | create, wake, sleep, mark running, delete | keyed lock, provider |
| Warm pool (`sandbox/warm_pool*.go`, `tasks/sandbox_warm_pool.go`) | slots and their resources at the provider | reconcile (drop, trim, provision), check, claim, give back, reap | provider, lifecycle |
| Credit ledger and billing (`billing`, `tasks/billing_batch_*`, `tasks/sandbox_billing_process.go`, `billing/purchase`) | append-only ledger, generations, turn usage, purchases | grant, spend, batch debit, compute debit, create and verify a purchase | admission reads the balance |
| Agent schedules (`agentschedule`, `tasks/agent_schedule_scan.go`) | schedules and runs | claim due runs, enqueue, pause, resume | trigger delivery |
| Knowledge ingestion (`rag`) | index attempts, heartbeats | reserve, run, finalise, watchdog | spends credits |
| Request counter (`counter`) | remaining requests in Redis and Postgres | decrement, undo, refill | admission |
| Caches (`cache`) | decrypted credentials, tokens | fill, invalidate over pub/sub | proxy |
| Microsandbox control plane, runner, gateway | desired and actual state of microVMs | reconcile, activity, preview | providers |
| Proxy and middleware, memory, sheets, apps, integrations, clients | rows of their own, mostly one transaction per request | CRUD, HTTP pass-through | everything above |

### What is hard

* **Two sides of a turn.** The control plane decides from `agent_turn_status`
  whether a message may go to the runtime, the runtime decides from its own
  map whether it starts a turn. They are joined by events that arrive late,
  again, or never. Four writers set the session idle, and only two of them
  look for queued rows.
* **Statements, not transactions.** A delivery is a claim, an HTTP call, a
  record or two releases, each its own statement; a crash, a failing statement
  or the task's deadline can fall between any two.
* **Moves between containers.** In the runtime a message moves from the
  channel to the coordinator's queue, the loop's backlog, a merged batch and,
  after an interrupt, the channel again; each move is one lock of a sharded
  map, the sequence of them is not.
* **Money in rounded units.** Four kinds of transactions read sums of the
  ledger and append to it. They agree because every debit is cumulative and
  made under the organisation's row lock; a dropped lock, another order of
  locks or a rounding per batch changes what is charged.
* **Garbage and reuse.** The keyed lock deletes an entry while others are
  about to ask for it; Redis forgets a silent session's last number; a slot that
  was read as surplus is claimed before its resource is deleted.
* **Two stores, no transaction over both.** A runtime event is a row in SQLite,
  a frame, an entry in Redis, a row in Postgres and a session's turn; a warm slot
  is a resource at a provider and a row; a trigger's event is a claim, a queue
  row and a task. Each pair is written in two steps, by actors that retry.
* **Leases that end early.** The outbox's rows, the projector's shard and the
  claim of a slot are guarded by time; the guarded work has no time limit of its
  own, or a longer one.

### What makes each component correct

Modelled components have the properties of section 3. For the others, to be
stated when they are modelled: a sandbox with an active turn is not put to
sleep, and no two sandboxes are woken for one session (lifecycle); `drained` is
reported only when nothing accepted is left (drain); a due run is started once
(schedules); an attempt has one final status (ingestion); no more requests than
the refill allows (counter); no credential is served after its revocation was
acknowledged (caches).

## 2. Plan

Ordered by what a failure costs and how little a test can say about it.

| # | Module | State | Contents |
|---|---|---|---|
| 1 | `SerialSections`, `KeyedLock` | done | abstract mutual exclusion per key; the lock, shown to implement it; proofs |
| 2 | `TurnCoordinator` | done | one session inside the runtime; proofs |
| 3 | `SessionTurns` | done | one session in the control plane, with the runtime reduced to what section 3.3 says; proofs |
| 4 | `Accounts`, `CreditLedger` | done | abstract: what an organisation is promised. Detailed: every writer of the ledger; refinement; proofs |
| 5 | `EventLog`, `RuntimeStream` | done | abstract: the numbering of a session's accepted events. Detailed: outbox, deliveries, websocket, ingress and append script; refinement; proofs |
| 6 | `Projector` | done | the projectors that compete for a shard: lease, consumer group, stale claims; proofs |
| 7 | `TriggerDelivery` | done | claims, the session's queue, review batches and their flush; proofs |
| 8 | `WarmPool` | done | one profile's slots and resources with reconcile, checks, claims and the reaper; proofs |
| 9 | `SandboxLifecycle` | next | wake reservation, sleep against a starting turn (`sandbox_auto_sleep.go`), mark running, delete; over `KeyedLock`, and with the sandbox's row of `WarmPool` |
| 10 | `RuntimeDrain` | planned | the drain's snapshot, read in parts, over `TurnCoordinator` |
| 11 | `AgentSchedule`, `RagIngest`, `RequestCounter` | planned | claims, heartbeats, watchdogs and refills |
| 12 | composition | planned | `SessionTurns` over `TurnCoordinator`, instead of its summary of the runtime; `TriggerDelivery` over the queue of `SessionTurns` |

Abstract specifications: `SerialSections` for the keyed lock, `EventLog` for the
store of runtime events, `Accounts` for the ledger; worth stating next is an
at-least-once hand-over that the projector and the delivery path both implement.
Every safety and action property of the runs is proved (section 6); worth proving
next are that hand-over, the runtime's summary in `SessionTurns` against
`TurnCoordinator`, and the modules of rows 9 to 12 as they are written. Each
component gets one safety run, a liveness run where something must eventually
happen (together with the safety run where the instance allows it), and a
violation run only where the code disagrees with its own documents on something
a reader would rely on.

## 3. The models

Conventions. A step is what happens without another actor in between: a section
under a mutex, one statement or transaction on Postgres, one call to a remote
service, one `await`-free stretch of a task. A message, a worker or a row is a
model value; texts, payloads and timestamps are left out. Variables named
*observer* in a module record history for the properties and guard nothing.
Operators whose comment begins with "mutant:" are wrong versions of the
definition after them; nothing uses them, they are substituted one at a time to
see that the property they name fails.

### 3.1 `SerialSections`, `KeyedLock`

`SerialSections` is the promise: nobody enters a key's section while somebody is
in it. `KeyedLock` is `keyedlock.go`:

| Action | Code |
|---|---|
| `Reference` | `Lock`, the section under `l.mu`: find or create the entry, `refs++` |
| `Acquire` | `e.mu.Lock()` returns |
| `Unlock` | the closure's `e.mu.Unlock()` |
| `Unreference` | the closure's section under `l.mu`: `refs--`, delete at zero |

Entries are addresses, so an entry that was dropped may come back as another
key's entry while an old closure still runs. The closure is called once: that
is how all three users call it (`sandbox/orchestrator.go`,
`microsandbox/runner/microsandbox_backend.go`, `microsandbox/control/server.go`).
Properties: `MapHoldsOnlyUsed`, the refinement `Serializes`, which contains
`MutualExclusion`, and `LockReturns`.

### 3.2 `TurnCoordinator`

One session inside the runtime. A message names the tokio task that carries it;
a task that finds the session free becomes a *loop*. `pc` is where a task is:

| `pc` | Code | Action that leaves it |
|---|---|---|
| `unsent`, `spawned` | inbound channel, event loop (`main.rs:308-326`) | `Post`, `Submit` (`submit_or_queue`) |
| `absent` | the task ended, its message is queued | |
| `start`, `turn`, `report` | `start_turn`, `process_single_turn`, `finish_active_turn` | `StartTurn`, `Decide`, `FinishActiveTurn` |
| `interrupted` | `finish_turn` and the dispatch of the queue again (`handler.rs:540-561`) | `FinishInterrupted` |
| `poll`, `check`, `again` | drain, wait for subagents (`handler.rs:564-625`) | `Poll`, `WaitForSubagents`, `ForceFailSubagents`, `NoSubagents`, `PollAgain` |
| `finish`, `gap` | `finish_turn`, then `reserve` (`handler.rs:627-646`) | `FinishTurn`, `Reserve` |
| `unwound` | the panic guard (`main.rs:328-364`) | `PanicRelease` |

`Keep`, `KeepAll` (its loop over the drained messages), `Pick` and `NextQueued`
are `next_queued_inbound`. `MAX_REGULAR_BATCHES_BEFORE_
SCHEDULED` is a constant; the batch counter stops there because only the
comparison reads it. What a turn does is one decision, completed or interrupted,
the latter only if its cancellation has fired; a dropped sender of its
`watch` channel counts as fired, as `TurnCancellation` has it.

Properties: `OneLoopOutsideGap`, `RunOnce`, `InOrder`, `ScheduledNotStarved`,
`Accounted`, `InterruptedOnRequest`, `Settled`, and `FateFinal` (a message that
was run, cut short or given up keeps that fate and starts no other turn).

### 3.3 `SessionTurns`

One session in the control plane. Its state is the session's row (`status`,
`turn`), its queue (`queue` is the order of `sequence_number`, `row` the status
column, `leased` whether `leased_until` lies ahead), the asynq tasks that wait
(`tasks`, counted by the retries behind them) and a program counter for every
worker, for every request or trigger that brings a message, and for the
interrupt request.

| Actions | Code |
|---|---|
| `CreateIntent`, `PostDirect`, `RecordDirect`, `ReleaseDirect` | `createSessionMessageIntent`, `dispatchSessionMessageIntent`, `recordDirectSessionDelivery`, `releaseDirectSessionDelivery` |
| `AppendTrigger`, `EnqueueTrigger` | `enqueueTriggerSessionMessage`, then `EnqueueSessionMessageDeliver` |
| `DropTask`, `ClaimNext`, `PostClaim`, `MarkDelivered`, `ReleaseClaim`, `ReleaseTurn` | `DispatchNext`: `claimNext`, `deliverClaim`, `markDelivered`, `releaseClaim`, `releaseSessionTurn` |
| `Abandon`, `LeaseExpires` | a worker that dies, a failed statement, or the task's deadline; the lease of five minutes |
| `Project`, `ProjectFails`, `ProjectAgain` | `processMessages`, a batch whose flush fails, `claimStale` |
| `Callback` | `applyRuntimeTurnState` |
| `Interrupt`, `InterruptRelease`, `InterruptEnqueue` | `Interrupt`, `releaseSessionTurnAfterInterrupt` |
| `Watchdog` | `session_turn_watchdog.go` |
| `RuntimeStart`, `RuntimeFinish`, `RuntimeCrash`, `Drain` | the runtime, summarised from `TurnCoordinator`: one turn at a time, what arrives meanwhile is one later turn; the loss of a sandbox; `drain.rs` |

A post has four outcomes: accepted, refused because of a drain, failed before
the runtime had it, accepted with the answer lost. Not modelled: the path on
which runtime delivery is not configured, and the duplicate-event path of
`createSessionMessageIntent`, which changes nothing; review batching, whose
`buffering` rows never reach this session's queue here (section 3.8 has them);
the Slack and schedule senders, which end in the same append; the return of
`DeliverCommand` after a failed synchronisation of MCP servers
(`session_message_deliver.go:219`), which leaves the reservation to the
watchdog. Nothing in the repository writes `draining` into `sandboxes.status`,
so the two checks of that column are left out. What a request is answered is not
recorded: no property is about it.

Properties: `OneDeliverer`, `PostedInOrder`, `PostedOnce`, `Carried`,
`TurnReleased`. `Carried` is the useful form of "queued messages are delivered":
it lists the steps that leave rows behind (`stranded`) and says there are no
others. They are a release that enqueues nothing (the watchdog, a direct delivery
that failed, a refusal, an abandoned task) and one whose enqueue fails: an
interrupt gives the turn back first, returns if it cannot count the rows, and
drops the error of the enqueue (`sessions_interrupt.go:98-109`); a trigger's task
runs out of retries between its row and its delivery task. The last retry, a task
dropped at a leased row and a callback that comes last are the others.

### 3.4 `Accounts`, `CreditLedger`

`Accounts` is what the ledger promises an organisation: a reference has one
entry, a spend is covered, the debiters stop at the floor, and the balance is
the welcome grant and the entries since.

The ledger is append only and is read by four sums and two existence checks;
those are the variables (`balance`, `llmDebited`, `sandDebited`, `billedCost`,
`spent`, `topups`). Postgres runs at READ COMMITTED: a transaction's writes
appear at its commit, a `FOR UPDATE` waits for the row. So a step is a lock with
the reads behind it, or a commit with all the transaction's writes.

| Actions | Code |
|---|---|
| `Generate`, `Compute` | a generation whose usage is known (`generation_reconcile.go`), `syncSandboxTurnUsage` |
| `Select`, `PlanBatch`, `CommitBatch` | `BillingBatchProcessHandler.Handle`: `selectUnbilledBatch` (`SKIP LOCKED`), `planCumulativeDebits` per organisation, entries and rows |
| `StartSandbox`, `PlanSandbox`, `CommitSandbox` | `SandboxBillingProcessHandler.Handle` |
| `Rollback` | any failing statement, the timeout, a crash |
| `SpendChecks`, `SpendCommits`, `SpendFails` | `SpendWithTx` |
| `Create`, `Pay`, `Created` | `purchase.Service.Create`, the provider, `markFailed` |
| `VerifyResolves`, `VerifyCredits`, `Grant` | `Verify`, its transaction, `GrantWithTx` |

Costs are natural numbers of a unit, `UnitsPerCredit` units to a credit. The
code computes in `float64` with a tolerance before it rounds up
(`pricing.go:40-50`); that the sum of costs is exact is an assumption of the
model. Not modelled: prices, admission, saved payment methods, currencies, and
a purchase the provider refunds.

Properties: `FloorKept`, `SplitTicksAgree`, `RowsMatchEntries`,
`NeverOvercharged`, `GrantedOnce`, `SpendCovered`, the refinement
`ImplementsAccounts`, `TickEnds`. The rounding
properties are stated for an organisation no batch has found short (`capped`):
a partial debit gives whole credits to rows that cost less, and from then on
the debits are ahead of the rows; `NeverOvercharged` is what holds for everyone.

### 3.5 `EventLog`, `RuntimeStream`

`EventLog` is what the store promises both its sides: a session's events are
numbered 1, 2, 3, ..., each number is taken once and by one event, and what was
accepted stays; after a week of silence it may forget where the session was.

`RuntimeStream` is one session's way to it. `row` is the outbox table in the
sandbox's SQLite file, `delivery` what each of the dispatcher's tasks does with
the rows it claimed, `frames` what ingress handlers work on, and `last`,
`identity`, `stream` the session's keys in Redis.

| Actions | Code |
|---|---|
| `Emit` | `outbox_enqueue_runtime`: number and row in one transaction |
| `ClaimDue` with `Due` | `outbox_claim_due`: pending rows up to the first that is leased or waits; `drain_one_batch` starts the delivery or finds no permit |
| `RetryDue`, `LeaseEnds` | `next_attempt_at` and `leased_until` are reached |
| `Send`, `GiveUp` | `WebSocketChannel::deliver_batch`: one frame at a time on the session's connection, a second try after a broken one, `ACK_TIMEOUT` |
| `Settle` with `Settled`, `Attempts`, `GivesUp` | `deliver_rows`: `mark_delivered`, `schedule_retry`, `mark_failed`, one row at a time and without a look at what the row says |
| `Ingest` with `Status`, `Append1`, `Answer` | `acceptRuntimeEvents` and `appendScript`, event by event: accepted, duplicate, gap or conflict |
| `Lose`, `Crash`, `Replace`, `Expire` | an unread frame of a dead connection, a restart of the runtime, a new sandbox for the session, the expiry of the session's two keys |

A frame whose delivery has given up is an orphan: its handler goes on, and what
it does may come after the retry. Simplified: the trimming of the stream by
`MAXLEN`, which drops old entries the projector has normally read; a websocket
is bound to a session, so both the old and the new sandbox's frames are taken;
a replaced sandbox numbers its events from 1, and the store calls them conflicts
until Redis forgets the old ones. Streaming deltas, which are not durable, and
the live feed do not touch this state.

Properties: `DeliveredAccepted` (a row is marked delivered only after the store
took its event), `NoHole` (the runtime leaves no gap in what it sends except
behind an event that used up its attempts, a lapsed lease or a new sandbox), `SettledStays` (a settled
row is settled once), the refinement `ImplementsEventLog`, and `Drains` (the
outbox empties, whatever is rejected).

### 3.6 `Projector`

One shard of the stream and the API's replicas that compete for it. Entries are
known by their position, and each has its session, its `runtime_seq` and whether
it gets a row. `pel` is the consumer group's list of entries that were given and
not acknowledged, `stale` those of them idle for `minIdle`; `stored` are the
entries with a row of their own in `session_events`, `applied` those whose turn
state was written, `last` the numbers Redis has of the sessions.

| Actions | Code |
|---|---|
| `Add`, `Delete` | `appendScript`: the session's next number, or 1 again from a new sandbox after Redis has forgotten the session; a session is deleted with its events |
| `Acquire`, `LeaseEnds`, `Notice`, `Stops`, `Crash` | `runShard`'s `SET NX`, its expiry, `renewShardLease` seeing another owner, an error that ends `runOwnedShard`, the death of a replica |
| `Read`, `Flush`, `ClaimStale`, `Age` | `XREADGROUP`, the batch's flush, `XAUTOCLAIM` from the start of the list, time |
| `Store` with `Inserted`, `Project`, `Ack`, `Abandon` | `processMessages`: one `INSERT` for the batch, `ON CONFLICT (session_id, runtime_seq) DO NOTHING`; each entry's session state, after its row, or the one that has its key, was read back; `XACK`; an error is logged and the batch forgotten |

A replica that has lost its lease goes on until its renewal notices: two of them
work on the shard, and both may acknowledge. An entry that is not durable, or a
`user.message.received`, gets no row and no state and is only acknowledged
(`Quiet`). The `projected_seq` checkpoint is left out, for it is written and
never read.

Properties: `AckedProjected` (an entry that is to be persisted stays pending until
there is a row under its session and number and its turn state is written; the
row is its own unless the number was given twice) and `AllProjected` (in the end
every entry is worked off, by whichever replica is left). `OneOwner` and
`StateIsLatest` hold as long as nothing goes wrong and are proved only.

### 3.7 `WarmPool`

One profile's slots. `status` is the column, `live` the resources at the
provider, `rec`, `chk`, `sb`, `reap` what the reconcile task, the check tasks,
the creations of sandboxes and the reaper are doing; a list they work off is in
`todo`.

| Actions | Code |
|---|---|
| `Configure` | a rollout with another size or image; every server asks for a reconcile when it starts |
| `Start`, `Drop`, `Dropped`, `Count`, `Trimmed`, `Provision`, `Insert`, `Recheck`, `ReconcileDies` | `Reconcile`: `deleteStaleAvailableSlots`, `reconcileLocked`, `trimSurplusSlots`, `provision`, the check tasks for slots that warm up |
| `CheckStarts`, `Probe`, `CheckWrites`, `CheckDeletes`, `CheckMarks`, `CheckDies` | `CheckWarmSlot` and its task |
| `Claim`, `Reach`, `Confirm`, `GiveBack`, `GivenBack`, `CreatorDies` | `tryClaimWarmRuntime` with `ClaimWarmSlot`, the wait for the runtime, `MarkClaimed`, `MarkError` |
| `Age`, `ReapLists`, `ReapDeletes`, `ReapMarks` | `ReapStaleSlots` |

`had` says what went wrong: `fault` (a call or a worker failed), `lapse` (a claim
took longer than the ten minutes the reaper allows), `late` (a decision was
carried out on a slot that had moved on since it was read). The properties name
which of these they exclude. Simplified: one profile; the reconcile of an older
image's profile beside the new one's; the advisory lock is the single `rec`; the
task is unique in asynq, so a request made while one runs is dropped, as in the
code; a list is worked off in any order; of a sandbox's row only what the pool
needs.

Properties: `OneHolder`, `HeldAlive`, `LeakFree`, `NotOverfilled`, `Reclaimed`.

### 3.8 `TriggerDelivery`

The way of an integration's events into one session's queue. `at` is how far
each dispatch task is, `claims` the rows of `agent_trigger_deliveries`, `queue`
the rows of `session_message_queue` with the keys each stands for.

`Key` is the id under which the session knows what a task brings. Six kinds of
GitHub events have a stable id in their payload (`nango_webhooks_infer.go:53-92`),
and the key is that id, whichever connection brought it. For every other event
`nango_webhooks_dispatch.go` draws an id when the webhook comes: it is fixed in
the task, so a retry finds its claim and its row again, and a redelivery or a
second connection does not. A check suite that is routed by its pull request goes
by its head commit (`agent_trigger_github_pr_route.go:136-138`), on the trigger's
path by its own id. The two paths also give the batch of one pull request two
keys (`BatchKey`), so two batches may gather at a time.

| Actions | Code |
|---|---|
| `Route` | `maybeRoutePREvent`: the session that opened the pull request, no claim |
| `Claim`, `Write`, `Ask`, `DispatchDies` | `deliverTrigger`: `claimTriggerDelivery`, `enqueueTriggerSessionMessage` or `enqueueGitHubReviewBatch` under the session's lock, the enqueue of the delivery or the flush; releases of the claim on failure |
| `FlushReleases`, `FlushAsks`, `Reopen` | `SessionReviewBatchFlushHandler` |
| `DeliverClaims`, `DeliverPosts` | the session's delivery task: `claimNext` takes the first row that is not delivered; the post is recorded, or the row is given back when the call failed, which it may do with the message accepted and only the answer lost. `SessionTurns` has the task in full, with leases and deaths |

The same event comes redelivered (the same claim if it has a stable id), over a
second connection (another claim) and over two routes. Left out: which triggers
match, when a check suite counts as settled, what a message says, how the session
is found or created, and the turns.

Properties: `OnceEach` (a key is in one row: not an event without a stable id, of
which each webhook makes a message of its own, as the comment of
`triggerSessionEventID` says), `Kept`, `Sealed`, `Delivered`. `lost` and `stranded`
name the exceptions: a claim left behind without a message, and a batch left
without its flush or a released one without its delivery.

## 4. The runs

The four older models have finitely many messages, calls or ticks and stop when
they are used up: `CHECK_DEADLOCK FALSE`. The four of sections 3.5 to 3.8 end in
a state of rest of their own (`Done`, `AtRest`, `Quiet`, `Finished`), and
deadlock is checked: nothing but rest may stop them.

| Run | Configuration | Bounds and what they are enough for | States |
|---|---|---|---|
| `keyed_lock` | `MCKeyedLock.cfg` | three goroutines: one inside, one waiting, one arriving as the entry is dropped; two keys and three addresses, so that an address changes keys; two calls each | 14 k |
| `turn_coordinator` | `MCTurnCoordinator.cfg` | four regular messages and a scheduled one: the smallest number at which a regular message is kept back behind a scheduled run and another one arrives; one interrupt | 2.8 M |
| `turn_coordinator_live` | `MCTurnCoordinatorLive.cfg` | three messages with an interrupt, a panic and a wait for subagents together; fairness | 94 k |
| `session_turns` | `MCSessionTurns.cfg` | two workers for one queue, a direct message that may be queued and a trigger, so that the queue has an order; one each of failure, retry, interrupt, drain and surviving callback | 1.7 M |
| `session_turns_live` | `MCSessionTurnsLive.cfg` | one worker, two messages, a failure, an interrupt and a drain; fairness | 0.2 M |
| `credit_ledger` | `MCCreditLedger.cfg` | generations of 1/2, 1/2, 3/2 and 0 credits, so that two batches of two rows round; a welcome grant of two and a floor of minus one, which they reach; a compute tick, a spend called twice, a purchase verified twice | 1.3 M |
| `credit_ledger_live` | `MCCreditLedgerLive.cfg` | two organisations and three ticks that lock both; fairness | 34 k |
| `runtime_stream` | `MCRuntimeStream.cfg` | two events and two deliveries: an earlier and a later row at a time; two sandboxes, two attempts, and one fault, lapsed lease, crash and forgotten session each, in every combination; fairness | 0.6 M |
| `projector` | `MCProjector.cfg` | two replicas, two sessions, three entries and batches of two, so that a batch is left behind and the next one overtakes it, and a number may be given twice in one batch or in two; one entry without a row; any two of failed calls, lost leases, slow calls, crashes, deleted and forgotten sessions; fairness | 1.7 M |
| `warm_pool` | `MCWarmPool.cfg` | two creations, two checkers and two slots in a pool of at most two, a rollout that may shrink it or change the image, one failure, death or slow claim; fairness | 1.4 M |
| `trigger_delivery` | `MCTriggerDelivery.cfg` | a review whose task runs twice with one claim and which a second connection routes under another batch key, a second review, so that two may be in one batch, and a label, which has no stable id; one failure or death; two equal tasks wait at most; fairness | 0.3 M |
| `turn_coordinator_gap` | `MCTurnCoordinatorGap.cfg` | the counterexample of section 5 | |

What the new bounds do not reach: a third event behind a gap, a batch that fails
twice with a crash between, a third slot, two failures in one trigger, a redelivered label, a routed check
suite. The proofs of section 6 have none of these bounds.

Symmetry is used for regular messages, workers, posts, triggers and batches, in
runs without a liveness property; generations and organisations are numbers,
because the code orders them.

### Fairness

* `KeyedLock`: strong for `Acquire` (Go's mutex hands itself to a starving
  waiter), weak for the two steps of the closure (its callers `defer` it).
* `TurnCoordinator`: weak for a loop's steps and `Submit` (tokio polls what can
  run; a turn ends because its model calls time out), strong for
  `ForceFailSubagents` (past the deadline every check takes that branch, and
  its write does not fail for ever). None for messages, interrupts and panics.
* `SessionTurns`: weak for senders, workers, the runtime's turn, the projector,
  stale claims, the interrupt's steps, the expiry of leases, the watchdog, and
  the end of a drain. None for failures, crashes or the arrival of callbacks.
* `RuntimeStream`: weak for the dispatcher's poll, for what time brings, for
  settling and for handlers (each ends by its own timeouts), strong for `Send`
  (the connection's lock is handed on). None for emitting, losing or failing.
* `Projector`: weak for the work of a replica that runs, for somebody taking a
  free lease, for the expiry of a dead one's, and for the age of entries nobody
  has in hand. None for events, failures or crashes.
* `WarmPool`: weak for a creation whose worker lives, for the reaper (periodic)
  and for the ten minutes of a claim nobody works on. None for reconcile, checks
  and rollouts.
* `TriggerDelivery`: weak for tasks, which asynq runs again until they succeed;
  failures are bounded. One weak fairness for all of them: as long as a task
  waits, some worker takes one. No task repeats itself without a failure, so
  the others get their turn.
* `CreditLedger`: strong for a tick's lock (Postgres grants a row lock to
  somebody who waits), weak for commits. None for starting anything.

## 5. What the code does not keep

The run `turn_coordinator_gap` shows **two loops for one session** (`OneLoop`,
`handler.rs:627`). `finish_turn` takes the session's entry away, and if something
was queued `reserve` puts one back. A message submitted in between finds no entry
and runs beside the loop, although `session_coordinator.rs:53` says two messages
cannot both observe a vacant slot; `reserve` then overwrites the entry it made,
with what was queued in it. All other properties of the coordinator that speak of
loops hold outside that gap.

Seen while modelling, without a run of their own:

* Coordinator: an interrupt sends the coordinator's queue through the channel
  again and drops the loop's own backlog, where a scheduled run may wait
  (`handler.rs:540`); such messages have the fate "forgotten".
* Session turns: the projector's statement does not compare the turn
  (`projector_process.go:119`). A message posted directly is merged by the
  runtime into a turn under another name, or the event is late; the session goes
  idle under a running turn, and the queue's next row is posted into it.
* The branch of `sessions_delivery.go:222` for a draining runtime tests an error
  that `DeliverCommand` has already replaced: a drain is answered as a failure.
* The watchdog gives a turn back and enqueues nothing
  (`session_turn_watchdog.go:32`). No failure is needed: a delivery recorded after
  its turn was projected to its end opens the turn again, the trigger's own task
  ends because a turn is active, and the watchdog comes half an hour later. It
  resets that turn too, although its terminal event was not lost
  (`session_turn_watchdog.go:14-18`). `Carried` names the other steps with the
  same effect (section 3.3); an interrupt whose count or enqueue fails is one.
* Ledger: `SpendWithTx` compares the balance before it looks for the reference,
  so a repeated spend after one that emptied the balance answers
  `ErrInsufficientCredits` and not `ErrAlreadyRecorded` (`credits.go:102-105`; no
  caller repeats one after a success). After a partial debit the allocated
  credits of a later batch may exceed its entry (`billing_batch_debits.go:143-146`
  says they are equal).
* Stream: an event whose attempts are used up leaves a gap, and every later event
  of that sandbox is rejected until its own attempts are used up; a new sandbox's
  events conflict with the old one's numbers for a week.
* Projector: the row of an event is dropped without an error if its session has a
  row with its number (`projector_event.go:75-81`). After a silence of a week a
  new sandbox's number 1 is accepted and meets the old sandbox's row; the event
  is published under that row and acknowledged. `AckedProjected` names this case.
  An entry that cannot be written (its session is deleted) fails its
  whole batch each time it is claimed, and the other entries of the batch stay
  pending with it (`projector_process.go:70`). `AllProjected` excludes it.
* Warm pool: the comment at `warm_pool_reconcile.go:113` has warm slots trimmed
  before warming ones; the loop goes through the list from its end, and warming
  slots go first. A creator that dies after the sandbox's row says running and
  before `MarkClaimed` leaves a sandbox whose runtime the reaper deletes.
* Triggers: `agent_trigger_deliver.go:149-151` lets callers fire side effects
  exactly once for an event; a worker that dies behind the commit fires none. One
  that dies between the claim and the message leaves a claimed event without a
  message (`lost`), and a review whose flush could not be enqueued is
  not asked for again by the retry (`stranded`): its open batch blocks the
  session's queue until another review comes. A batch that the runtime accepted
  with its answer lost is pending again, and a flush whose enqueue fails may open
  it then: a later review joins a message the session has read
  (`session_review_batch_flush.go:99-102`). `Sealed` speaks of rows recorded as
  delivered.

## 6. The proofs

Everything below is checked by `tlapm` for all values of the constants, under
the named assumptions of the modules: sets of names do not overlap, bounds are
natural numbers (attempts, batch sizes and units per credit positive), `Procs`,
`Sessions`, `Deliveries` and `Gens` are finite, a claim belongs to one event, reviews
and check suites have an id of their own, costs and amounts are natural numbers, and
spends and purchases are positive.

| Module | Theorem | States |
|---|---|---|
| `KeyedLockProofs` | `Types`, `Inductive`, `Exclusion`, `MapExact`, `Refinement` | `Spec => []TypeOK`, `[]IInv`, `[]MutualExclusion`, `[]MapHoldsOnlyUsed`, `Serializes` |
| `TurnCoordinatorProofs` | `TypeCorrect`, `OneLoopTheorem`, `InterruptTheorem`, `RunOnceTheorem`, `InOrderTheorem`, `AccountedTheorem`, `NotStarvedTheorem`, `FateTheorem` | `[]TypeOK`, `[]OneLoopOutsideGap`, `[]InterruptedOnRequest`, `[]RunOnce`, `[]InOrder`, `[]Accounted`, `[]ScheduledNotStarved`, `FateFinal` |
| `SessionTurnsProofs` | `TypeCorrect`, `OneDelivererTheorem`, `PostedInOrderTheorem`, `PostedOnceTheorem`, `CarriedTheorem` | `[]TypeOK`, `[]OneDeliverer`, `[]PostedInOrder`, `[]PostedOnce`, `[]Carried` |
| `CreditLedgerProofs` | `TypeCorrect`, `FloorTheorem`, `SpendTheorem`, `GrantedTheorem`, `AllocateExact`, `SplitTicksTheorem`, `NeverOverchargedTheorem`, `RowsMatchTheorem`, `AccountsTheorem` | `[]TypeOK`, `[]FloorKept`, `SpendCovered`, `[]GrantedOnce`, the shares of a debit that is taken whole sum to it, `[]SplitTicksAgree`, `[]NeverOvercharged`, `[]RowsMatchEntries`, `ImplementsAccounts` |
| `RuntimeStreamProofs` | `TypeCorrect`, `NothingDropped`, `SettledForGood`, `NoHoleTheorem`, `StoreRefines` | `[]TypeOK`, `[]DeliveredAccepted`, `SettledStays`, `[]NoHole`, `ImplementsEventLog` |
| `ProjectorProofs` | `TypeCorrect`, `AcknowledgedLast`, `OneOwnerAtATime`, `StateFollowsStream` | `[]TypeOK`, `[]AckedProjected`, `[]OneOwner`, `[]StateIsLatest` |
| `WarmPoolProofs` | `TypeCorrect`, `OneSandboxPerSlot`, `RuntimeStaysAlive`, `NothingLeaks`, `NeverOverfilled` | `[]TypeOK`, `[]OneHolder`, `[]HeldAlive`, `[]LeakFree`, `[]NotOverfilled` |
| `TriggerDeliveryProofs` | `TypeCorrect`, `EachEventOnce`, `ClaimsKeepEvents`, `MessagesAreSealed` | `[]TypeOK`, `[]OnceEach`, `[]Kept`, `Sealed` |

Every invariant, every action property and both refinements that a run checks
are stated by one of these theorems. The type invariants are proved, so no run
spends time on them.

The arguments:

* **Keyed lock.** Exclusion is not inductive: two goroutines with one key share
  a mutex only because the entry stays in the map while a reference is out
  (`EntryInMap`), which depends on `refs` counting the goroutines that hold one
  (`RefsCount`, by cardinality of `Users`), no two keys sharing an entry
  (`MapInjective`), and a goroutine inside owning its mutex (`InsideOwns`). The
  refinement maps every step to `Enter`, `Leave` or a stutter.
* **Turn coordinator**, five invariants, each resting on the one before it and
  on the types.
  * `IInv`: outside the gap every live loop holds the reservation
    (`LoopReserves`), so `Submit` finds it; a second loop would drop the first
    one's sender, so `InterruptedOnRequest` rests on there being one loop, on the
    sender belonging to a running turn (`ActiveRuns`) and on a fired cancellation
    having been asked for (`CancelledOnRequest`). The invariant is a disjunction
    with `gapHit`, which never becomes false again.
  * `SInv`: the places a message can be in (the queue, a backlog, a running
    batch, the list of what ran) exclude each other (`Apart`), which gives
    `RunOnce`. For `InOrder`, the queue is newer than everything that any loop
    holds or has run, because a drain always takes the queue whole
    (`QueueLatest`), and what a loop still keeps of the regular messages is newer
    than the regular messages it ran (`RanBefore`). It needs no hypothesis about
    the gap: two loops keep their orders apart.
  * `AInv`: a loop past its turn has settled its batch (`SettledBatch`), and a
    drain deals out everything it takes, so nobody without a fate is nowhere.
  * `PInv`: the backlog's counter pays for the batches that passed a waiting
    scheduled run (`Patient`), and it never exceeds `MaxRegular`.
  * `FInv`: whoever a loop or the queue still holds has no fate yet
    (`OpenKept`), so a fate is written once.
* **Session turns.** A worker past the claim holds its row's lease and everything
  before the row is delivered (`HolderLeases`, `HolderIsFirst`); a second claim
  would need a first undelivered row without a lease. For the order: delivered
  rows were posted (`DeliveredIsPosted`), messages join the queue once and
  before anybody posts them (`QueueInv`). Late events may set the session idle at
  any time; the invariant does not mention the status, and that is the point.
  `PostedOnce` needs `OInv`: an undelivered row that the runtime already has is
  in the hands of the worker about to record it, or its answer was lost
  (`WaitingIsNew`). `Carried` is proved from `InHand`: while the session is idle,
  a task, a worker, a trigger's task about to enqueue, an interrupt about to
  count, or an end-of-turn event that is on its way will look at the queue, or
  nothing waits but what was stranded.
* **Credit ledger.** A planned debit belongs to the tick that has the
  organisation's lock, and the headroom for it is there (`PlannedUnderLock`); a
  spend past its checks has the lock and the credits (`SpendUnderLock`);
  everything else can only raise the balance meanwhile. Each commit takes what
  it planned. `GrantedOnce` is part of `TInv`, with the types, one batch per
  locked row (`RowsHeld`) and one entry per reference. What is said of sums
  (`SplitTicksAgree`, `NeverOvercharged`, `RowsMatchEntries`) rests on `LInv`:
  the sums of a batch are those of the rows it holds (`BatchHeld`, `BatchPlans`),
  the entries of an organisation are the sums of its settled rows (`Books`), and
  a row that is not settled has no credits unless its organisation ran out
  (`Uncredited`). The sums are
  `SumFunctionOnSet`; the lemmas on them (adding an element, pointwise equality,
  bounds, splitting a set) and on rounding are proved in the same
  module. Of the operators, `AllocateExact` says that the whole credits of the rows and
  one more for the rows with the largest remainders make up the debit. Under
  `ImplementsAccounts` a commit is `Charge`, the insert of a spend `Spend`, a
  grant `Grant`, and every other step stutters.
* **Runtime stream.** A row is marked delivered by a delivery that was
  acknowledged; a frame somebody waits for belongs to a delivery of this sandbox
  that is still waiting, nobody waits for two, and what its handler has taken off
  the frame is in the stream (`FramesOfSent`, `OneFrame`, `AckedIn`). A duplicate
  is in the stream too, because the index has entries only for what is
  (`Indexed`). For `SettledStays` and `NoHole` there is `HInv`: a row is claimed
  by one delivery and pending meanwhile (`Claims`), the stream holds no number
  above the last one (`StreamBelow`), and a delivery or frame that carries a row
  has every undelivered row before it too (`SendsFollow`, `FramesFollow`), until
  a lease lapses under a delivery or an index entry expires. For the refinement
  the log is the stream and `base` is its length less the last number; every
  other step stutters.
* **Projector.** What is past the `INSERT` has a row under its key, what has left
  `left` is applied, and only a batch of which both hold is acknowledged
  (`DoneSoFar`), by whomever; a key that was given once can only have its own
  entry's row (`Acked`). `StateIsLatest` needs that, while nothing has gone wrong, the pending
  entries are exactly those in the one owner's hands and come after everything
  applied (`OwnerHasLease`, `InOrder`).
* **Warm pool.** Whoever is about to mark a slot has deleted its resource
  (`Deleted`), the slot to be created has no row (`Filling`), slots that are held
  or listed by the reaper are not available (`Taken`), and the reaper's list
  never meets a claim that is less than ten minutes old (`Spared`). The pool
  shrinks by every step but the insertions that were counted for, which
  `Missing` pays for.
* **Trigger delivery.** A claim of a task that is not routed stands for a key that
  is in the queue, for a task that will put it there, or was left behind
  (`ClaimsStand`): such tasks with one claim bring one key. A task past its claim
  leaves its key in the queue or another task of the claim to bring it
  (`PastClaim`); a routed one, which claims nothing, has written it itself.
  `OnceEach` is inductive because the row is looked up by the key and written under
  the session's lock.

Where a proof needs induction, over a sum or over the runs of a loop, it
takes the smallest counterexample (`NatLessThanWellFounded`,
`FS_StrictSubsetOrderingWellFounded`), because the induction rules of the library
take an operator that the installed provers cannot instantiate. For the same
reason the partition of the backlog is the recursive function `KeepAll`, whose
equation a proof can cite, and not `SelectSeq`.

Model-checked only: liveness (`LockReturns`, `Settled`, `TurnReleased`,
`TickEnds`, `Drains`, `AllProjected`, `Reclaimed`, `Delivered`), which needs
fairness and ENABLED and is outside what the installed provers do.

## 7. What is left

Not modelled yet, in the order of the plan: the lifecycle of a sandbox
(`orchestrator_sleep.go`, `wake_reservation.go`, `sandbox_auto_sleep.go`), whose
idleness check before the lock is the hazard of most interest; the drain's
snapshot (`drain.rs:50-91`); schedules (`agent_schedule_scan.go`), ingestion
attempts, the request counter, caches, and the microsandbox control plane, of
which nothing but the keyed lock is here.

Of the modelled components: the subagent workers of the runtime, the Slack path
of the queue, several sessions on one sandbox, refunds and saved payment methods,
the trimming of the stream, several profiles of the warm pool, the choice of a
trigger's session, and the two compositions of row 12.

Components that are not planned are I/O around a single row or transaction
(integrations, sheets, memory, clients), or decide by a model call; PROJECT.json
lists them with the reason, and the hazards that no property covers yet. Most of
the repository's lines are of that kind (generated clients, catalogues of models,
API documentation, handlers of one request): the models cover the code in which
actors meet.
