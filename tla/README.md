# TLA+ verification of the Buzz agent harness and relay services

The repository (`src/`) is Buzz: a Nostr relay with channels, git hosting, audio
rooms and workflows, its clients, and the harness that connects coding agents to
it. Two places hold most of its own concurrency, and this project models both:

* the harness, `crates/buzz-acp`: one event loop, a pool of agent processes, one
  task per running turn, steer requests that race the end of the turn they are
  meant for, timeouts at three levels, crash recovery, a relay connection that
  must resume where it left off and replies that must go out once;
* the parts of the relay where several processes meet over a store: git on object
  storage, repository names, huddle ownership, push wakes, scheduled workflows, and
  reads that a database replica may serve.

The modules are checked with TLC on small instances; the invariants named in
section 4 are proved with TLAPS for every value of the constants.

## 1. Inventory

### 1.1 buzz-acp

| Part | State | Operations | Interacts with |
|---|---|---|---|
| `EventQueue` (`queue.rs`) | per channel: pending events, in-flight flag and deadline, retry count and backoff, cancelled batch and reason, withheld steer events | push, flush_next, mark_complete, requeue (three kinds), drain_channel, mark/release/remove for native steers, expiry, compaction | called by the main loop only |
| Main loop (`lib.rs` `tokio_main`) | removed channels, heartbeat flag, respawn flags and circuits, timers | the arms of a biased `select!`, preceded by maintenance and the collection of respawns | receives prompt results, join errors, steer acks, wake results, relay events; sends control signals and steer requests |
| `AgentPool` and `run_prompt_task` (`pool.rs`) | idle slots, `task_map` | claim, return, control signal, steer request; a task ends in one of seven ways | posts one result per task, or panics |
| `AcpClient` (`acp.rs`) | hard and idle deadline of the prompt, steer slot | prompt, cancel with cleanup, steer | the agent process |
| `SlotCircuit` (`lib.rs`) | crash times, `open_until`, `respawn_in_flight` | record_crash, can_refill, mark_spawn_failed | respawn tasks |
| `PoolLifecycle` (`pool_lifecycle.rs`) | Listening, Waking, Ready, Failed, attempt | start, complete, cancel a wake | wake tasks |
| Relay client (`relay.rs`) | intended and active subscriptions, since-cursors, drop marks, parked and retried channels, rate-limit gate | subscribe, unsubscribe, events, CLOSED, NOTICE, reconnect, resubscribe, two drains | the relay; the main loop through a bounded channel |
| Final delivery (`final_delivery.rs`) | records on disk, index of answered source events | persist, submit, receipt, give up, recover at start | prompt tasks; the relay; the intake of the main loop |
| `config.rs`, `filter.rs`, `permission.rs`, `participation.rs`, ... | configuration | | not modelled |

What is hard: the result of a turn, the acks of its steers, the panic of another
task, the respawn of a third and the passing of four kinds of deadline reach the
loop in any order; a channel's batch changes hands between queue, task and result
several times; backoff, cancellation and steering use the same maps. What makes
the harness correct: a channel has one turn at a time and is released after each;
no accepted event is lost or delivered twice; a slot holds one agent; failures
are retried a bounded number of times; waiting events are dispatched in the end.

### 1.2 The relay and the rest

| Part | Hard behaviour, and what makes it correct | Module |
|---|---|---|
| Git on object storage (`api/git`) | concurrent pushes, lost answers of the store, compaction; refs change by whole pushes and what they name can be cloned | `GitPublish`, `GitRepository` |
| Repository announcements (`handlers/side_effects.rs`, `buzz-db/git_repo.rs`) | a name row and a pointer written by overlapping attempts with rollback; a confirmed repository can be cloned | `RepoAnnounce` |
| Pack cache (`api/git/pack_cache.rs`) | shared population, eviction beside users, cancelled requests; exact byte count, bound at rest | `PackCache` |
| Huddles and their lease (`audio`, `tunnel/directory.rs`) | join, leave, archive, drain and lease loss on two pods; nobody in an ended room, no owner left after a drain | `HuddleOwnership` |
| Push wakes (`buzz-db/push.rs`, `push_runtime.rs`, `buzz-push-gateway`) | claims that run out, late answers, rotation of the endpoint; nothing missed at the gate, nothing sent twice | `PushWakes` |
| Scheduled workflows (`buzz-workflow`, `buzz-db/workflow.rs`) | several engines, failing reads, restarts, revoked owners; one run per interval, none missed for ever | `WorkflowSchedule` |
| Replica fence (`buzz-db/replica_fence.rs`, the routed reads of `buzz-db/lib.rs`, migrations 0021 and 0026) | open and prepared transactions against the probe's scan, readers behind and on other timelines, restores; a page served by a replica lacks nothing its caller relies on | `ReplicaFence` |
| Connections, subscriptions, pub/sub fan-out (`buzz-relay`, `buzz-pubsub`) | slow clients, subscription changes during fan-out | not yet |
| Mesh and reliable streams (`buzz-relay-mesh`, `tunnel/reliable.rs`) | loss and reordering, membership churn | not yet |
| Audit log (`buzz-audit`) | concurrent appends; the hash chain stays a chain | not yet |
| Device pairing (`buzz-core/pairing`, `buzz-pair-relay`) | two parties, lost and repeated messages | not yet |
| Kubernetes backend | reconcile and garbage collection against stale observations | not yet |
| Clients, command line tools, SDK, deployment | user interface, one-shot commands, configuration | no |

`PROJECT.json` lists each with its sources, status and reason. The repository has
TLA+ models of its own under `docs/spec` (the multi-tenant relay, and
`GitOnObjectStore.tla` at design level); nothing here is derived from them.
That model has one abstract
ref per repository and takes coverage of a compaction pack on trust; `GitPublish`
follows the code of `cas_publish.rs`, with several refs, packs as sets of objects,
the rules that choose and fall back from a compaction, and the answers to the client.

## 2. Modules

**EventQueue** is a library: the queue's state for one channel is a record, and
each method of `queue.rs` an operator from a record to a record (`Push`, `Flushed`,
`Requeue`, `MarkComplete`, `ReleaseNativeSteer`, ...). An `Instant` is only ever
compared with the clock, so it is one of `"unset"`, `"running"`, `"elapsed"`. An
event is its arrival number, which is its `received_at`; `CreatedAt` gives the
other order, the one `flush_next` sorts a batch by. The arrival of the same
event twice (a relay replay) is taken to be filtered out before `push`.

**AcpHarness** is the state machine: the queue, the pool, the tasks and the loop.
`pc` is where the loop is. The actions and the code:

| Actions | Code |
|---|---|
| `RelayEvent`, `OwnerCommand`, `ChannelAdded`, `ChannelRemoved` | the relay arm of the `select!`: push and mode gate, `!cancel`/`!rotate` and observer commands, membership |
| `DispatchNothing`, `DispatchBatch`, `PoolExhausted` | `dispatch_pending`, one round of its loop per step |
| `SteerTaken`, `SteerAnswered` | the read loop of `acp.rs` |
| `TaskEnds`, `TaskPanics` | the ends of `run_prompt_task` |
| `HandlePromptResult`, `RecoverPanickedAgent`, `DrainReadyJoinResults` | `handle_prompt_result`, `recover_panicked_agent`, `drain_ready_join_results` |
| `HandleSteerAck` | the SteerAck arm |
| `HeartbeatTick`, `RefreshTick` | the periodic arms |
| `Maintenance`, `MaintenanceNotDue`, `CollectRespawns`, `RespawnEnds` | the top of the loop and the respawn tasks |
| `RetryElapses`, `DeadlineElapses`, `CooldownElapses` | time |

Outcomes are grouped by what `handle_prompt_result` does with them; Rotate acts on
the queue as Cancel does and SwitchModel as Interrupt does. Sessions are left out:
`try_claim` prefers an agent with a session, which is a choice among idle agents
here. `next`, `fate`, `merged`, `attempts` and `faults` are history variables and
bounds; no guard taken from the code reads them. `SlotCircuit`'s crash history is
a choice (respawn or open), and whether a deadline can expire under a live turn is
the constant `TurnMayOutliveDeadline`: the next two modules are about these.

**TurnDispatch** is the abstract specification: events wait, are taken into the
one turn of a channel, wait again or are settled. `AcpHarness` implements it with
`waiting` the live events in no task, `turn[ch]` the batch of the channel's task
and `settled` the events with a final fate (`ImplementsTurnDispatch`).

**TurnClock** is one turn with real clocks, from the flush to `mark_complete`, against
the in-flight deadline that the queue granted at the flush. Its phases are the waits
of `run_prompt_task`: setup up to a session, initial message, fetches for the prompt,
prompt with its steer renewals, cleanup after an idle timeout or a control signal, the
host's final reply (two submissions with their request retries), the turn metric, and
the result on its way to the main loop. While the agent is read, a phase may outlast its
deadline by one write that the agent does not take.

**SlotCircuit** is one slot with its crash history and time. **PoolLifecycle** is
the lazy pool with its wake tasks.

**RelaySubscriptions** is the background task of `relay.rs`. `subscribed`,
`parked`, `resub_retry` and the cursors are fields of `BgState`; each command, each kind of message, each
step of a resubscription and each drain is an action. The relay's side of the
socket (`Post`, `ReqServed`, `ReqRefused`, `RelayCloses`, `SocketDies`) is external:
it serves stored events newest first and then new ones.

**FinalDelivery** has the records on disk, the index in memory, a courier for
each delivery and the recovery task. `CrashAndOpen` is a crash and the load at the
next start; it may leave one record unreadable.

**GitRepository** is what a hosted repository promises: whole pushes, one at a
time, each on the values its client saw. **GitPublish** is how the relay does it:
`Request`, `Hydrate`, `Receive`, `Compact` or `Capture`, `PutManifest`,
`PutPointerWon` / `PutPointerLost` / `PutPointerLostAnswer`, `Finish`, with `Fail`
at every await. `Linearizable` is the refinement, with `repoRefs` the refs of the
manifest that the pointer names and `applied` the history of won swaps.

**RepoAnnounce** has one action for each statement and each request to the store
in `handle_git_repo_announcement`; the announcement is stored before and stays.

**PackCache** has one action for each stretch between two awaits of
`materialize_pack`; an `Arc` is a number and its count the requests that hold it.
`entries` keeps the `last_used` stamp that `tick` gave an entry, and the prune takes
the evictable entries in the order of these stamps.

**HuddleOwnership** is one huddle over the pods: lease, registry entry and
renewer by generation, rooms as objects that outlive their place in the manager,
and for each connection where its handler stands.

**PushWakes** goes from the lease and the trigger over match queue, outbox,
courier and gateway to APNs and back. **WorkflowSchedule** is one interval
workflow, the engines that tick for it, their anchors and the claim table.

**ReplicaFence** has the writer's database as a value: the heartbeat row and the
channel rows. `history` is every value it has had, and a reader session may be at any
of them, since readers lag differently and may stay on a timeline that a restore has
left. A transaction that inserts a row passes the deferred floor guard (`FloorGuard`)
and then commits, or is prepared and commits at any later time. The probe has one
action for each stretch between two awaits: `Sample`, the two subqueries of the scan
(`ScanActivity`, `ScanPrepared`, in the order in which they are written), `Beat`, then
`Record` or `RecordRegression` and `Rotate`, with `ProbeFails` anywhere. A routed read
is `RouteRead` (the precheck), `Observe` (the heartbeat in the snapshot that will serve
the page) and `Resolve` (the proved entry and the verdict); a page that was served
stays until `LeavePage`, so that its claim is tested against what commits
meanwhile. Two things are PostgreSQL's or the operator's: `Restore` brings back a state
whose rows are a part of the present ones, ends every transaction, prepared ones
included, and keeps the heartbeat row of that time or seeds a new epoch; and a
transaction is prepared within the clock margin of its guard, which is what the margin
is for. There is one clock. Sessions without the floor setting, and the loads that the
module comment puts outside its proof, are outside the model too. `reissued` is a
history variable of an entry: whether its token, or a higher one, had been seen in its
epoch before it was committed.

**MCAcpHarness** gives the finite event set, a `created_at` order that differs
from arrival, and the symmetry of channels and slots (both are only compared for
equality; no symmetry is used where liveness is checked).

**MCHarness**, **MCStorage** and **MCServices** each put several modules that
share no variable into one run: `focus` picks the one whose steps a behaviour
takes, the others stay in an initial state. Their product is never built, and the
properties of all are checked.

The theorems are in modules of their own, each over the modules of one run or
component: `EventQueue_proofs` (lemmas about the queue's operators) and
`AcpHarness_proofs` on it; `HarnessParts_proofs` (PoolLifecycle,
RelaySubscriptions, SlotCircuit, TurnClock); `ReplicaFence_proofs`; `Storage_proofs` (GitPublish,
PackCache, FinalDelivery); `RepoAnnounce_proofs`; `HuddleOwnership_proofs`;
`Services_proofs` (PushWakes, WorkflowSchedule).

Operators commented "Mutant of X" are deliberately wrong variants of `X`. They are
used by nothing; put in the place of `X` they make the property they are listed
with in `PROJECT.json` fail, which shows that the property notices such an error.

## 3. Runs

| Run | Instance | Shows |
|---|---|---|
| `acp_interrupt_mode` | 2 channels, 2 agents, 3 events, 2 faults, caps of 2, 1 retry; an event behind a turn interrupts it or waits (so queue handling is included) | `TypeOK`, `SlotExclusive`, `InFlightMatchesTasks`, `OneTurnPerChannel`, `CancelledNeverThrottled`, `UnmergedEventsKept` |
| `acp_steer_mode` | 2 channels, 1 agent | no withheld event without an ack, a steered event is not prompted too, queues within the cap, implements `TurnDispatch` |
| `acp_liveness` | 2 channels, 1 agent, 2 events, fairness, a refresh timer, the in-flight deadline may expire under a live turn | every event is settled in the end, backstop or not, and is in one place until then |
| `harness_parts` | TurnClock: 30 ticks, the smallest buffer that `BufferSuffices` allows, with an initial message. SlotCircuit: threshold 3, window 4, cooldown 5, 14 ticks. PoolLifecycle: 6 attempts, delays 2, 4, 7. RelaySubscriptions: 1 channel, event channel of 1, 3 posts, 3 commands, 1 dead socket, 1 refusal, 2 drops | the deadline outlasts the turn and its aftermath; crash loops are bounded; one wake under way and waiting work gets a pool; no channel comes back after an unsubscribe, wanted ones are on the air in the end, backpressure alone loses nothing |
| `storage` | GitPublish: 2 pushers, 2 refs, 2 commits, 2 pushes, compaction from 1 pack. RepoAnnounce: 2 owners, 3 names, 2 handlers, 3 announcements, quota 1. PackCache: 2 slots for 4 requests, packs of 1, 2 and 3 bytes in 2, 1 permit. FinalDelivery: 2 sources, 1 turn, 2 replies, 2 submissions, 1 crash, 1 failed write, 1 torn record | pushes linearize and stay clonable, an ok is a published push; confirmed names are clonable, the quota is overrun by at most one per handler, no push is undone; bytes exact, one population, bound at rest; one reply per source, budget over crashes |
| `services` | HuddleOwnership: 2 pods, 2 connections, 2 generations. PushWakes: 1 event, 1 matcher, 2 couriers, 2 sends, 2 lease events. WorkflowSchedule: 2 engines, interval 2, period 1, lag 1, 1 fault, 14 ticks. ReplicaFence: 1 pod, 1 writer session, 1 row, 1 page at a time, 3 states of the database, 1 restore, 2 ticks, floor, margin, staleness and budget 1, ring of 2 | a drained registry is empty, an ended room is empty, a lease ends by its own epoch; nothing lost at the gate, sent once; one run per bucket, the schedule keeps up, a revoked owner never fires; covered pages are complete, fresh pages miss no more than the budget |

**Bounds.** Three events let one be in a turn, one be steered or queued behind it
and one arrive on another channel or overflow a queue of two; two faults let a
failed respawn follow a crash, or a second failure follow a first, which with one
retry reaches the dead letter. `MaxFaults` counts failed turns, panics, failed
respawns, owner commands and removals. One agent for two channels forces the
exhausted dispatch. Two pushers and two pushes are the smallest race for a pointer,
and a threshold of one makes the second push compact what the first left; three
announcements let two overlap and a third, of the other owner, find what is left;
two sends let a courier retry what a slower one still waits for; two generations
let a renewer outlive its lease; one crash with two submissions lets it fall
between any two of write, send and receipt. In ReplicaFence three states are
the first one, a heartbeat, and a row committed before or after it, or the rotation
that follows a restore (a heartbeat after it repeats a state); two ticks let the wall,
two below the clock, reach the stamp of a row. `replica_fence_rewind` has a fourth, for
a row on the new timeline. In SlotCircuit fourteen ticks hold an opening, a whole
cooldown, a probe and its crash. Cap, batch size, retries, window and durations
are scaled down from 500, 50, 10, 60 s and so on; the code compares them and does
nothing else with them. `DedupMode` is Queue in every run: in Drop mode nothing is
put back, and the theorems of section 4, which hold for both modes, cover it.

**Fairness** (`FairSpec` of AcpHarness). Tasks and respawns end: each turn has an
idle and a hard timeout and each start of an agent a timeout. Time passes. The
loop serves what is ready: the `select!` is biased and polls results, panics and
acks before the arms that can be ready for ever, and the top of the loop is
passed on every round, hence strong fairness for those. Periodic arms fire if they
are configured. Nothing is assumed of arriving events, owner commands or of an
agent's success. PoolLifecycle assumes that time passes, that a wake task ends and
that the loop serves it; that a wake succeeds in the end is its bound
`MaxAttempts`. RelaySubscriptions (`SubscriptionFairness`) assumes that the task
and the main loop run, that the ping notices a dead socket, that a connect
succeeds in the end and that rate-limit gates expire; the loop passes its drains at
every ping. The other modules have no liveness property: what they promise in time
(`ScheduleKeepsUp`) is an invariant over the modelled clock.

**Deadlock** is not checked where the bounds on inputs let a finished system stop.

### Where code and comments disagree

Six runs are expected to fail; each states what a comment of the code says.

1. `acp_event_lost` (`NoEventLost`). `requeue` and `requeue_preserve_timestamps`
   put back `batch.events` and drop `batch.cancelled_events`. A message whose turn
   was cancelled to be merged with a newer one is lost when the merged batch meets
   an exhausted pool, or fails. `UnmergedEventsKept`, which other runs check, is
   the property without those events.
2. `acp_retries` (`AttemptsBounded`). An exhausted dispatch calls `mark_complete`,
   which forgets the retry count once the backoff has elapsed; a batch may fail
   more often than `MAX_RETRIES` + 1 times.
3. `turn_clock_initial` (`TurnEndsFirst`). An initial message has a whole
   `max_turn_duration` of its own, and the channel prompt another; the backstop of
   one cap plus 100 s expires under the live turn. `acp_liveness` and the
   theorems `NothingIsDeliveredTwice` and `UnmergedAreAlwaysKept` show what then
   still holds; `OneTurnPerChannel` does not.
4. `relay_dropped_lost` (`DroppedIsReplayed`). The mark that widens a channel's
   replay window is removed when the REQ is written. If the socket dies before the
   replay, the next REQ asks from `last_seen`, which the dropped event had already
   moved, and the event is lost. `BackpressureLosesNothing` is what holds: without a
   dead socket or a refused REQ nothing is lost.
5. `repo_announce_release` (`ReleaseIsSafe`). An attempt that reserved the name and
   then failed to write the pointer deletes the row, although an overlapping attempt
   of the same owner has confirmed the name; another owner can then take it. The
   repository itself stays clonable (`ConfirmedIsClonable`).
6. `replica_fence_rewind` (`NeverHoles`). `record` notices a token that went back
   within its epoch by the last entry of the ring. A failed probe has emptied the ring
   (and the restore of the writer makes a probe fail), and a new pod starts with an
   empty one; the reissued token is then recorded without rotating the epoch, and a
   reader still on the old timeline, with the same epoch and a token as high, proves
   coverage of a page that lacks what was committed since. `CoveredPagesComplete` and
   `FreshPagesBounded` are what holds: pages proved by a token that was issued once.

Three more are visible in the models and have no run. `BufferSuffices` of TurnClock does
not hold of the timeouts in the code, initial message or not: each submission of a final
reply may take four requests of 10 s with about 3.5 s of delays, and there may be two with
a second between them, which is about 88 of the 100 s; the metric has 3 s; and
`session/new`, in the setup, may take 90. The comment counts "cancel-drain grace +
respawn" alone. For that a
turn has to come near its cap and several of these waits have to be long at once. With presence, typing,
heartbeat and inactivity timers all disabled, nothing wakes the loop on a quiet
channel, and a throttled batch waits for ever; `acp_liveness` holds because a
periodic arm is configured. And a half-open probe of SlotCircuit that takes longer
than the window to start is on trial no more when it crashes.

## 4. Proofs

All are checked by TLAPS, for every value of the constants that satisfies the named
assumptions of the modules: natural bounds, positive where the code's are, a finite
pool, finite sets of handlers, requests and packs, values such as `NoChannel` distinct from
the real ones, a reflexive and transitive ancestry of commits, a circuit cooldown no
shorter than the crash window (300 s and 60 s in the code), a positive clock margin and
a read budget within the staleness gate, to which the code clamps it. TLC evaluates them on
every run.

| Theorem | States |
|---|---|
| `TypeCorrect`, `QueuesStayBounded`, `SlotsAreExclusive` (AcpHarness) | `[]TypeOK`, `[]QueuesBounded`, `[]SlotExclusive` |
| `WithheldAlwaysAwaitsAck` (AcpHarness) | `[]WithheldAwaitsAck` |
| `NothingIsDeliveredTwice`, `UnmergedAreAlwaysKept` (AcpHarness) | `[]NoDuplicateDelivery`, `[]UnmergedEventsKept` |
| `InFlightIsExact`, `TurnsAreSerial`, `CancelledAreNeverThrottled`, `SteeredAreNeverPrompted` (AcpHarness) | `[]InFlightMatchesTasks`, `[]OneTurnPerChannel`, `[]CancelledNeverThrottled`, `[]SteeredNeverPrompted`, under `TurnMayOutliveDeadline = FALSE` |
| `HarnessImplementsTurnDispatch` (AcpHarness) | the refinement `ImplementsTurnDispatch`, under the same assumption |
| `BackstopOutlastsTurn` (TurnClock) | `[]TurnEndsFirst` under `BufferSuffices`, which says exactly when that assumption is justified |
| `OneWakeUnderwayAlways` (PoolLifecycle) | `[]OneWakeUnderway` |
| `CrashLoopAlwaysBounded` (SlotCircuit) | `[]CrashLoopBounded` |
| `NeverResurrectedEver`, `BackpressureAlwaysLosesNothing` (RelaySubscriptions) | the action property `NeverResurrected`; `[]BackpressureLosesNothing` |
| `AlwaysClonable`, `OkIsAlwaysPublished`, `PushesLinearize` (GitPublish) | `[]Clonable`, `[]OkIsPublished`; the refinement of `GitRepository` |
| `ConfirmedStaysClonable`, `AnnounceNeverUndoesPush`, `QuotaOverrunAlwaysBounded` (RepoAnnounce) | `[]ConfirmedIsClonable`, the action property `PushSurvivesAnnounce`, `[]QuotaOverrunBounded` |
| `OnePopulationAlways`, `BytesAlwaysAccounted`, `BoundHoldsAtRest` (PackCache) | `[]OnePopulation`, `[]BytesAccounted`, `[]WithinBoundAtRest` |
| `OneReplyAlways`, `BudgetAlwaysSurvives` (FinalDelivery) | `[]OneReplyPerSource`, `[]BudgetSurvivesCrashes` |
| `EndedRoomStaysEmpty`, `DrainEmptiesRegistry`, `LeaseAlwaysEndsByItsEpoch` (HuddleOwnership) | `[]EndedRoomIsEmpty`, `[]DrainedRegistryIsEmpty`, the action property `LeaseEndsByItsEpoch` |
| `SentToApnsOnceAlways`, `NoWakeEverLostAtTheGate`, `StaleAnswerAlwaysHarmless` (PushWakes) | `[]SentToApnsOnce`, the action properties `NoWakeLostAtTheGate` and `StaleAnswerHarmless` |
| `OneRunPerBucketAlways`, `RevokedOwnerFiresNothing`, `ScheduleAlwaysKeepsUp` (WorkflowSchedule) | `[]OneRunPerBucket`, `[]RevokedOwnerNeverFires`, `[]ScheduleKeepsUp` |
| `FenceTypesAlways`, `CoveredPagesAlwaysComplete`, `FreshPagesAlwaysBounded` (ReplicaFence) | `[]FenceTypeOK`, `[]CoveredPagesComplete`, `[]FreshPagesBounded` |
| `NeverHolesWithoutRestore` (ReplicaFence) | `[]NeverHoles` under `MaxRestores = 0`, without the exception for reissued tokens |

`TurnMayOutliveDeadline = FALSE` is needed. The code does not guarantee it: the initial
message is not covered (finding 3), and setup, cleanup, final reply and metric together
may outlast the buffer. `BufferSuffices` states the inequality: what comes before the
channel prompt, and the longer of what comes after it and of an ack's way, fit in the
buffer. With a buffer one smaller TLC finds the deadline passed. The runs and theorems
under the assumption are about turns that keep to it; `OneTurnPerChannel` says nothing
about the expiry itself. When
the backstop expires under a live turn, a second turn can start, and the expiry puts
a withheld event back while the ack that says it was steered is still on its way.

Each proof has the same pattern: the initial states satisfy an invariant, one lemma
for each group of actions shows that they preserve it, it implies the property, and
the temporal step combines them. The invariants, and why they are needed:

**The harness.** `TypeOK` is not inductive: a task that was cancelled
and returns its batch hands its control signal to `RequeueAsCancelled` as the
reason, so the signal must be Steer or Interrupt. `GoodTask` says so, and that a
task without a running turn holds no steer. `TypeInv` is `TypeOK`, the queue bound
and `GoodTask` for every task; the lemmas of `EventQueue_proofs` carry it through
each queue operator. `SlotExclusive` is inductive relative to `TypeInv`; it has to
speak of the posted results as well as the running respawns. `TurnInv` says that
in-flight flags and tasks agree, that no deadline has elapsed, and that no two
tasks share a channel: neither half is inductive alone, since `DispatchBatch`
relies on "not in flight, so no task" and `MarkComplete` on "this was the only
task". `ThrottleInv` adds to `CancelledNeverThrottled` that no channel in flight
has a running backoff (a backoff is set only by the result that ends the turn), and
rests on `TurnInv`: the turn a result reports is in flight.

`AwaitInv` is `WithheldAwaitsAck` with two facts it rests on: a turn that has ended
holds no steer, and the side table has an event once, for an ack takes one entry
out. `SteerInv` says of every event in a steer request or an ack, whatever the ack
says, that there is no second request or ack for it and that it is in no queue and
in no batch; `SteeredNeverPrompted` is about Success alone, and would not survive
the step in which a request is answered. The lemmas on `Flushable` in
`EventQueue_proofs` say which events each method may make available to `flush_next`.

`PlaceInv` is about where the events are, and is shared by `NoDuplicateDelivery` and
`UnmergedEventsKept`. It says that the queues, the side table and the cancelled batch
of a channel repeat no event and share none, that the same holds inside a batch,
that the channels and the tasks share none, that what is held anywhere is live, that
an event which has not arrived has no fate, and that what a batch carries as
`cancelled_events` is recorded as merged. The properties alone are not inductive. A
queue that repeats an event would lose the second copy to no one's notice when the
first is taken out; an arriving event must be known to be nowhere yet; and
`requeue`, which puts back a batch without its `cancelled_events`, keeps
`UnmergedEventsKept` only because those are merged. The `...Neat` lemmas of
`EventQueue_proofs` say for each method of the queue exactly which events it keeps,
moves or drops. Neither theorem assumes anything about the deadline: an expiry under
a live turn leads to a second turn, with other events. With its one agent the
`acp_liveness` run has the expiry, the recovered events and the late result; the two
turns side by side are the theorems' alone.

The refinement of `TurnDispatch` needs `PlaceInv` before and after a step, and
`TurnInv`. Since what a turn holds is live after every step, a step that leaves the
turns alone can have settled only waiting events, which is a `GiveUp`; with `TurnInv`
a dispatch meets a channel without a turn and a result ends the only one it has.

`ClockInv` of TurnClock says for each phase how much of the buffer has been spent,
or else that a steer has renewed the turn's deadline and the ack which will extend
the in-flight deadline is on its way and was posted while the deadline covered it.
`AckExtends` is the step that ends the second case: with the ack handled the deadline
covers what is left of the phase, whichever it is, by itself.

`LifecycleInv` says what it is that a waking pool waits for (a task, a panic or a
result, of this attempt) where `OneWakeUnderway` counts. `CircuitInv` compares
`crash_times`, which `record_crash` prunes and an opening clears, with the full
history: counted from the end, each crash of the last window has an entry that is no
older. While the circuit is open, the cooldown is longer than what is left of every
window. `IntentInv` is that the task means to subscribe what the harness wants,
lists under way included. `BackpressureInv` says that, as long as the socket lives
and nothing was refused, each event dropped is on the wire again or at or after the
stamp from which the next REQ asks.

**Storage.** `GitInv` follows a push: what it read, a manifest that is complete (its
packs are stored, and hold what its refs reach) and follows from what it read by the
commands of the push. The swap succeeds only if the pointer is still what was read,
which makes the step one of GitRepository; the other steps leave its variables alone.
`QuotaInv` counts a handler that has read the quota and not yet inserted as a name.
`FlightInv` says that a flight counts the requests in it: that is why it stays in the
map while there are any, so that all requests for a digest are in one flight, whose
lock one of them has.

The bytes of the cache are a sum over a finite set of packs, defined by recursion on
the set. The induction this needs is not available as a rule, so it is made by hand:
the library's theorem that strict inclusion is well-founded on the finite subsets
gives, for every collection of sets, a least one (`LeastSet`), and a least
counterexample leads to a contradiction. In this way two functions that satisfy the
recursion agree, such functions exist for every finite set, and what is defined by
choice is one of them (`BytesOfEquation`); from it follows what inserting or removing
an entry does to the sum. `EntriesInv` is `BytesAccounted` with the types and with
stamps below `tick`, which keeps them distinct. `BoundInv` says that, when the cache
is above its bound, the excess is either held by requests that will prune when they
drop their entry, or about to be pruned: `WithinBoundAtRest` is about the
moments without requests alone, and the step that ends the last of them would not
preserve it.

`DeliveryInv` says that index and disk agree but for states,
that a courier carries what the index has, and that an event still to be answered is
in no record. `BudgetInv` relates the submissions to the count in the record, and that
to what the courier holds, for replies that have only ever had one courier.
`AnnounceInv` is `ConfirmedIsClonable` with the types: a pointer is only ever
written where it is absent, or pushed, and a handler confirms only in the step in
which it saw or made one.

**Services.** `RegistryInv` rests on `DrainInv`: from the moment `drain_all` has
collected, an entry in the registry is either the one it collected, until it is
through with it, or belongs to a connection that has inserted it and has yet to look
at the flag again. `DrainedRegistryIsEmpty` alone says nothing about the moments in
between, so it is not inductive. `RoomInv` adds the types of the rooms to
`EndedRoomIsEmpty`. `LeaseEndsByItsEpoch` and `StaleAnswerHarmless` need no
invariant: the comparison is made in the step that acts. `FenceInv` of PushWakes is about the
gateway's tables alone; `GateInv` says that an activation which holds the gate has
nobody inside, and that an event let in without a job meets no eligible lease.
`ClaimsInv` keeps apart a claim that is won and the run that is still to be created;
`AuthorityInv` follows the owner's role through a tick. `KeepsUpInv` gives each
process a schedule of its own (when it wakes, from which anchor, and what it will
seed if it has none), which alone meets the bound. The proof corrected the
property: an earlier bound of one interval less was too tight for a process that
restarts before its first fire and seeds its anchor when it wakes, and TLC confirmed
the counterexample on a smaller interval, the one the run now uses.

**The replica fence.** A page that is served must stay complete while others commit,
so the invariant has to bound what is still to come. `Walled` says of an entry that
the rows of all transactions past the guard are above its wall, and that the guard
would stop any other row that is not; `Complete`, of a set of rows, that it has every
row of the writer at or below the wall or committed before `committed_at`; `Covers`,
that every state of the entry's epoch with its token or a higher one is complete.
`Sound` (walled, and covering unless reissued) holds of an entry from its commit on,
in the probe and in a ring, and a page keeps the two halves for its own snapshot.
Instead of going through every action for every holder of an entry, the proof first
shows what all steps have in common (`Orderly`: time goes on, a transaction newly past
the guard has a row above the floor of now, a new row comes from a transaction past
the guard, a new state has all rows), and that an orderly step keeps a sound entry
sound. What is left is where entries are made. `TxInv` relates the stamps a scan sees
to the row they stand for. `ProbeInv` describes the moments in between: after the
first subquery the bound holds for all transactions past the guard that are not
prepared, and the second finds the prepared ones, those that prepared in between too.
`CoveredPagesComplete` alone is not inductive: it says nothing of the rings from which
the next page is served. `NeverHolesWithoutRestore` adds `SteadyInv`: the writer's
token is the highest of its epoch, and so no entry is reissued.

**Only model-checked.** Liveness (`EventuallySettled`, `EventuallyReady`,
`EventuallyOnAir`) is out of the prover's reach. Every invariant and action property
that a passing run checks is stated by a theorem. `FenceTypeOK`, `StaleAnswerHarmless`
and `NeverHoles` without restores are stated by theorems alone.

## 5. Not modelled

In buzz-acp: shutdown and the inactivity exit; sessions, session affinity and
rotation; prompt text; the author, owner and subscription gates before `push` (an
event that reaches the model has passed them); deduplication of membership
notifications; reactions, typing and presence messages; observer frames; usage
metrics; the REST client; length and jitter of backoffs.

In the modelled relay parts: HTTP and packet lines, git's own work, the rules of
the push policy; audio frames, rosters and control messages; grants and tokens of
the push gateway; cron expressions, event triggers and the steps of a workflow run; the
start-up checks of the floor guard, the reader's capability probe and route metrics;
the gateway's answers for wakes it refuses for good, other than the modelled one, and
the reaping of its replay rows. A tick of WorkflowSchedule reads clock, list and anchors
in one step.

The rest of the repository is listed in section 1.2. Most of it by volume (user
interfaces, SDK, database statements that stand alone, request validation, media,
search, agent prompts and model clients) has one thread and one step per call, and
its tests reach it better than a model would; that is why the modelled share of the
lines is small and stays so.

## 6. Plan

1. **Done**: EventQueue, AcpHarness, TurnDispatch, TurnClock, SlotCircuit,
   PoolLifecycle, RelaySubscriptions, FinalDelivery; GitRepository, GitPublish,
   RepoAnnounce, PackCache, HuddleOwnership, PushWakes, WorkflowSchedule,
   ReplicaFence; the theorems of section 4.
2. **Theorems next**: nothing a run checks and the prover can reach is left
   unproved; new models come with their invariants proved.
3. **Models next**: the shutdown sequence of buzz-acp; subscription fan-out with
   slow clients; audit chain under concurrent appends; tunnel streams over a lossy
   link, refining a FIFO channel; mesh membership; pairing session with its relay;
   Kubernetes reconcile and garbage collection.
