# TLA+ models of the OpenClaw gateway

Models of the parts of the gateway whose correctness depends on the order of
events: queues, restarts, retries, timers, locks with an expiry. Source paths
are relative to the repository; unless a path says otherwise they are under
`src/`. Each definition that models code is listed with its lines in
`PROJECT.json` ("map").

## How the code runs, and what a step is

The gateway is one Node.js process. JavaScript code runs to completion until
it awaits, so nothing interrupts a synchronous function and everything can
happen at an `await`. In all modules an action is therefore a stretch of code
between two awaits, with every synchronous call it makes, and the
interleavings are those of the event loop: timers, answers, signals and
callbacks in any order. Two things are outside of the process and go on
without it: the files it writes (delivery queue, cron store, locks) and other
processes (Redis, other gateway nodes, other holders of a session file, the
nodes that run commands).

A restart within the process (SIGUSR1) is the main source of trouble in this
code: it replaces servers, services, runners and lanes, but not the promises
that the old ones still await. Several modules have two generations of the
same object for this reason.

## Inventory

| component | state it keeps | operations | what is hard, and what makes it correct |
|---|---|---|---|
| command lanes `process/command-queue.ts` | lanes: queue, active ids, cap, generation | enqueue, complete, set cap, clear, reset | a missed pump leaves work forever; late completions of an earlier generation; caps lowered while busy. Exact bookkeeping, work conservation, FIFO, cap |
| agent runs `agents/pi-embedded-runner/run.ts`, `compact.ts`, `lanes.ts`, `gateway/server-lanes.ts` | none of their own: a task in the session's lane holds a task in a global lane | run, compact, interrupt | two levels of waiting; resets under running turns. One run per session, no deadlock |
| run loop and restart `cli/gateway-cli/run-loop.ts`, `infra/restart.ts`, `gateway/server-reload-handlers.ts` | server, resolver, shutdown in progress, authorizations, cycle tokens, timers, pollers | SIGTERM, SIGUSR1, schedule, config change, drain, close, in-process restart | signals at any time, several requests, timeouts. One server, never a loop nobody can wake, requests not swallowed |
| outbound delivery `infra/outbound/deliver.ts`, `delivery-queue.ts` | files with a retry count, `failed/` | enqueue, send, ack, fail, move, recover | crash between any two steps, failing I/O, a recovery beside live deliveries. Nothing lost, nothing given up early |
| followup queue `auto-reply/reply/queue/*`, `utils/queue-helpers.ts` | per key: items, settings, drop count, summary lines, draining flag | enqueue, drop, collect, drain, clear | items added, dropped and cleared while a drain awaits a run. No message lost or answered twice, drains end |
| cluster `enterprise/cluster/index.ts` | Redis lock with expiry; `_isLeader`, renewal interval, heartbeat | join, heartbeat, renew, leave | overlapping command chains, expiry, lost connections. Leaders agree, failover |
| cron `cron/service/*`, `cron/schedule.ts` | job store on disk, a copy per service, `runningAtMs` markers, one timer | tick, add, update, remove, run, start, stop | stale job objects across awaits, failing saves, two services on one store, missed jobs after a restart. No double run, no due job skipped, the scheduler does not fall asleep |
| heartbeat wake `infra/heartbeat-wake.ts`, `heartbeat-runner.ts` | pending wakes, one timer, running flag, handler generation; the agents' due times | request, handler change, run, retry, enable | a late batch of an old handler; a batch that fails is queued again as a whole. No wake forgotten, cooldown kept, beats go on |
| channel manager `gateway/server-channels.ts`, `channel-health-monitor.ts` | tasks, aborts, restart attempts, manual stops per account | start, stop, crash, restart with backoff, reload, health check | two starts pass one check before an await; stop during a backoff. One connection per account, a stop stays a stop |
| exec approvals, node registry `gateway/exec-approval-manager.ts`, `node-registry.ts`, `server-methods/nodes.ts` | records and pending promises with timers; the session of a node | request, resolve, expire; register, unregister, invoke, wake | answer against timeout; the old connection's close after a reconnect. Nothing runs unapproved, every call ends |
| session write lock `agents/session-write-lock.ts` | lock file, the lock of each process with a count | acquire, share, inspect, remove, release, watchdog | a stale lock is checked and removed in two steps; crashes in between. One writer, exact count, a dead lock goes |
| reply dispatcher `auto-reply/reply/reply-dispatcher.ts` | a send chain, a count with a reservation | enqueue, complete, wait | the count must not reach zero early: a restart waits for it |
| embedded run registry `agents/pi-embedded-runner/runs.ts`, `auto-reply/reply/get-reply-run.ts` | active run handles, waiters | steer, queue, interrupt, wait | a decision taken before an await and used after it |
| subagents `agents/subagent-registry.ts`, `subagent-announce-queue.ts` | runs on disk, announce queues | register, complete, announce, restore | completion by event and by wait, announce retries, restart |
| session store `config/sessions/store.ts` | one JSON file | read-modify-write under a queue | the lock above; the rest is data |
| audit sinks, rate limiter `enterprise/*` | buffers, flush timers, hash chain; windows | log, flush, close; count | events during a flush, a failed batch, a close that waits |
| process supervisor, inbound debounce, pairing | small | | timers against answers |

How they interact: an inbound message goes through the debounce to
`get-reply-run`, which steers the active run, puts the message into the
followup queue, or starts a run; a run goes through its session's lane and a
global lane, and takes the write lock of the session file; what it says goes
through the reply dispatcher to outbound delivery; when it returns it drains
the followup queue. Cron, heartbeat wakes and subagents start runs in their
own lanes. A run that wants a command executed on a node asks for an approval
and invokes the node. The run loop waits for lanes and dispatchers to be idle
before a restart, resets the lanes after it, and the new server starts the
channels, the cron service and the heartbeat runner, recovers the delivery
queue and joins the cluster.

## Modules

| module | what it is |
|---|---|
| `CommandLanes` | the lanes, every exported operation that changes them |
| `SessionLine` | abstract: what the lanes promise a session |
| `AgentRuns` | two levels of lanes composed from `CommandLanes` (`INSTANCE`), refines `SessionLine` |
| `GatewayRestart` | run loop, restart scheduling, config reload, drain |
| `Outbox` | abstract: what the write-ahead queue promises its callers |
| `DeliveryQueue` | the write-ahead queue, live deliveries, recoveries, refines `Outbox` |
| `FollowupQueue` | the queue of one session key and its drains |
| `ClusterLeader` | leader election of gateway nodes over Redis |
| `CronService` | cron services over one store: ticks, locked operations, restarts |
| `HeartbeatWake` | the wake queue with the heartbeat runners that feed and handle it |
| `ChannelManager` | one account, its task and everybody who starts and stops it |
| `NodeCalls` | commands on a node: approval, check of the approval, invoke, connections |
| `FileLock` | processes that share a session file |
| `*Proofs` | theorems about the module of that name; `GatewayServicesProofs` those about `ChannelManager`, `HeartbeatWake` and `NodeCalls`, `LocksProofs` those about `FileLock` and `ClusterLeader` |
| `*MC` | instances for TLC: values of the constants, nothing else |

Where one module of theorems extends several components, their `Init`, `Next`,
`Spec`, `TypeOK` and `vars` carry the component's name (`WakeSpec`, `lockVars`).

Definitions marked `[mutant]` stand before the definition they vary. They are
not used by any specification; each is a bug the code might have, and the
property named with it in `PROJECT.json` fails if it replaces the original.

### CommandLanes

State: `lanes[l]` is `LaneState`; `status[c]` is what became of the promise of
a call; `taskGeneration[c]` is the generation captured in the closure of
`drainLane`. Actions: `Enqueue`, `Complete`, `SetConcurrency`, `ClearLane`,
`ResetAllLanes`, each with the pump it triggers. The `draining` flag is false
whenever control is at the event loop and is not a variable. Lanes the code
creates on first use exist from the start. The read-only counters and logging
are left out.

### AgentRuns and SessionLine

A run is two commands, `Outer(r)` in the session lane and `Inner(r)` in the
global lane; the outer task starts by enqueueing the inner one inside the pump
of the first, so an action pumps both levels. `ClearSession` is the interrupt
of `get-reply-run`. `SessionLine` says: runs of a session stand in line, only
the first executes, once, and only those behind it can be turned away. The
refinement takes a session's line to be its running task followed by its lane's
queue; it is stated up to the first reset, which deliberately forgets the tasks
in progress.

### GatewayRestart

State: the loop (`starting`, `up`, `exited`), the variable `server`, how many
servers are alive, the state of `restartResolver`, the shutdown in progress,
the tasks in the lanes, the counters of `restart.ts`, timers and pollers. With
the listener installed `process.emit` runs `onSigusr1` inside
`emitGatewayRestart`, so emission and handling are one step. Clocks are
abstracted: a timer may fire at any time once it is set. The drain captures the
ids of the tasks that run when it begins (`waitFor`), then polls: `DeadlinePasses`
says that its time is up (`expired`), `DrainEnds` is a poll that finds none of the
captured tasks running or the deadline passed. The force-exit timeout may come at any
time in its phase. The history `owed` keeps, apart from what the loop captured, the tasks that
ran when the restart was accepted. The spawned commands of
`triggerOpenClawRestart` only report how they ended and are left out.

### DeliveryQueue

State: the entries on disk with their retry counts, `failed/`, the call in
progress of every live delivery and every recovery (`attempt`, with a program
counter per await), what each recovery still has to do and the time it spent.
A delivery fails as a whole because its caller aborted it, because a payload or
the code around it threw, or because what was thrown has the name of an abort
without being one (`TakenForAbort`, `deliver.ts` 264-276: the time limit of a Signal send).
`ackDelivery`, the two halves of `failDelivery` and `moveToFailed` are steps of
their own, and each can fail. `Crash` ends the process between any two steps;
`RestartInProcess` starts a recovery beside the previous one. Time passes only
in backoffs and sends, counted against `maxRecoveryMs`. The refinement mapping to
`Outbox` (`Stage`) calls a delivery pending while its entry is on disk, else failed
if it is in `failed/`, else done if it was written; what was sent, how often
it failed, who aborted, whose failure was taken for an abort (`mistaken`, in
`Outbox` `misjudged`) and what met a fault or an overlap are the histories of the
module. Entries that cannot be
parsed, chunking, media, hooks and channel adapters are left out.

### FollowupQueue

State: the queue objects (a clear takes the object out of the map while a drain
keeps it), a drain per object with the turn it awaits. A turn records the
messages in its prompt, those listed as dropped, and how many items it removes
when it succeeds, by position, as `shift` and `splice` do. The route of a message
is channel and destination; messages that cannot be routed, the wording of
summaries and `lastEnqueuedAt` are left out, and the debounce is an await that
ends.

### ClusterLeader

State: the leader key and its remaining life, and of every node its
coordinator (`isLeader`, the renewal interval), whether its heartbeat of this
period has fired, and the commands in flight on its connection with their
answers. Time is counted in heartbeat periods: `Tick` ends a period when every
undisturbed node has done what falls into it; within a period the order is
free, so a renewal that is due and a heartbeat's answer may come either way, and
the key lives three ticks, then expires within the next period. A stalled node
(paused process or slow connection) may take any number of periods; on a lost
connection commands fail, executed or not. A node starts at most once a
period. Three histories count the ends of a period that a node saw while it
was wrong about who leads (`wrongFor`), led without a renewal interval (`unarmed`), or led
on without a connection (`leadCut`). Redis is external: its commands and the expiry are modelled as the code
uses them. Left out: the write of the node's own key (nothing decides by it),
the bus, which forwards messages and keeps only its handlers, and what a failed
`removeNode` leaves behind in a process that lives on.

### CronService

State: the store on disk, and per service of the process its copy in memory,
its timer, the phase of its tick (marking, executing, applying results) and
what the tick has of each job; the lock that all services of a process share,
with whoever holds it over an await (`run`, `start`) and the queue behind it.
Operations that only load, compute and save are one step (`Add`, `Update`,
`Remove`, a read, a tick that finds nothing due). The executions of a tick run
outside of the lock, so every operation can fall between the marking of a job
and its result; a save of a tick may fail, the process may end, and a reload
makes a second service while the first one's tick goes on. Time is a counter up to
`MaxTime`. A job is `every`, `cron` (fixed instants) or `at`, a `Schedule`
record with the fields the decisions read. Left out: schedules that cannot be
computed, staggering, the migration of old stores, payloads and delivery, and
saves that fail outside of a tick.

### HeartbeatWake

State: the pending wakes by target, the timer with its kind (normal or retry),
the flags `scheduled` and `running` (here `flushing`), the handler, the batches in progress with
the wakes they still have to handle, and of every runner its life, the time its
agent is due and its interval timer. A second runner is the one after a restart
within the process: it registers its handler and resets the flags while a batch of
the first may be in progress. A call of the handler ends as `ran`, `skipped`,
"in flight" (the lane is busy) or by throwing, each with what the loop of the batch does.
`enabled` is `setHeartbeatsEnabled`. Left out: the prompt and the delivery of a heartbeat,
several agents with heartbeats, a change of the configuration while a runner
runs.

### ChannelManager

One account. State: the maps of tasks and abort controllers, every task that is
alive (`running`, in its backoff, restarting), manual stop, attempts, the
`running` flag of the snapshot, whether the account is enabled and configured, and what each caller (a
request, the reload, the health monitor) awaits. `startChannel` may find the account disabled
before its await, and `isConfigured` may say yes, no or reject, for a caller and for an
automatic restart alike. `tangled` records that two
operations on the account overlapped, or one overlapped with an automatic
restart: `startChannel` and `stopChannel` have no lock, and what they
guarantee they guarantee without such an overlap. `halted` records why the mark of
`manuallyStopped` stays: a user's stop, or a stop of the monitor or of the reload that ended
without its start. The monitor's cooldown and its limit per hour,
logging out and the contents of snapshots are left out.

### NodeCalls

A command runs on a node in three stages: `exec` registers an approval and waits,
`node.invoke` checks the approval record again and forwards the command, the
node registry sends it on the current connection and waits for the answer. State: the
stage of every call, its record (which stays for a grace period after the
decision), what the waiting call was told, the flag it passes on, the
connections of the node (open, lost without notice, closed), the session
registered, the connection each pending invoke was sent on, the messages under way
and what the node ran. What the node does with a command is external. Left out: the forwarding of
requests to chats, approvals for the gateway's own host, the binding to a
device, pairing, and the other methods of a node.

### FileLock

State: the lock file with its writer and whether its payload is written yet,
the lock each process has in its map with its count, the callers' steps, and
the locks that the watchdog or a signal is taking back. Every call of the file system is a
step. A file is judged stale from what was read of it, and removed in a later step, by
path. A write may fail, and so may a removal, which a release ignores and an
acquisition does not. Processes crash, and end by a signal that removes what they hold.
A pid stands for one process: it is not used again by a later one.
`suspected` records that a lock was judged stale or taken back, `unremoved` that the
process of the file that is there failed to remove it. Left out: a lock
that does not share (`allowReentrant` false) and the cleaning of a whole directory.

## Runs

All runs pass but `delivery_live`, in which TLC is to find a property violated that
the code's comments state and the code does not have (see PROJECT.json, "findings"). A
property with several parts is the conjunction of the definitions named in parentheses.

| run | question | instance |
|---|---|---|
| `command_lanes` | `BooksExact` (`QueueExact`, `ActiveExact`): do queue and active set say what the promises say? `WorkConserving`: is no wake-up lost? `FairStarts` (`StartsWithinCap`, `NoOvertaking`); `EveryCommandSettles` | 4 commands, 2 lanes, caps 1 and 2, 1 reset |
| `agent_runs` | `LevelsAgree` (`TurnsBelongToRuns`, `BothLevelsBusy`), `OneRunPerGeneration`, `EveryRunSettles`, `ImplementsSessionLine` | 3 runs (two of one session in different global lanes), caps 1 and 2, 1 reset |
| `gateway_restart` | `ServerStands` (`OneServer`, `ServingWhenIdle`), `SignalsBalanced`, `DrainBeforeClose` (does a server close before the tasks of its drain have ended, other than past the deadline?), `RequestsHappen` (a stop exits, a restart serves again, an accepted or waiting request happens) | 3 requests of every kind, SIGTERM at any time, 2 tasks, 4 iterations |
| `delivery_queue` | `NothingLost`, `RetriesCounted` (`GivenUpOnlyAfterRetries`, `CountIsExact`), `NoGratuitousResend`, `ImplementsOutbox` | 1 delivery of 2 payloads, strict, best effort or with `onError`, 2 recoveries, 2 retries, 2 faults |
| `delivery_live` | `EntrySettles`: is every entry settled? No: TLC finds one put off for ever | 1 delivery of 1 payload, the source's backoffs, budget and retries in units of 5 s, no faults |
| `followup_queue` | `Accounted` (`QueuesSound`, `NothingElseLost`, `AnsweredOnce`): which messages can be lost, is any answered twice? `QueueDrains` (`DrainEnds`, `QueueEmpties`) | 3 messages, 2 routes, 4 arrivals, cap 2, 2 queue objects, 1 failing run, 4 sets of settings |
| `cluster_leader` | `LeadersCorrected` (`KnowsWhoLeads`, `CutOffYields`): is whoever is wrong about the leader, leads without a renewal interval or is cut off corrected within a period? `LeaderAgain` | 2 nodes, expiry 3, 2 commands in flight, 1 fault |
| `cron` | `MarkersHold` (`NoOverlap`, `MarkerIsOwned`), `WakesInTime`, `DueJobsKept`, `DueJobsRun` | 2 jobs (`cron`, and any that a user adds), 2 services, 1 operation, 1 incident (crash, reload or failing save), 3 instants |
| `heartbeat_wake` | `WakesKept` (`NothingForgotten`, `OneBatchPerRunner`), `RequestsStand` (`CooldownKept`, `NotDowngraded`), `BeatsGoOn` (`WakesTaken`, `Beats`) | 2 runners, 2 targets, 2 batches at once, a targeted and a general request |
| `channels` | `EntriesSound` (`EntriesLive`), `Tracked`, `StopHeld` (`StopHolds`, `RunningIsTrue`), `AlwaysBack` (`ComesBack`, `OperationsEnd`) | 2 tasks alive at once, a user, the reload, the monitor, 1 automatic restart, with and without `stopAccount` |
| `node_calls` | `ApprovedRuns`, `RecordsSound` (`RecordAgrees`), `NoWaitForClosed`, `DecisionFinal`, `NothingHangs` (`CallsEnd`, `RecordsGo`) | a command that asks and one that does not, 3 connections, every `askFallback` |
| `file_lock` | `Exclusive`, `LocksAccounted` (`CountIsHolders`, `NoOrphan`), `DeadLockGoes` | 2 processes, 3 callers (two of one process), 4 locks referred to at once |

Why the bounds are enough. Lanes: with 4 commands a lane can be full, waiting
and cleared while another runs, a cap can drop below the number of active
tasks, and a task of the old generation can end after the reset among new ones;
a second reset repeats the first with a larger number. Agent runs: three is the
least number that has both a second run in the session and a rival in the global
lane. Restart: three requests are one that is accepted, one that is ignored
because of it and one that comes in the iteration after. Delivery: two payloads
make a delivery partial, two retries are one that is counted and one that gives
up, two recoveries overlap; `delivery_live` needs one delivery and the numbers of the source. Followup: cap 2 with three messages overflows while
one is being answered; the second queue object is the one made after a clear.
Cluster: a leader and a rival, both of which come and go; the fault hits one of
them, by symmetry always the same. Cron: two jobs are one in execution and one that waits for
the only worker or falls due meanwhile; three instants let the recurring job of period two
run, and a one-shot be due and past due; an incident and an operation fall
between any two steps. Heartbeats: two runners are the one stopped and the one started;
with two targets one wake is being handled while another waits, is coalesced
or preempted. Channels: with one restart allowed both the counted restart and the
giving up happen; a third task alive would need a third overlap. Node calls: three
connections are an old one, its replacement, and a wake after both. File lock:
two callers share a lock and one of another process competes; four locks are one
per caller and the one of a dead process.
Counters that grow without limit in the code (requests, iterations, resets,
failures, faults, arrivals, operations, time) are bounded by constants in the
guards, each declared with its module. Where a token is reused (tasks of
`ChannelManager`, locks of `FileLock`, batches of `HeartbeatWake`) the bound
is on how many are alive at once, not on how many there are over time.

`CHECK_DEADLOCK FALSE` stands where the system really may stop: the loop has
exited, every run or call has ended, all processes are dead, or nothing more
comes within the bound.

### Fairness

- lanes, agent runs: a task that runs ends (agent turns have a timeout). Nothing
  is assumed of callers.
- restart: `start()` settles, timers fire, pollers poll, drain and close end by
  themselves or by their timeouts. Nothing is assumed of signals and requests.
- delivery: every await is answered, the gateway is started when it is down;
  strong fairness of `Stop` says that it is stopped again and again when idle, as only
  a start runs a recovery. No run assumes that a send succeeds.
- followup: the debounce ends, runs end, and runs of the session return
  (heartbeats included), as each return schedules the drain.
- cluster: Redis executes and expires, timers fire, time passes.
- cron: time passes, timers fire, the queue behind the lock moves, executions
  end (a job has a timeout). Nothing is assumed of operations or reloads.
- heartbeats: time passes, timers fire, a call of the handler is answered. Not
  that it ever finds the lane free.
- channels: `stopAccount` and a plugin that was told to stop settle, `isConfigured` answers
  a caller that asks it again and again (strong fairness: it may reject, not for ever), backoffs end, the monitor checks an account that does not run.
- node calls: timers fire and what waits for a promise goes on; nothing is assumed of the
  node, of connections or of whoever decides.
- file lock: a process that lives goes on with its file system calls, holders
  release; nothing is assumed of the watchdog or of when a lock looks stale.

## Theorems

Proved with TLAPS, for every value of the constants that satisfies the named
`ASSUME`s of the modules. TLC evaluates these assumptions on every run.

`CommandLanesProofs` (`BooksExact`, `WorkConserving`, `FairStarts`). The inductive
invariant is `TypeOK` with, per lane, that the
queue holds the waiting commands without repetition, that the active set holds
the running tasks of the current generation and is finite, that no task comes
from a later generation, and that a lane with waiting entries is busy. The
last needs the others: that a pump stops only when it is full or the queue is
empty follows from counting slots, which takes a finite active set and a queue
without repetition (`PumpedQueue`, `PumpedCount`, `PumpedLane`). One lemma per
action then shows that it hands the pump a lane in good order. `NoOvertaking`
needs two facts more: an operation hands the pump its queues with the order kept
(`OrderKept`), and the pump starts a prefix (`PumpedOrder`), so what it starts was
ahead of what it leaves.

`AgentRunsProofs` (`LevelsAgree`, `OneRunPerGeneration`,
`ImplementsSessionLine`). The lemmas about one lane and its pump come from
`CommandLanesProofs` (`INSTANCE`, as `AgentRuns` does with `CommandLanes`); what is
new is what holds between the levels: how far a run is in its session lane
determines how far its turn can be (`Coupled`), session lanes have one slot
(`Single`) and one running task per generation (`OneEach`). `DrainReady` says that the
double pump takes whatever is ready to a state where all of it holds, and what it
starts; each action then shows that it is ready. For the refinement, a pump does
not change the line of a session (`PumpedLine`), since what it starts moves from the
front of the queue into the empty slot; a start appends to the line, the end of a
run takes its head, an interrupt leaves the head alone, and a turn that begins is
the head of its line (`TurnsMove`).

`GatewayRestartProofs` (`ServerStands`, `SignalsBalanced`, `DrainBeforeClose`).
The parts of `ServerStands` are not inductive. The strengthening says that the
state of the loop determines the server and the
resolver, that a shutdown waits only for tasks that existed, and that timers
and pollers together are no more than the requests made. `DrainBeforeClose` is a property of
steps: a shutdown for a restart does not leave its phase with tasks of `owed` still running,
unless its deadline has passed or `start()` failed; the invariant it needs relates `owed` to what the
shutdown waits for.

`DeliveryQueueProofs` (`NothingLost`, `RetriesCounted`, `NoGratuitousResend`, `ImplementsOutbox`). An entry leaves the disk by an
acknowledgement or a move to `failed/`, so the invariant says of every call in
progress what it knows (`Fine`): whose entry it has, that under strict
delivery everything before its position was sent, and that it acknowledges only
past the last payload, for an aborted delivery or for one whose failure was taken for an abort. Recoveries hold entries that were
written (`TodoKnown`), a crash forgets calls but not what was sent. The counts
rest on two more invariants. `Tally` holds whatever overlaps: each call that is to
count a failure (`Owing`) is backed by a failed attempt that no `retryCount`, read,
written or listed, contains yet, so that no entry reaches `MaxRetries` too early.
`Undisturbed` holds of a delivery until a fault or an overlap: one call or one list
has it (`Alone`), an entry that nobody has is `Ready`, and each call knows what it has
sent and what it will count (`Underway`). That a list names an entry once
needs that no delivery is written twice (`Untouched`). The refinement adds one
invariant: an entry that a failure is being counted for has not gone, unless a
fault or an overlap disturbed it (`Held`), so that a rewrite brings an entry back only
with cause. Every other step is an outbox step by the parts of the invariants it
preserves: a removal is a `Close` because the payloads before the call's position were
sent, a move is a `GiveUpOn` because of `Tally`, a send is allowed because
`Undisturbed` still holds after it.

`FollowupQueueProofs` (`Accounted`). That no message is answered more often than it
was accepted is shown by counting (`Claimed`): its answers and what it may still
be answered for are no more than its acceptances. A claim is a place in a queue
object or in the prompt of the object's run, and a second one if the message
was accepted again and stands behind the items that this run takes away. Enqueueing
adds a claim, a turn that ends turns one into an answer, a drop removes one.
`NothingElseLost` holds as long as nothing risky has happened (`Careful`): the
object that is drained is the one the key names (`Ours`), and a run takes away
just what is in its prompt (`Taken`), since the items in front of the position it
removes are those it began with. An object not yet made is as `Init` left it
(`Unmade`). The lemmas say what dropping, appending and the overflow do to a
sequence, to the set of its elements and to its order.

`CronServiceProofs` (`MarkersHold`, `WakesInTime`, `DueJobsKept`). The invariant
follows a service through its life (`Lifecycle`), its tick (`EntriesSound`), its requests
for the lock (`QueueSound`) and the execution inside it (`HolderSound`), and the
marker of a job from the tick that set it to the copy in memory and to the disk
(`MemoryMarked`, `DiskMarked`), and back: no marker without an execution that
will lift it (`MarkersUsed`). `WakesInTime` needs two facts about data: an enabled job
has a next run (`NextKnown`), and the timer is armed for the least of them, which
exists because the sets of instants below a bound are finite (`LeastExists`).
Memory and disk agree on the next run of a job without marker (`Agree`), so a
reload does not move it. `DueJobsKept` is then shown per operation: each
recomputes at most the jobs that are not past due or are exempted by name. Of the schedules the
proofs assume no more than a period of at least one and one step of backoff.

`GatewayServicesProofs`, first part, channels (`EntriesSound`, `Tracked`,
`StopHeld`). `ChannelInv` has two halves: types and the maps hold whatever overlaps
(`Sound`); the order (`Orderly`) only until operations overlap: at most one
operation or restart at a time, everything alive is in the maps and aborted if
stopped by hand (`LiveTracked`), and a stop that waits knows whom it waits for
(`CallsKnow`).

Second part, heartbeat wakes (`WakesKept`, `RequestsStand`). `NothingForgotten` is
inductive with `Registration` (batches are of runners that were registered);
`OneBatchPerRunner` needs `RunningMarked`: during a batch of the handler
`flushing` is set, unless the batch of another runner has reset it. `RequestsStand`
is shown step by step (`StandsTimer`, `StandsReason`); only the registration of a
handler needs the invariant, to be one that changes the handler.

Third part, commands on nodes (`ApprovedRuns`, `RecordsSound`, `NoWaitForClosed`,
`DecisionFinal`). The approval is carried from the record to what the call was
told, to its flag, to the message on the wire and to the run; `NodeInv` has one
conjunct for each link (`RecordAgrees`, `FlagAgrees`, `GoingOn`, `SentApproved`).

`LocksProofs`, first part, the session file (`Exclusive`, `LocksAccounted`).
`Trusted`: until a lock is suspected, whoever has a lock has the lock whose file
is on disk. It needs that a lock belongs to one process (`OneProcess`) and that
one being created or closed is nobody else's (`Alone`); the count of holders is a
cardinality, kept by what leaves a lock and its sharers alone (`CountKept`).

Second part, the leader key (`LeadersCorrected`), for any number of nodes, of
faults and of commands in flight. A bound on a count of periods is not inductive: what has to
be known is why the period cannot end a second time. While a node is mistaken, the key is held,
by it throughout or by others throughout, so no `SET NX` of it succeeds, and
the answers on their way to it are those the mistake implies (`WillLearn`); until the
period ends, its heartbeat is still to fire or in flight (`Beating`), and no
period ends before it is answered, which corrects the node. For a leader without a renewal interval
the `GET` of the heartbeat finds its own id and makes the renewal interval
(`WillArm`). A leader that is cut off has a renewal that is due or in flight and
cannot be answered (`WillYield`). Each count is 0, or 1 with these facts
(`WrongOnce`, `DisarmedOnce`, `CutOnce`).

Every invariant and every safety property over steps that a run checks is proved,
for `SessionLine` and `Outbox` the refinement as well. Only model-checked is liveness, in
every module: the prover has no rules for fairness and ENABLED.

## What the models showed

Reading and modelling showed the following; no run is spent on them, and the
properties say in their definitions what they exempt.

Lanes and runs
- After a reset with turns still running, a second run of the same session may
  execute (`command-queue.ts` 211); the write lock of the session file stands
  between them. `OneRunPerGeneration` is what remains of "only one active run per
  session" (`docs/concepts/queue.md` 20).

Restart
- A SIGTERM during a restart's shutdown is ignored like any other signal
  (`run-loop.ts` 40-44).
- Two requests may cause two restarts, as a poller outlives the restart another
  one causes (`restart.ts` 97-100, 189-239).
- A SIGUSR1 accepted while an in-process restart is still starting is lost: it
  resolves the promise of the iteration before (`run-loop.ts` 104).

Delivery
- With the source's constants an entry that failed twice waits two minutes,
  longer than the minute a recovery may take, so it and every younger entry are put off at every start
  (`delivery-queue.ts` 259-264) and the five retries are never used up. The run
  `delivery_live` has TLC find this.
- The time limit of a Signal send throws an `AbortError` of its own
  (`signal/client.ts` 63-71, `utils/fetch-timeout.ts` 30-33). `deliver.ts` 274 takes it for
  an abort by its caller and acknowledges the entry, so that a strict delivery that was not
  sent is not retried. `NothingLost` and `Outbox` exempt such a delivery by name.
- An entry that was acknowledged, aborted or moved can be written again: a
  recovery that overlaps read it before it went and writes its count after
  (`delivery-queue.ts` 128-140). `Outbox` allows this (`Return`) after a fault or an overlap only.
- A recovery replays a best-effort delivery without the `onError` that its
  caller gave, so a payload that fails again is swallowed and the entry
  acknowledged (`delivery-queue.ts` 272-280, `deliver.ts` 247-250).

Followup queue
- The summary of dropped messages takes the turn and the place of the next
  message, which is then in no prompt (`drain.ts` 115).
- After a change of mode the drain starts over and over without injecting the
  summary (`drain.ts` 141); with cap 1 it can restart itself without a run.
  `QueueDrains` is stated for cap 2 and settings that stay.
- A cap that is lowered leaves the lines of the summary as they are until the next drop
  (`queue-helpers.ts` 103-106), so that only their number, not the cap, bounds them (`QueuesSound`).
- A drain that ends after a clear deletes the key although it names a newer
  queue (`drain.ts` 139); `NothingElseLost` sets these behaviours apart.

Cluster
- Each heartbeat makes the renewal interval anew (`cluster/index.ts` 181), so the
  interval of a healthy leader may be put off by every heartbeat, never fire, and the lock
  expire and pass to another node, although `README.md` 1015 has it renewed in every
  interval and the comment at `cluster/index.ts` 12 says the same. The model contains these
  behaviours. `LeadersCorrected` does not say that a leader renews: it says that one without an
  interval gets one, and that the change of leader which follows the expiry is noticed, both
  within a period.
- A node that has lost the lock without noticing deletes the next holder's lock
  when it leaves (227-228), and a renewal between whose GET
  and SET the lock changed hands overwrites it (185-189). Both heal within a
  heartbeat, which is what `KnowsWhoLeads` says.
- A node whose heartbeat finds another holder clears its renewal interval; if its last
  `SET XX` was in flight, the answer makes it a leader without one (189-194). If its
  connection is lost then, nothing makes it yield, although the comment at 198 has a node that
  cannot renew yield "to prevent split-brain". It takes two faults to get there; the proof of `CutOffYields` failed at this step, and the property now
  says that the leader has its interval.

Cron
- A one-shot that was interrupted by a crash is run again by the first tick
  after the restart; one whose last run was ok and that was given a new time never
  runs; one given a new time while it runs is disabled or deleted by the
  result (`timer.ts`, `applyJobResult`).
- A job that was removed or disabled while it waited for a worker still runs.
- A service that was stopped arms its timer again when its tick ends, and ticks on.
- A job that timed out is recorded as failed while its execution goes on
  (`timer.ts` 275); disabling and enabling a job during its run clears its
  marker, so that a forced run overlaps (`NoOverlap` excuses it).
- Two services of a process: the result of the old one's tick is overwritten
  from the memory of the new one, whose start has cleared the marker (`ops.ts` 40-49).
  `DueJobsKept` and `MarkerIsOwned` are claimed for the first service.
- A job that is disabled and enabled under its execution has its marker lifted; if the
  save of the tick's results then fails, a later operation saves the memory, with the next run
  moved on. `DueJobsKept` exempts such a job (`excused`).
- Adding a job and `run` recompute everything, and move another job that is due
  past the run it has not had (`ops.ts` 95-100, 210).
- A marker left behind on a past-due job makes the timer fire at zero delay
  until the marker is two hours old.

Heartbeats
- A wake that found the lane busy is tried again, but by then the run has moved
  the due time on, so the second try of an interval wake does nothing (`heartbeat-runner.ts` 1145-1148).
- Enabling heartbeats again sets no timer (`heartbeat-runner.ts` 1070,
  `gateway/server-methods/system.ts` 27); `Beats` exempts a paused runner.
- The batch of a stopped runner drops its remaining wakes as disabled, and its
  end resets `running` under the new handler (`heartbeat-wake.ts` 177).

Channels
- Two overlapping starts open two connections, the first of them untracked; a
  stop during the `isConfigured` of an automatic restart is lost if the plugin has no
  `stopAccount`; the end of a stop may remove the entries of a newer task;
  the start of the monitor or of a reload clears a manual stop made while it was stopping.
- `manuallyStopped` is set by every stop (`server-channels.ts` 295), also by that of the
  monitor and of a reload. If their `stopAccount` or `isConfigured` then rejects, or the account is
  found disabled or not configured, nothing clears the mark: the monitor passes the account
  over (`channel-health-monitor.ts` 94-143) and it stays down until somebody starts it.
  `ComesBack` exempts these accounts by name (`halted`).
- A rejected `isConfigured` of an automatic restart is caught with the comment "next crash
  will retry" (`server-channels.ts` 249), but no task is left to crash: it is the monitor that
  starts the account again.

Nodes
- The close of an old connection removes the session of the newer one, and its pending calls are
  rejected as disconnected (`node-registry.ts` 87).
- With `askFallback` "full" a command nobody decided on in time is still refused by
  `node.invoke` when its record has expired (`node-invoke-system-run-approval.ts` 182-189).
- `exec` gives `node.invoke` no timeout, so the registry gives up after 30 s
  whatever the command's own timeout.

File lock
- A lock file is empty between its creation and the write of its payload, and
  an empty file is judged stale, so that another caller may remove it, even one of the same
  process. Between reading a stale file and removing it, somebody else may have replaced it
  (`session-write-lock.ts` 438). `Exclusive` is claimed until a lock is suspected, and so does
  not speak of these two races.
- A removal that fails is ignored after the map entry has gone (145-149, 173-178): the file
  stays with the pid of a live process and keeps everybody out, that process included, until
  it is half an hour old. `NoOrphan` exempts this file by name and says that a file is left
  in no other way.
- With a pid that is used again (a container whose gateway is always pid 1) the file of the
  dead process looks alive: callers wait for it to be too old. This is outside the model.

## Not modelled

- Reply dispatcher, embedded run registry and the decision of `get-reply-run`
  between steering, queueing and running; subagent registry and announce queue
  (the latter shares `queue-helpers.ts` with the followup queue); other file
  locks, whose protocol is that of `FileLock` with fewer cases; session store;
  inbound debounce; process supervisor; pairing; audit sinks and rate limiter.
  These have state of their own and could be modelled in the same way; the
  modules here are those whose failure is silent and lasting.
- The macOS daemon, a variant of the run loop.
- Channels and extensions, agent runner internals, the prompt pipeline,
  configuration, command line, apps, memory, media, browser, plugins, packaging:
  adapters to external services, data transformation, user interface. They make
  up most of the repository's lines, and little in them is a question of order.

The reasons stand with each component in `PROJECT.json`.
