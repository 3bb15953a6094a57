--------------------------- MODULE HeartbeatWake ---------------------------
(***************************************************************************)
(* The wake queue of src/infra/heartbeat-wake.ts and the heartbeat runner  *)
(* of src/infra/heartbeat-runner.ts that it drives: requests are coalesced *)
(* per target, one timer takes what is pending as a batch and awaits the   *)
(* handler once per wake.  The handler is the runner of the present life   *)
(* of the gateway; a restart within the process stops it and registers the *)
(* next one, while a batch of the old one may be in progress.  The runner  *)
(* requests a wake whenever its agent is due.                              *)
(*                                                                         *)
(* Timers are counted down by Tick.  A batch handles its wakes in any      *)
(* order.  What a heartbeat does is a result that the handler awaits; one  *)
(* agent has heartbeats, and it is the one that targeted wakes name.       *)
(***************************************************************************)
EXTENDS Integers, FiniteSets

CONSTANTS
    Targets,      \* targets of wakes: the pair of agent and session
    All,          \* the target that names neither
    Runners,      \* heartbeat runners, one per life of the gateway: 1 .. n
    Slots,        \* bound: batches in progress at once, of all runners: 1 .. n
    Interval,     \* heartbeat interval of the agent
    Requests,     \* bound: wakes that others request: target, reason and delay
    Paused,       \* bound: runners under which heartbeats are disabled and enabled
    RetryDelay,   \* DEFAULT_RETRY_MS
    Coalesce,     \* DEFAULT_COALESCE_MS
    None

ASSUME TargetAssumption == All \in Targets
ASSUME RunnerAssumption == Runners \subseteq Nat \ {0} /\ 1 \in Runners
ASSUME SlotAssumption == Slots \subseteq Nat
ASSUME RequestAssumption ==
    Requests \subseteq Targets \X {"interval", "default", "action"} \X {0, Coalesce}
ASSUME DelayAssumption ==
    Interval \in Nat \ {0} /\ RetryDelay \in Nat /\ Coalesce \in Nat
ASSUME NoneAssumption ==
    None \notin Nat /\ None \notin {"retry", "interval", "default", "action"}
    /\ None \notin [left : Nat, delay : Nat, kind : {"normal", "retry"}]

VARIABLES
    pending,      \* pendingWakes: the reason by target
    timer,        \* the wake timer: what is left, its delay and its kind
    scheduled,
    flushing,     \* running of heartbeat-wake.ts
    handler,      \* the runner whose handler is registered
    life,         \* life[r]: "new", "on", "stopped"
    batch,        \* batch[b]: a callback of the timer in progress
    due,          \* due[r]: until the agent is due for a heartbeat
    beat,         \* beat[r]: what is left of the runner's own timer
    on,           \* heartbeatsEnabled
    paused,       \* observation: they have been disabled under this runner
    intruded      \* observation: runners under which a batch of another ended

queueVars == <<pending, timer, scheduled, flushing>>
runnerVars == <<handler, life, due, beat, on, paused>>
wakeVars == <<pending, timer, scheduled, flushing, handler, life, batch, due, beat,
              on, paused, intruded>>

Reasons == {"retry", "interval", "default", "action"}
AnyDelay == {0, Coalesce, RetryDelay}
Maybe(S) == S \cup {None}

(* REASON_PRIORITY *)
Priority(reason) ==
    CASE reason = "retry" -> 0 [] reason = "interval" -> 1
      [] reason = "default" -> 2 [] reason = "action" -> 3

\* Calls: how the handler treats a wake, seen when it is called.
Batch == [by : Runners, wakes : [Targets -> Maybe(Reasons)], todo : SUBSET Targets,
          now : Targets, call : {"dropped", "notdue", "attempt"},
          delay : AnyDelay]

ASSUME BatchAssumption == None \notin Batch

NoWakes == [t \in Targets |-> None]
SomePending(wakes) == \E t \in Targets : wakes[t] # None

-----------------------------------------------------------------------------
(* Requests and the timer.                                                 *)

(* queuePendingWakeReason: the higher priority wins, and the newer of two. *)
Coalesced(wakes, t, reason) ==
    IF wakes[t] = None \/ Priority(reason) >= Priority(wakes[t])
    THEN [wakes EXCEPT ![t] = reason] ELSE wakes

NewTimer(delay, kind) == [left |-> delay, delay |-> delay, kind |-> kind]

(* [mutant] a sooner request preempts a retry as well *)
ArmedSooner(tm, delay, kind) ==
    IF tm # None /\ tm.left <= delay THEN tm ELSE NewTimer(delay, kind)

(* schedule: a retry is not preempted, nor a timer that fires sooner. *)
Armed(tm, delay, kind) ==
    IF tm # None /\ (tm.kind = "retry" \/ tm.left <= delay) THEN tm ELSE NewTimer(delay, kind)

(* requestHeartbeatNow *)
Request(t, reason, delay) ==
    /\ pending' = Coalesced(pending, t, reason)
    /\ timer' = Armed(timer, delay, "normal")
    /\ UNCHANGED <<scheduled, flushing, batch, intruded>>

Wake(t, reason, delay) ==
    /\ Request(t, reason, delay)
    /\ UNCHANGED runnerVars

FirstFree(s) == batch[s] = None /\ \A u \in Slots : u < s => batch[u] # None

(* The handler is called with wake t of a batch: a stopped or disabled     *)
(* runner drops it, an interval finds its agent due or not (run).          *)
Called(r, wakes, todo, delay, t) ==
    [by |-> r, wakes |-> wakes, todo |-> todo \ {t}, now |-> t, delay |-> delay,
     call |-> IF life[r] = "stopped" \/ ~on THEN "dropped"
              ELSE IF t = All /\ wakes[t] = "interval" /\ due[r] > 0
              THEN "notdue" ELSE "attempt"]

(* The batch of all pending wakes, and the call for its first one. *)
TakeBatch ==
    /\ \E s \in Slots, t \in Targets :
         /\ FirstFree(s) /\ pending[t] # None
         /\ batch' = [batch EXCEPT ![s] =
               Called(handler, pending, {u \in Targets : pending[u] # None}, timer.delay, t)]
    /\ timer' = None /\ scheduled' = FALSE
    /\ pending' = NoWakes /\ flushing' = TRUE

(* The callback returns without a batch. *)
NothingToTake ==
    timer' = None /\ scheduled' = FALSE /\ UNCHANGED <<pending, flushing, batch>>

(* [mutant] a timer that fires during a batch begins another *)
TimerFiresTwice ==
    /\ timer # None /\ timer.left = 0
    /\ \/ (handler = None \/ ~SomePending(pending)) /\ NothingToTake
       \/ handler # None /\ TakeBatch
    /\ UNCHANGED runnerVars /\ UNCHANGED intruded

(* The callback of the wake timer, to its first await. *)
TimerFires ==
    /\ timer # None /\ timer.left = 0
    /\ \/ handler = None /\ NothingToTake
       \/ /\ handler # None /\ flushing
          /\ timer' = NewTimer(timer.delay, timer.kind) /\ scheduled' = TRUE
          /\ UNCHANGED <<pending, flushing, batch>>
       \/ handler # None /\ ~flushing /\ ~SomePending(pending) /\ NothingToTake
       \/ handler # None /\ ~flushing /\ TakeBatch
    /\ UNCHANGED runnerVars /\ UNCHANGED intruded

-----------------------------------------------------------------------------
(* The results of the handler.                                             *)

Finally(b, queued, tm) ==
    /\ flushing' = FALSE
    /\ pending' = queued
    /\ timer' = IF SomePending(queued) \/ scheduled THEN Armed(tm, b.delay, "normal") ELSE tm
    /\ UNCHANGED scheduled
    /\ intruded' = IF b.by = handler \/ handler = None THEN intruded ELSE intruded \cup {handler}

(* The batch goes on to its next wake or ends, with queued wakes and tm. *)
GoOn(s, queued, tm) ==
    LET b == batch[s] IN
    \/ \E t \in b.todo :
         /\ batch' = [batch EXCEPT ![s] = Called(b.by, b.wakes, b.todo, b.delay, t)]
         /\ pending' = queued /\ timer' = tm
         /\ UNCHANGED <<scheduled, flushing, intruded>>
    \/ /\ b.todo = {}
       /\ batch' = [batch EXCEPT ![s] = None]
       /\ Finally(b, queued, tm)

(* [mutant] only the first start sets the runner's timer *)
ScheduleNextIdle(r, left) == beat' = beat

(* scheduleNext, with the agent due in left *)
ScheduleNext(r, left) == beat' = [beat EXCEPT ![r] = left]

(* run: what it does to the runner before it answers; a stopped one sets no *)
(* timer and does not look at its schedule again.                           *)
RunnerAdvances(b) ==
    \/ (b.call = "dropped" \/ life[b.by] = "stopped") /\ UNCHANGED <<due, beat>>
    \/ b.call = "notdue" /\ life[b.by] = "on" /\ ScheduleNext(b.by, due[b.by]) /\ UNCHANGED due
    \/ /\ b.call = "attempt" /\ life[b.by] = "on"
       /\ \E left \in 0 .. Interval :   \* the interval counts from the call
            due' = [due EXCEPT ![b.by] = left] /\ ScheduleNext(b.by, left)

(* The handler answers "ran", "failed", or "skipped" for a reason of its own. *)
Answered(s) ==
    /\ batch[s] # None
    /\ RunnerAdvances(batch[s])
    /\ GoOn(s, pending, timer)
    /\ UNCHANGED <<handler, life, on, paused>>

(* It answers "requests-in-flight": the wake is queued for a retry. *)
AnsweredBusy(s) ==
    /\ batch[s] # None /\ batch[s].call = "attempt"
    /\ RunnerAdvances(batch[s])
    /\ LET b == batch[s] IN
       GoOn(s, Coalesced(pending, b.now, b.wakes[b.now]), Armed(timer, RetryDelay, "retry"))
    /\ UNCHANGED <<handler, life, on, paused>>

(* It rejects: the whole batch is queued for a retry. *)
Rejected(s) ==
    /\ batch[s] # None /\ batch[s].call = "attempt"
    /\ LET b == batch[s]
           queued == [t \in Targets |-> IF b.wakes[t] = None THEN pending[t]
                                        ELSE Coalesced(pending, t, b.wakes[t])[t]]
       IN  Finally(b, queued, Armed(timer, RetryDelay, "retry"))
    /\ batch' = [batch EXCEPT ![s] = None]
    /\ UNCHANGED runnerVars

-----------------------------------------------------------------------------
(* The runner and its registration.                                        *)

(* startHeartbeatRunner: setHeartbeatWakeHandler and the first scheduleNext. *)
StartRunner(r) ==
    /\ life[r] = "new" /\ \A q \in Runners : q < r => life[q] = "stopped"
    /\ life' = [life EXCEPT ![r] = "on"]
    /\ handler' = r
    /\ timer' = IF SomePending(pending) THEN NewTimer(Coalesce, "normal") ELSE None
    /\ flushing' = FALSE /\ scheduled' = FALSE
    /\ due' = [due EXCEPT ![r] = Interval]
    /\ beat' = [beat EXCEPT ![r] = Interval]
    /\ paused' = ~on
    /\ UNCHANGED <<pending, batch, on, intruded>>

(* The runner's cleanup, with the disposer of its handler. *)
StopRunner(r) ==
    /\ life[r] = "on"
    /\ life' = [life EXCEPT ![r] = "stopped"]
    /\ handler' = IF handler = r THEN None ELSE handler
    /\ beat' = [beat EXCEPT ![r] = None] /\ due' = [due EXCEPT ![r] = 0]
    /\ UNCHANGED <<queueVars, batch, on, paused, intruded>>

(* The runner's own timer. *)
BeatFires(r) ==
    /\ beat[r] # None /\ beat[r] = 0
    /\ beat' = [beat EXCEPT ![r] = None]
    /\ Request(All, "interval", 0)
    /\ UNCHANGED <<handler, life, due, on, paused>>

(* setHeartbeatsEnabled *)
Toggle ==
    /\ handler \in Paused
    /\ on' = ~on /\ paused' = TRUE
    /\ UNCHANGED <<queueVars, handler, life, batch, due, beat, intruded>>

Less(n) == IF n > 0 THEN n - 1 ELSE 0

Tick ==
    /\ timer' = IF timer = None THEN None ELSE [timer EXCEPT !.left = Less(@)]
    /\ due' = [r \in Runners |-> Less(due[r])]
    /\ beat' = [r \in Runners |-> IF beat[r] = None THEN None ELSE Less(beat[r])]
    /\ UNCHANGED <<pending, batch, scheduled, flushing, handler, life, on, paused, intruded>>

-----------------------------------------------------------------------------
WakeInit ==
    /\ pending = NoWakes /\ timer = None /\ scheduled = FALSE /\ flushing = FALSE
    /\ handler = None
    /\ life = [r \in Runners |-> "new"]
    /\ batch = [s \in Slots |-> None]
    /\ due = [r \in Runners |-> 0] /\ beat = [r \in Runners |-> None]
    /\ on = TRUE /\ paused = FALSE /\ intruded = {}

Answer(s) == Answered(s) \/ AnsweredBusy(s) \/ Rejected(s)

WakeNext ==
    \/ \E w \in Requests : Wake(w[1], w[2], w[3])
    \/ TimerFires \/ Toggle \/ Tick
    \/ \E s \in Slots : Answer(s)
    \/ \E r \in Runners : StartRunner(r) \/ StopRunner(r) \/ BeatFires(r)

(* Time passes, timers fire, and the handler that is registered answers;   *)
(* the batch of a runner that was stopped may hang.                        *)
AnswerNow(s) == batch[s] # None /\ batch[s].by = handler /\ Answer(s)

WakeFairness ==
    /\ WF_wakeVars(Tick) /\ WF_wakeVars(TimerFires)
    /\ WF_wakeVars(\E r \in Runners : BeatFires(r))
    /\ \A s \in Slots : WF_wakeVars(AnswerNow(s))

WakeSpec == WakeInit /\ [][WakeNext]_wakeVars /\ WakeFairness

-----------------------------------------------------------------------------
(* Properties.                                                             *)

(* The state of the queue, its batches and the runners. *)
WakeTypeOK ==
    /\ pending \in [Targets -> Maybe(Reasons)]
    /\ timer \in Maybe([left : Nat, delay : AnyDelay, kind : {"normal", "retry"}])
    /\ scheduled \in BOOLEAN /\ flushing \in BOOLEAN
    /\ handler \in Maybe(Runners)
    /\ life \in [Runners -> {"new", "on", "stopped"}]
    /\ batch \in [Slots -> Maybe(Batch)]
    /\ due \in [Runners -> 0 .. Interval] /\ beat \in [Runners -> Maybe(0 .. Interval)]
    /\ on \in BOOLEAN /\ paused \in BOOLEAN /\ intruded \subseteq Runners

(* While a handler is registered, no request is left behind: there is a    *)
(* timer for it, or the batch in progress will set one when it ends, in    *)
(* spite of the flags that a restart resets (heartbeat-wake.ts 110-184).   *)
NothingForgotten ==
    (handler # None /\ SomePending(pending)) =>
        timer # None \/ \E s \in Slots : batch[s] # None /\ batch[s].by = handler

(* A runner handles one batch at a time, unless a batch of the runner      *)
(* before it ended under it and reset `running' (heartbeat-wake.ts 177).   *)
OneBatchPerRunner ==
    \A s, u \in Slots :
        (s # u /\ batch[s] # None /\ batch[u] # None /\ batch[s].by = batch[u].by) =>
            batch[s].by \in intruded

(* Once a retry is set its cooldown is "a hard minimum delay"              *)
(* (heartbeat-wake.ts 113): no request brings it forward, only a new       *)
(* handler clears it.                                                      *)
CooldownKept ==
    [][(timer # None /\ timer.kind = "retry") =>
         \/ timer' = timer \/ timer.left = 0 \/ Tick
         \/ handler' # handler]_wakeVars

(* A wake that waits is not downgraded, neither by later requests nor by   *)
(* what a batch puts back (heartbeat-wake.ts queuePendingWakeReason).      *)
NotDowngraded ==
    [][\A t \in Targets : (pending[t] # None /\ pending'[t] # None) =>
         Priority(pending'[t]) >= Priority(pending[t])]_wakeVars

(* What is pending is taken by a batch, as long as a handler is            *)
(* registered; busy lanes, rejections and requests during a batch only     *)
(* delay it.                                                               *)
WakesTaken ==
    \A t \in Targets :
        (pending[t] # None /\ handler # None) ~> (pending[t] = None \/ handler = None)

(* The runner goes on: an agent that is due is attempted, whatever came    *)
(* of the heartbeat before, as long as heartbeats were never disabled      *)
(* (heartbeat-runner.ts scheduleNext and run).                             *)
Attempted(r) == \E s \in Slots : batch[s] # None /\ batch[s].by = r /\ batch[s].call = "attempt"

Beats ==
    (handler # None /\ due[handler] = 0) ~> (handler = None \/ Attempted(handler) \/ paused)

(* The flags of the wake queue, which restarts and batches reset under     *)
(* each other, neither strand a request nor admit a second batch of a      *)
(* runner (heartbeat-wake.ts 110-216).                                     *)
WakesKept == WakeTypeOK /\ NothingForgotten /\ OneBatchPerRunner

(* What waits stands: neither its cooldown nor its priority yields to a    *)
(* later request (heartbeat-wake.ts 74-127).                               *)
RequestsStand == CooldownKept /\ NotDowngraded

(* The heartbeats go on: a wake that waits is taken by a batch, and an     *)
(* agent that is due is attempted, however busy lanes, rejections and      *)
(* restarts interleave (heartbeat-wake.ts 109-182, heartbeat-runner.ts     *)
(* 987-1163).                                                              *)
BeatsGoOn == WakesTaken /\ Beats

=============================================================================
