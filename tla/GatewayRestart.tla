--------------------------- MODULE GatewayRestart ---------------------------
(***************************************************************************)
(* The gateway's run loop (src/cli/gateway-cli/run-loop.ts) together with  *)
(* the restart scheduling of src/infra/restart.ts, the config reload path  *)
(* of src/gateway/server-reload-handlers.ts, and what both use of the      *)
(* command queue: waitForActiveTasks and resetAllLanes.                    *)
(*                                                                         *)
(* Restarts are requested by RPC or tool (scheduleGatewaySigusr1Restart, a *)
(* timer, then a poller that waits for idleness), by a config change       *)
(* (requestGatewayRestart, a poller of its own) or by an external SIGUSR1. *)
(* With the run loop's listener installed, process.emit runs onSigusr1     *)
(* inside emitGatewayRestart: emission and handling are one step.          *)
(*                                                                         *)
(* Clocks are abstracted: a timer may fire at any time once set, the       *)
(* deadline of a drain may pass at any time while it lasts, and the        *)
(* force-exit timer of a restart, set 5 s later, may fire at any time once *)
(* it has.  The cooldown and an earlier due time only move the timer, and  *)
(* the expiry of an authorization cannot pass between emission and         *)
(* handling.  `await' of a server that is null does not let another event  *)
(* in.                                                                     *)
(***************************************************************************)
EXTENDS Integers, FiniteSets

CONSTANTS
    Tasks,           \* embedded agent runs, each in a lane of the command queue
    ExternalAllowed, \* commands.restart: SIGUSR1 from outside is accepted
    RespawnModes,    \* outcomes of restartGatewayProcessWithFreshPid
    MaxRequests,     \* bound on restart requests, external signals included
    MaxIterations    \* bound on the iterations of the run loop

ASSUME RespawnAssumption == RespawnModes \subseteq {"exits", "inProcess"}
ASSUME PolicyAssumption == ExternalAllowed \in BOOLEAN
ASSUME BoundsAssumption == MaxRequests \in Nat /\ MaxIterations \in Nat \ {0}

VARIABLES
    loop,          \* "starting": in params.start(); "up": awaiting restartResolver
    iteration,     \* number of the loop's current iteration
    server,        \* is the variable `server' set
    live,          \* number of servers started and not closed
    resolver,      \* restartResolver: "none", "fresh", or "used" once resolved
    shutdown,      \* the request in progress (shuttingDown and its async body)
    active,        \* tasks in some lane's activeTaskIds
    stale,         \* tasks of an earlier generation that still run
    done,          \* tasks that ended
    sig,           \* authorizations and cycle tokens of restart.ts
    timer,         \* is pendingRestartTimer set
    pollers,       \* number of scheduled restarts waiting for idleness
    configPollers, \* iterations whose reload handler has restartPending set
    requests,      \* number of restart requests so far (history)
    seen,          \* that number when the current iteration began (history)
    promised,      \* last iteration whose server was up when a SIGUSR1 was accepted (history)
    owed           \* tasks active when the last restart was accepted (history)

loopVars == <<loop, iteration, server, live, resolver, shutdown, active, stale, seen>>
signalVars == <<sig, timer, pollers, configPollers, promised, owed>>
vars == <<loopVars, done, signalVars, requests>>

NoShutdown == [phase |-> "none", kind |-> "none", waitFor |-> {}, expired |-> FALSE]

\* getTotalQueueSize() + getTotalPendingReplies() + getActiveEmbeddedRunCount()
Pending == Cardinality(active \cup stale)

Unconsumed(s) == s.emitted > s.consumed

Init ==
    /\ loop = "starting" /\ iteration = 1
    /\ server = FALSE /\ live = 0 /\ resolver = "none"
    /\ shutdown = NoShutdown
    /\ active = {} /\ stale = {} /\ done = {}
    /\ sig = [authorized |-> 0, emitted |-> 0, consumed |-> 0]
    /\ timer = FALSE /\ pollers = 0 /\ configPollers = {}
    /\ requests = 0 /\ seen = 0 /\ promised = 0 /\ owed = {}

-----------------------------------------------------------------------------
(* The body of request().                                                  *)

Exit ==
    /\ loop' = "exited" /\ server' = FALSE /\ live' = 0 /\ shutdown' = NoShutdown
    /\ active' = {} /\ stale' = {}
    /\ UNCHANGED <<iteration, resolver, seen>>

LiveAfterClose == IF server THEN live - 1 ELSE live

(* A fresh resolver wakes the loop, which resets the lanes and calls       *)
(* start() again; one that was already used is called to no effect.        *)
InProcessRestart ==
    /\ server' = FALSE /\ shutdown' = NoShutdown /\ live' = LiveAfterClose
    /\ IF resolver = "fresh"
         THEN /\ iteration < MaxIterations
              /\ loop' = "starting" /\ iteration' = iteration + 1
              /\ resolver' = "used"
              /\ stale' = stale \cup active /\ active' = {}
              /\ seen' = requests
         ELSE UNCHANGED <<loop, iteration, resolver, active, stale, seen>>

(* The finally block.                                                      *)
Finally(kind) ==
    \/ (kind = "stop" \/ "exits" \in RespawnModes) /\ Exit
    \/ (kind = "restart" /\ "inProcess" \in RespawnModes) /\ InProcessRestart

EnterPhase(phase, kind, waitFor, expired) ==
    /\ shutdown' = [phase |-> phase, kind |-> kind,
                    waitFor |-> waitFor, expired |-> expired]
    /\ UNCHANGED <<loop, iteration, server, live, resolver, active, stale, seen>>

(* server?.close() *)
Close(kind, waitFor, expired) ==
    IF server THEN EnterPhase("closing", kind, waitFor, expired) ELSE Finally(kind)

(* [mutant] no shuttingDown guard *)
RequestReentrant(kind) ==
    IF kind = "restart" /\ active # {}
      THEN EnterPhase("draining", kind, active, FALSE)
      ELSE Close(kind, {}, FALSE)

Request(kind) ==
    IF shutdown.phase # "none" THEN UNCHANGED loopVars
    ELSE IF kind = "restart" /\ active # {}
           THEN EnterPhase("draining", kind, active, FALSE)
           ELSE Close(kind, {}, FALSE)

-----------------------------------------------------------------------------
(* Emitting SIGUSR1 and handling it.                                       *)

Authorize(s) == [s EXCEPT !.authorized = @ + 1]
ConsumeAuthorization(s) == [s EXCEPT !.authorized = @ - 1]

(* [mutant] the cycle is never marked consumed *)
ForgetHandled(s) == s

MarkHandled(s) == IF Unconsumed(s) THEN [s EXCEPT !.consumed = s.emitted] ELSE s

(* onSigusr1, with authorizations and tokens s *)
OnSigusr1(s) ==
    IF s.authorized > 0 \/ ExternalAllowed
      THEN /\ sig' = MarkHandled(IF s.authorized > 0 THEN ConsumeAuthorization(s) ELSE s)
           /\ promised' = IF loop = "up" THEN iteration ELSE promised
           /\ owed' = IF shutdown.phase = "none" THEN active ELSE owed
           /\ Request("restart")
      ELSE sig' = s /\ UNCHANGED <<promised, owed, loopVars>>

EmitGatewayRestart ==
    /\ timer' = FALSE
    /\ IF Unconsumed(sig)
         THEN UNCHANGED <<sig, promised, owed, loopVars>>
         ELSE OnSigusr1(Authorize([sig EXCEPT !.emitted = @ + 1]))

-----------------------------------------------------------------------------
(* Requests.                                                               *)

CountRequest == requests < MaxRequests /\ requests' = requests + 1

Running == live > 0 /\ loop # "exited"

(* scheduleGatewaySigusr1Restart: a request joins an emission in flight or *)
(* the timer already set                                                   *)
Schedule ==
    /\ Running /\ CountRequest
    /\ timer' = (timer \/ ~Unconsumed(sig))
    /\ UNCHANGED <<loopVars, done, sig, pollers, configPollers, promised, owed>>

(* The timer's callback, deferGatewayRestartUntilIdle included.            *)
TimerFires ==
    /\ timer /\ loop # "exited"
    /\ IF Pending = 0
         THEN EmitGatewayRestart /\ UNCHANGED pollers
         ELSE /\ timer' = FALSE /\ pollers' = pollers + 1
              /\ UNCHANGED <<sig, promised, owed, loopVars>>
    /\ UNCHANGED <<done, configPollers, requests>>

(* A poll that finds the process idle, or that finds its wait too long     *)
PollEmits ==
    /\ pollers > 0 /\ loop # "exited"
    /\ pollers' = pollers - 1
    /\ EmitGatewayRestart
    /\ UNCHANGED <<done, configPollers, requests>>

(* requestGatewayRestart, for a config change seen by the running server   *)
ConfigChange ==
    /\ Running /\ loop = "up" /\ CountRequest
    /\ IF Pending = 0
         THEN EmitGatewayRestart /\ UNCHANGED configPollers
         ELSE /\ configPollers' = configPollers \cup {iteration}
              /\ UNCHANGED <<sig, timer, promised, owed, loopVars>>
    /\ UNCHANGED <<done, pollers>>

ConfigPollEmits ==
    /\ loop # "exited"
    /\ \E i \in configPollers : configPollers' = configPollers \ {i}
    /\ EmitGatewayRestart
    /\ UNCHANGED <<done, pollers, requests>>

ExternalSigusr1 ==
    /\ loop # "exited" /\ CountRequest
    /\ OnSigusr1(sig)
    /\ UNCHANGED <<done, timer, pollers, configPollers>>

(* SIGTERM or SIGINT *)
Sigterm ==
    /\ loop # "exited"
    /\ Request("stop")
    /\ UNCHANGED <<done, signalVars, requests>>

-----------------------------------------------------------------------------
(* The loop, the shutdown in progress, and the tasks.                      *)

(* [mutant] the promise is created once, before the loop *)
StartDoneKeepsResolver ==
    /\ loop = "starting"
    /\ loop' = "up" /\ server' = TRUE /\ live' = live + 1
    /\ resolver' = IF resolver = "none" THEN "fresh" ELSE resolver
    /\ UNCHANGED <<iteration, shutdown, active, stale, seen, done, signalVars,
                   requests>>

StartDone ==
    /\ loop = "starting"
    /\ loop' = "up" /\ server' = TRUE /\ live' = live + 1 /\ resolver' = "fresh"
    /\ UNCHANGED <<iteration, shutdown, active, stale, seen, done, signalVars,
                   requests>>

(* start() throws: the loop's finally block releases the lock              *)
StartFails ==
    /\ loop = "starting"
    /\ Exit
    /\ UNCHANGED <<done, signalVars, requests>>

(* [mutant] the drain ends with the first of the tasks it waits for *)
NoneEndedYet == shutdown.waitFor \subseteq active

(* Some task that was active when the drain began is active still.         *)
HasPending == shutdown.waitFor \cap active # {}

(* The clock passes the deadline of the drain.                             *)
DeadlinePasses ==
    /\ shutdown.phase = "draining" /\ ~shutdown.expired
    /\ shutdown' = [shutdown EXCEPT !.expired = TRUE]
    /\ UNCHANGED <<loop, iteration, server, live, resolver, active, stale, seen,
                   done, signalVars, requests>>

(* The poll of waitForActiveTasks that resolves; one that finds a task     *)
(* pending before the deadline changes nothing.                            *)
DrainEnds ==
    /\ shutdown.phase = "draining"
    /\ ~HasPending \/ shutdown.expired
    /\ Close(shutdown.kind, shutdown.waitFor, shutdown.expired)
    /\ UNCHANGED <<done, signalVars, requests>>

(* close() resolves or throws: the finally block runs either way           *)
CloseEnds ==
    /\ shutdown.phase = "closing"
    /\ Finally(shutdown.kind)
    /\ UNCHANGED <<done, signalVars, requests>>

(* The force-exit timer: for a restart it is set after the drain deadline. *)
ForceExit ==
    /\ shutdown.phase # "none"
    /\ shutdown.phase = "draining" => shutdown.expired
    /\ Exit
    /\ UNCHANGED <<done, signalVars, requests>>

(* an inbound message, or an entry preserved in its lane by resetAllLanes *)
TaskStarts(t) ==
    /\ loop # "exited"
    /\ live > 0 \/ iteration > 1
    /\ t \notin active \cup stale \cup done
    /\ active' = active \cup {t}
    /\ UNCHANGED <<loop, iteration, server, live, resolver, shutdown, stale, seen,
                   done, signalVars, requests>>

TaskEnds(t) ==
    /\ t \in active \cup stale
    /\ active' = active \ {t} /\ stale' = stale \ {t} /\ done' = done \cup {t}
    /\ UNCHANGED <<loop, iteration, server, live, resolver, shutdown, seen,
                   signalVars, requests>>

Next ==
    \/ Schedule \/ TimerFires \/ PollEmits
    \/ ConfigChange \/ ConfigPollEmits
    \/ ExternalSigusr1 \/ Sigterm
    \/ StartDone \/ StartFails
    \/ DeadlinePasses \/ DrainEnds \/ CloseEnds \/ ForceExit
    \/ \E t \in Tasks : TaskStarts(t) \/ TaskEnds(t)

(* start() settles; the drain's deadline passes and its poll comes; the    *)
(* close settles or the force-exit timer fires; timers and intervals fire. *)
Fairness ==
    /\ WF_vars(StartDone \/ StartFails)
    /\ WF_vars(DeadlinePasses) /\ WF_vars(DrainEnds) /\ WF_vars(CloseEnds \/ ForceExit)
    /\ WF_vars(TimerFires) /\ WF_vars(PollEmits) /\ WF_vars(ConfigPollEmits)

Spec == Init /\ [][Next]_vars /\ Fairness

-----------------------------------------------------------------------------
(* Properties.                                                             *)
TypeOK ==
    /\ loop \in {"starting", "up", "exited"}
    /\ iteration \in 1 .. MaxIterations
    /\ server \in BOOLEAN /\ live \in Nat
    /\ resolver \in {"none", "fresh", "used"}
    /\ shutdown \in [phase : {"none", "draining", "closing"},
                     kind : {"none", "stop", "restart"},
                     waitFor : SUBSET Tasks, expired : BOOLEAN]
    /\ sig \in [authorized : Nat, emitted : Nat, consumed : Nat]
    /\ timer \in BOOLEAN /\ pollers \in 0 .. MaxRequests
    /\ configPollers \subseteq 1 .. MaxIterations
    /\ active \subseteq Tasks /\ stale \subseteq Tasks /\ done \subseteq Tasks
    /\ requests \in 0 .. MaxRequests /\ seen \in 0 .. requests
    /\ promised \in 0 .. MaxIterations /\ owed \subseteq Tasks

(* Within the run loop the duplicate guard of emitGatewayRestart never     *)
(* stays armed: after every event the emitted cycle is consumed and its    *)
(* authorization spent, so no later restart is swallowed by it and no      *)
(* external SIGUSR1 rides on an authorization left over                    *)
(* (restart.ts 103-125, 155-176).                                          *)
SignalsBalanced == sig.emitted = sig.consumed /\ sig.authorized = 0

(* At most one server is alive, and the loop holds on to it: no restart    *)
(* starts a second server over one that was never closed, whatever signals *)
(* arrive while the first starts or stops (run-loop.ts 76-111, 153-159).   *)
OneServer == live <= 1 /\ (server <=> live = 1)

(* When no shutdown is in progress a loop that is not starting has its     *)
(* server and a resolver the next restart can use: the gateway never hangs *)
(* awaiting a promise nobody can resolve (run-loop.ts 82-105, 155-158).    *)
ServingWhenIdle ==
    loop = "up" /\ shutdown.phase = "none" => server /\ resolver = "fresh"

(* A restart that was accepted stays in its phase, and so neither goes on  *)
(* from its drain to the close nor from the close to an exit or the next   *)
(* iteration, while any task that was active at its acceptance is active   *)
(* still, unless the deadline of the drain has passed: whatever other      *)
(* tasks start and end, other signals arrive and other servers come up     *)
(* meanwhile (run-loop.ts 58-79, command-queue.ts 243-286).  A start()     *)
(* that fails ends the process whatever is active (run-loop.ts 155-163).   *)
DrainStep ==
    shutdown.kind = "restart" /\ owed \cap active # {} /\ shutdown'.phase # shutdown.phase
        => shutdown.expired \/ (loop = "starting" /\ loop' = "exited")

DrainBeforeClose == [][DrainStep]_vars

(* A stop that was accepted is never turned into a restart.                *)
AcceptedStopExits == shutdown.kind = "stop" ~> loop = "exited"

(* A restart accepted while serving ends with a server again, or with the  *)
(* process gone (replaced or forced): it never leaves the gateway down.    *)
RestartServesAgain ==
    (shutdown.kind = "restart" /\ loop = "up")
        ~> (server /\ shutdown.phase = "none") \/ loop = "exited"

(* A restart requested since the last start and waiting for its timer or   *)
(* for idleness does happen, even if its signal is ignored because another *)
(* shutdown is in progress (restart.ts 189-239, 361-436).                  *)
RequestedRestartHappens ==
    (requests > seen /\ (timer \/ pollers > 0 \/ iteration \in configPollers))
        ~> loop \in {"starting", "exited"}

(* A SIGUSR1 accepted once the server is up ends the iteration: the        *)
(* request is not lost to a shutdown in progress or to a resolver already  *)
(* used (run-loop.ts 40-110, 122-133).  One accepted while an in-process   *)
(* restart is still starting is: it resolves the promise of the iteration  *)
(* before (run-loop.ts 104).                                               *)
AcceptedRestartHappens ==
    \A i \in 1 .. MaxIterations :
        promised = i ~> iteration > i \/ loop = "exited"

(* There is one server or none, the loop knows it, and between two         *)
(* shutdowns it stands and can be restarted, whatever signals arrive while *)
(* one starts or stops (run-loop.ts 76-111, 153-159).                      *)
ServerStands == TypeOK /\ OneServer /\ ServingWhenIdle

(* A stop and a restart, once accepted or waiting, happen, and a restart   *)
(* brings a server back (run-loop.ts 40-111, restart.ts 189-239).          *)
RequestsHappen == AcceptedStopExits /\ RestartServesAgain
                      /\ RequestedRestartHappens /\ AcceptedRestartHappens

=============================================================================
