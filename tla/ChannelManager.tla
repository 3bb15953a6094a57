--------------------------- MODULE ChannelManager ---------------------------
(***************************************************************************)
(* One account of one channel in src/gateway/server-channels.ts: its task  *)
(* (the plugin's startAccount promise and what follows it), the maps that  *)
(* name the current task and its abort controller, automatic restarts      *)
(* after a crash, and the callers that start and stop it at the same time: *)
(* requests, the reload of the configuration and the health monitor of     *)
(* src/gateway/channel-health-monitor.ts.                                  *)
(*                                                                         *)
(* Every await is a step: isConfigured, the plugin's stopAccount, the end  *)
(* of a task, the backoff.  Reactions of one promise that follow each      *)
(* other without an external event are one step.  Accounts do not share    *)
(* state, so one is modelled.                                              *)
(***************************************************************************)
EXTENDS Naturals, FiniteSets

CONSTANTS
    Tasks,         \* bound: tasks that are live at once: 1 .. n
    Users,         \* callers of channel requests
    Monitor,       \* the health monitor, a caller
    Reload,        \* the reload handler, a caller
    MaxRestarts,   \* MAX_RESTART_ATTEMPTS
    Hooks,         \* whether the plugin defines stopAccount: the cases
    NoTask

ASSUME CallerAssumption == Monitor \notin Users /\ Reload \notin Users /\ Monitor # Reload
ASSUME RestartAssumption == MaxRestarts \in Nat
ASSUME HookAssumption == Hooks \subseteq BOOLEAN
ASSUME TaskAssumption == Tasks \subseteq Nat /\ NoTask \notin Tasks

Callers == Users \cup {Monitor, Reload}

VARIABLES
    hasStopHook,  \* the plugin defines stopAccount
    tasks,        \* store.tasks of the account
    aborts,       \* store.aborts of the account, named by its task
    task,         \* task[i]: its phase and whether its signal is aborted
    manual,       \* manuallyStopped has the account
    attempts,     \* restartAttempts of the account
    running,      \* the runtime snapshot: there is a connection,
    configured,   \* the account is enabled and configured
    call,         \* call[c]: what a caller awaits
    joined,       \* joined[c]: the task that a stop of c awaits
    tangled,      \* observation: operations overlapped, and it shows
    halted        \* observation: why manual stays, beyond a restart in progress

store == <<tasks, aborts>>
status == <<running, configured>>
channelVars == <<hasStopHook, tasks, aborts, task, manual, attempts, running, configured,
                 call, joined, tangled, halted>>

Off == [phase |-> "off", aborted |-> FALSE]
Live(i) == task[i].phase # "off"
Connected == {i \in Tasks : task[i].phase = "running"}

Free(i) ==
    LET free(j) == ~Live(j) /\ \A c \in Callers : joined[c] # j
    IN  free(i) /\ \A j \in Tasks : free(j) => i <= j

-----------------------------------------------------------------------------
(* The store.                                                              *)

(* [mutant] a task that ends leaves its entries *)
WithoutNothing(entry, i) == entry

(* The last finally of a task removes only its own entries. *)
Without(entry, i) == IF entry = i THEN NoTask ELSE entry

Settle(i) ==
    /\ task' = [task EXCEPT ![i] = Off]
    /\ tasks' = Without(tasks, i) /\ aborts' = Without(aborts, i)

(* [mutant] the controller of the new task is not stored *)
LaunchUntracked(i, ended) ==
    /\ Free(i)
    /\ task' = [j \in Tasks |->
                  IF j = i THEN [phase |-> "running", aborted |-> FALSE]
                  ELSE IF j \in ended THEN Off ELSE task[j]]
    /\ tasks' = i /\ aborts' = aborts
    /\ running' = TRUE /\ configured' = TRUE

(* startAccount is called; the tasks in ended end with the same step. *)
Launch(i, ended) ==
    /\ Free(i)
    /\ task' = [j \in Tasks |->
                  IF j = i THEN [phase |-> "running", aborted |-> FALSE]
                  ELSE IF j \in ended THEN Off ELSE task[j]]
    /\ tasks' = i /\ aborts' = i
    /\ running' = TRUE /\ configured' = TRUE

-----------------------------------------------------------------------------
(* startChannel.                                                           *)

Disabled == running' = FALSE /\ configured' = FALSE

(* The check of the task and of the account, up to the await of            *)
(* isConfigured; connected is what the snapshot says by then.              *)
Enter(c, connected) ==
    \/ /\ tasks' = NoTask
       /\ call' = [call EXCEPT ![c] = "configuring"]
       /\ running' = connected /\ UNCHANGED configured
    \/ /\ call' = [call EXCEPT ![c] = "idle"]
       /\ IF tasks' = NoTask THEN Disabled ELSE running' = connected /\ UNCHANGED configured

BeginStart(c) ==
    /\ c \in Users /\ call[c] = "idle" /\ tasks = NoTask
    /\ UNCHANGED <<store, task, manual, attempts, joined>>
    /\ Enter(c, running)

Configured(c) ==
    /\ call[c] = "configuring"
    /\ \E i \in Tasks : Launch(i, {})
    /\ manual' = FALSE /\ attempts' = 0
    /\ call' = [call EXCEPT ![c] = "idle"]
    /\ UNCHANGED joined

Unconfigured(c) ==
    /\ call[c] = "configuring"
    /\ Disabled
    /\ call' = [call EXCEPT ![c] = "idle"]
    /\ UNCHANGED <<store, task, manual, attempts, joined>>

(* isConfigured rejects, and with it the call. *)
ConfigureRejects(c) ==
    /\ call[c] = "configuring"
    /\ call' = [call EXCEPT ![c] = "idle"]
    /\ UNCHANGED <<store, task, manual, attempts, status, joined>>

-----------------------------------------------------------------------------
(* The end of a task, and the automatic restart.                           *)

(* startAccount's promise settles, by itself or because it was aborted.     *)
(* Beyond the attempt that is given up the count makes no difference.       *)
Exits(i) ==
    /\ task[i].phase = "running"
    /\ running' = FALSE
    /\ attempts' = IF manual \/ attempts > MaxRestarts THEN attempts ELSE attempts + 1
    /\ IF manual \/ attempts' > MaxRestarts
       THEN Settle(i)
       ELSE task' = [task EXCEPT ![i].phase = "backoff"] /\ UNCHANGED store
    /\ UNCHANGED <<manual, configured, call, joined>>

(* sleepWithAbort rejects. *)
BackoffAborted(i) ==
    /\ task[i].phase = "backoff" /\ task[i].aborted
    /\ Settle(i)
    /\ UNCHANGED <<manual, attempts, status, call, joined>>

(* [mutant] a stop does not reach a backoff *)
BackoffEndsDeaf(i) ==
    /\ task[i].phase = "backoff"
    /\ tasks' = Without(tasks, i) /\ aborts' = Without(aborts, i)
    /\ task' = [task EXCEPT ![i] = IF tasks' # NoTask THEN Off
                                   ELSE [@ EXCEPT !.phase = "restarting"]]
    /\ UNCHANGED <<manual, attempts, status, call, joined>>

(* The backoff is over: the entries go, and startChannelInternal runs up to *)
(* its await, unless the account is stopped, has a task or is disabled.     *)
BackoffEnds(i) ==
    /\ task[i].phase = "backoff" /\ ~task[i].aborted
    /\ tasks' = Without(tasks, i) /\ aborts' = Without(aborts, i)
    /\ \/ /\ ~manual /\ tasks' = NoTask
          /\ task' = [task EXCEPT ![i].phase = "restarting"]
          /\ UNCHANGED status
       \/ /\ task' = [task EXCEPT ![i] = Off]
          /\ IF manual \/ tasks' # NoTask THEN UNCHANGED status ELSE Disabled
    /\ UNCHANGED <<manual, attempts, call, joined>>

RestartConfigured(i) ==
    /\ task[i].phase = "restarting"
    /\ \E j \in Tasks : Launch(j, {i})
    /\ UNCHANGED <<manual, attempts, call, joined>>

RestartUnconfigured(i) ==
    /\ task[i].phase = "restarting"
    /\ Disabled
    /\ Settle(i)
    /\ UNCHANGED <<manual, attempts, call, joined>>

(* A rejected isConfigured is caught, and nothing retries it. *)
RestartRejected(i) ==
    /\ task[i].phase = "restarting"
    /\ Settle(i)
    /\ UNCHANGED <<manual, attempts, status, call, joined>>

-----------------------------------------------------------------------------
(* stopChannel.                                                            *)

Reaches == aborts # NoTask \/ tasks # NoTask \/ hasStopHook

(* To the first await: the mark, the abort, the task to wait for. *)
Halt(c) ==
    /\ call[c] = "idle" /\ Reaches
    /\ manual' = TRUE
    /\ task' = IF aborts = NoTask THEN task ELSE [task EXCEPT ![aborts].aborted = TRUE]
    /\ call' = [call EXCEPT ![c] = IF hasStopHook THEN "hook" ELSE "joining"]
    /\ joined' = [joined EXCEPT ![c] = tasks]
    /\ UNCHANGED <<store, attempts, status>>

BeginStop(c) == c \in Users /\ Halt(c)

(* stopAccount ends, or rejects and with it the caller. *)
HookEnds(c) ==
    /\ call[c] = "hook"
    /\ \/ call' = [call EXCEPT ![c] = "joining"] /\ UNCHANGED joined
       \/ call' = [call EXCEPT ![c] = "idle"] /\ joined' = [joined EXCEPT ![c] = NoTask]
    /\ UNCHANGED <<store, task, manual, attempts, status>>

(* The task has ended: whatever entries there are go.  The monitor and the *)
(* reload go on to startChannel, which finds no task.                      *)
Joined(c) ==
    /\ call[c] = "joining"
    /\ joined[c] \notin {i \in Tasks : Live(i)}
    /\ tasks' = NoTask /\ aborts' = NoTask
    /\ attempts' = IF c = Monitor THEN 0 ELSE attempts
    /\ IF c \in Users
       THEN running' = FALSE /\ call' = [call EXCEPT ![c] = "idle"] /\ UNCHANGED configured
       ELSE Enter(c, FALSE)
    /\ joined' = [joined EXCEPT ![c] = NoTask]
    /\ UNCHANGED <<task, manual>>

-----------------------------------------------------------------------------
(* The callers that stop and start.                                        *)

(* [mutant] the monitor leaves an account to its own restarts *)
CheckStuck ==
    /\ call[Monitor] = "idle" /\ configured /\ ~manual
    /\ \/ running /\ Halt(Monitor)
       \/ /\ ~running /\ attempts = 0
          /\ UNCHANGED <<store, task, manual, attempts, joined>>
          /\ Enter(Monitor, running)

(* runCheck: an account that is not running is started, one that runs     *)
(* without being connected is stopped first.                               *)
Check ==
    /\ call[Monitor] = "idle" /\ configured /\ ~manual
    /\ \/ running /\ Halt(Monitor)
       \/ /\ ~running
          /\ attempts' = 0
          /\ UNCHANGED <<store, task, manual, joined>>
          /\ Enter(Monitor, running)

(* The reload of the configuration restarts the channel. *)
BeginReload ==
    /\ call[Reload] = "idle"
    /\ \/ Halt(Reload)
       \/ /\ ~Reaches
          /\ UNCHANGED <<store, task, manual, attempts, joined>>
          /\ Enter(Reload, running)

-----------------------------------------------------------------------------
ChannelInit ==
    /\ hasStopHook \in Hooks
    /\ tasks = NoTask /\ aborts = NoTask
    /\ task = [i \in Tasks |-> Off]
    /\ manual = FALSE /\ attempts = 0
    /\ running = FALSE /\ configured = TRUE
    /\ call = [c \in Callers |-> "idle"] /\ joined = [c \in Callers |-> NoTask]
    /\ tangled = FALSE /\ halted = "no"

InCall == {c \in Callers : call[c] # "idle"}
Restarting == {i \in Tasks : task[i].phase = "restarting"}

(* What a sequence of operations leaves, one at a time. *)
Tidy ==
    /\ \A i \in Tasks : Live(i) => tasks = i /\ aborts = i /\ (manual => task[i].aborted)
    /\ running => Connected # {}

StopBegins(c) == call[c] = "idle" /\ call'[c] \in {"hook", "joining"}
CallEnds(c) == call[c] # "idle" /\ call'[c] = "idle"

(* [observation] A call that begins while another or an automatic restart  *)
(* is in progress tangles them until their effects are gone.  The mark of  *)
(* manuallyStopped is a user's, or what is left of a stop of the monitor   *)
(* or of the reload whose start never came.                                *)
Observe ==
    /\ tangled' = \/ InCall' \ InCall # {} /\ InCall \cup Restarting # {}
                  \/ tangled /\ ~(InCall' \cup Restarting' = {} /\ Tidy')
    /\ halted' = IF ~manual' THEN "no"
                 ELSE IF \E c \in Users : StopBegins(c) THEN "user"
                 ELSE IF halted = "no" /\ (CallEnds(Monitor) \/ CallEnds(Reload))
                      THEN "unfinished"
                 ELSE halted
    /\ UNCHANGED hasStopHook

Step ==
    \/ \E c \in Callers :
          \/ BeginStart(c) \/ Configured(c) \/ Unconfigured(c) \/ ConfigureRejects(c)
          \/ BeginStop(c) \/ HookEnds(c) \/ Joined(c)
    \/ \E i \in Tasks :
          \/ Exits(i) \/ BackoffAborted(i) \/ BackoffEnds(i)
          \/ RestartConfigured(i) \/ RestartUnconfigured(i) \/ RestartRejected(i)
    \/ Check \/ BeginReload

ChannelNext == Step /\ Observe

(* Awaited calls end, plugins end when they are aborted, isConfigured does *)
(* not reject for ever, and the health monitor goes on to check.           *)
Ends(i) == task[i].aborted /\ Exits(i)
Restarts(i) == RestartConfigured(i) \/ RestartUnconfigured(i) \/ RestartRejected(i)

ChannelFairness ==
    /\ \A c \in Callers : SF_channelVars((Configured(c) \/ Unconfigured(c)) /\ Observe)
    /\ \A c \in Callers : WF_channelVars(HookEnds(c) /\ Observe)
    /\ \A c \in Callers : WF_channelVars(Joined(c) /\ Observe)
    /\ \A i \in Tasks :
          /\ WF_channelVars(Ends(i) /\ Observe)
          /\ WF_channelVars((BackoffAborted(i) \/ BackoffEnds(i)) /\ Observe)
          /\ WF_channelVars(Restarts(i) /\ Observe)
    /\ WF_channelVars(~running /\ Check /\ Observe)

ChannelSpec == ChannelInit /\ [][ChannelNext]_channelVars /\ ChannelFairness

-----------------------------------------------------------------------------
(* Properties.                                                             *)

(* The state of the account, of its tasks and of the callers. *)
ChannelTypeOK ==
    /\ tasks \in Tasks \cup {NoTask} /\ aborts \in Tasks \cup {NoTask}
    /\ task \in [Tasks -> [phase : {"off", "running", "backoff", "restarting"},
                           aborted : BOOLEAN]]
    /\ manual \in BOOLEAN /\ attempts \in 0 .. MaxRestarts + 1
    /\ running \in BOOLEAN /\ configured \in BOOLEAN
    /\ call \in [Callers -> {"idle", "configuring", "hook", "joining"}]
    /\ joined \in [Callers -> Tasks \cup {NoTask}]
    /\ tangled \in BOOLEAN /\ hasStopHook \in BOOLEAN
    /\ halted \in {"no", "user", "unfinished"}

(* An entry of the task map names a task that has not ended, whatever      *)
(* starts, stops and crashes overlap: an account whose task is over can be *)
(* started (server-channels.ts 139, 247-253).                              *)
EntriesLive == (tasks # NoTask => Live(tasks)) /\ (aborts # NoTask => Live(aborts))

(* As long as starts, stops and restarts do not overlap, a connection is   *)
(* the only one of its account and the one that a stop would abort; that   *)
(* is, crashes and backoffs alone never leave a second connection.         *)
Tracked == tangled \/ \A i \in Connected : tasks = i /\ aborts = i

(* Nor do they undo a stop: after it no connection is left that was not    *)
(* told to end, and none comes back (manuallyStopped).                     *)
StopHolds ==
    (manual /\ InCall = {}) => (tangled \/ \A i \in Connected : task[i].aborted)

(* A snapshot that says "running" has a connection.                        *)
RunningIsTrue == running => (tangled \/ Connected # {})

(* An account that stays enabled and configured is connected again and     *)
(* again: a crash is followed by a restart, the monitor takes over when    *)
(* the restarts are used up, and its own stop of an account that hangs, or *)
(* the reload's, is followed by a start.  Not so an account that a user    *)
(* stopped, nor one whose stop by the monitor or the reload was never      *)
(* followed by the start (stopAccount or isConfigured rejected, or found   *)
(* the account without configuration): it bears the mark of a stop by      *)
(* hand, and the monitor passes it over until somebody starts it           *)
(* (server-channels.ts 295, channel-health-monitor.ts 94-143).             *)
ComesBack == <>[](configured /\ halted = "no") => []<>(Connected # {})

(* A stop ends, as does every other operation. *)
OperationsEnd == \A c \in Callers : (call[c] # "idle") ~> (call[c] = "idle")

(* The maps of the manager name tasks that live (server-channels.ts 82-99, *)
(* 247-260).                                                               *)
EntriesSound == ChannelTypeOK /\ EntriesLive

(* What the manager says of an account is so: stopped by hand means that   *)
(* no connection goes on, running that there is one.                       *)
StopHeld == StopHolds /\ RunningIsTrue

(* The account comes back and no operation on it hangs.                    *)
AlwaysBack == ComesBack /\ OperationsEnd

=============================================================================
