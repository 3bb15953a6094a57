------------------------ MODULE GatewayServicesProofs ------------------------
(* Theorems about three services of the gateway process: the channels it    *)
(* runs, the wakes of its heartbeats and the commands it has nodes run.     *)
(* The three have nothing in common but the process.                       *)
EXTENDS ChannelManager, HeartbeatWake, NodeCalls, TLAPS

-----------------------------------------------------------------------------
(* Channels: the maps name live tasks, and as long as operations do not    *)
(* overlap the one connection is tracked and a stop holds, for any number  *)
(* of callers and tasks and any number of restart attempts.                *)

Phase == {"off", "running", "backoff", "restarting"}
Stopping(c) == call[c] \in {"hook", "joining"}

(* At most one operation at a time, none during an automatic restart.      *)
OneAtATime ==
    /\ \A c, d \in InCall : c = d
    /\ \A i, j \in Restarting : i = j
    /\ InCall # {} => Restarting = {}

(* What lives is in the maps and aborted if stopped, but for the restart   *)
(* that has left them.                                                     *)
LiveTracked ==
    \A i \in Tasks : Live(i) =>
        IF task[i].phase = "restarting" THEN tasks = NoTask /\ aborts = NoTask /\ ~manual
        ELSE tasks = i /\ aborts = i /\ (manual => task[i].aborted)

(* A stop waits for what lives, and a start finds nothing alive.           *)
CallsKnow ==
    \A c \in Callers :
        /\ Stopping(c) => manual /\ \A i \in Tasks : Live(i) => task[i].aborted /\ joined[c] = i
        /\ call[c] = "configuring" => \A i \in Tasks : ~Live(i)

Orderly ==
    /\ OneAtATime /\ LiveTracked /\ CallsKnow
    /\ running => Connected # {}

ChannelInv == ChannelTypeOK /\ EntriesLive /\ (tangled \/ Orderly)

-----------------------------------------------------------------------------
(* Types and the maps, whatever overlaps.                                  *)
Sound == ChannelTypeOK /\ EntriesLive

(* What Observe leaves to a step.                                          *)
Seen ==
    tangled' \in BOOLEAN /\ halted' \in {"no", "user", "unfinished"} /\ UNCHANGED hasStopHook

LEMMA ZeroAttempts == 0 \in 0 .. MaxRestarts + 1
  BY RestartAssumption

LEMMA ObserveSeen == ChannelTypeOK /\ Observe => Seen
  BY DEF Observe, Seen, ChannelTypeOK

LEMMA LaunchSound ==
  ASSUME Sound, NEW i \in Tasks, NEW ended \in SUBSET Tasks, Launch(i, ended)
  PROVE  /\ task' \in [Tasks -> [phase : Phase, aborted : BOOLEAN]]
         /\ tasks' = i /\ aborts' = i /\ Live(i)'
         /\ running' \in BOOLEAN /\ configured' \in BOOLEAN
  BY DEF Launch, Sound, ChannelTypeOK, Live, Off, Phase

LEMMA SettleSound ==
  ASSUME Sound, NEW i \in Tasks, Settle(i)
  PROVE  /\ task' \in [Tasks -> [phase : Phase, aborted : BOOLEAN]]
         /\ tasks' \in Tasks \cup {NoTask} /\ aborts' \in Tasks \cup {NoTask}
         /\ EntriesLive'
  BY DEF Settle, Sound, ChannelTypeOK, EntriesLive, Live, Off, Phase, Without

LEMMA StartSound ==
  ASSUME Sound, Seen, NEW c \in Callers,
         BeginStart(c) \/ Configured(c) \/ Unconfigured(c) \/ ConfigureRejects(c)
  PROVE  Sound'
  <1>1. CASE BeginStart(c)
    BY <1>1 DEF BeginStart, Enter, Disabled, store, Seen, Sound, ChannelTypeOK, EntriesLive, Live
  <1>2. CASE Configured(c)
    <2>1. PICK i \in Tasks : Launch(i, {})
      BY <1>2 DEF Configured
    <2> QED BY <1>2, <2>1, ZeroAttempts, LaunchSound DEF Configured, Seen, Sound, ChannelTypeOK,
               EntriesLive, Phase
  <1>3. CASE Unconfigured(c)
    BY <1>3 DEF Unconfigured, Disabled, store, Seen, Sound, ChannelTypeOK, EntriesLive, Live
  <1>4. CASE ConfigureRejects(c)
    BY <1>4 DEF ConfigureRejects, store, status, Seen, Sound, ChannelTypeOK, EntriesLive, Live
  <1> QED BY <1>1, <1>2, <1>3, <1>4

LEMMA TaskSound ==
  ASSUME Sound, Seen, NEW i \in Tasks,
         \/ Exits(i) \/ BackoffAborted(i) \/ BackoffEnds(i)
         \/ RestartConfigured(i) \/ RestartUnconfigured(i) \/ RestartRejected(i)
  PROVE  Sound'
  <1>1. CASE Exits(i)
    <2>1. attempts' \in 0 .. MaxRestarts + 1
      BY <1>1, RestartAssumption DEF Exits, Sound, ChannelTypeOK
    <2>2. CASE Settle(i)
      BY <1>1, <2>1, <2>2, SettleSound DEF Exits, Seen, Sound, ChannelTypeOK, Phase
    <2>3. CASE task' = [task EXCEPT ![i].phase = "backoff"] /\ UNCHANGED store
      BY <1>1, <2>1, <2>3 DEF Exits, store, Seen, Sound, ChannelTypeOK, EntriesLive, Live
    <2> QED BY <1>1, <2>2, <2>3 DEF Exits
  <1>2. CASE BackoffAborted(i)
    BY <1>2, SettleSound DEF BackoffAborted, status, Seen, Sound, ChannelTypeOK, Phase
  <1>3. CASE BackoffEnds(i)
    <2>1. running' \in BOOLEAN /\ configured' \in BOOLEAN
      BY <1>3 DEF BackoffEnds, Disabled, status, Sound, ChannelTypeOK
    <2>2. task' \in [Tasks -> [phase : Phase, aborted : BOOLEAN]]
      <3>1. CASE task' = [task EXCEPT ![i].phase = "restarting"]
        BY <3>1 DEF Phase, Sound, ChannelTypeOK
      <3>2. CASE task' = [task EXCEPT ![i] = Off]
        BY <3>2 DEF Phase, Off, Sound, ChannelTypeOK
      <3> QED BY <1>3, <3>1, <3>2 DEF BackoffEnds
    <2>3. /\ tasks' \in {NoTask, tasks} \ {i} /\ aborts' \in {NoTask, aborts} \ {i}
          /\ \A j \in Tasks : j # i => task'[j] = task[j]
      BY <1>3, TaskAssumption DEF BackoffEnds, Without, Sound, ChannelTypeOK
    <2>4. EntriesLive'
      BY <2>3 DEF Sound, ChannelTypeOK, EntriesLive, Live
    <2>5. UNCHANGED <<manual, attempts, call, joined>>
      BY <1>3 DEF BackoffEnds
    <2> QED BY <2>1, <2>2, <2>3, <2>4, <2>5 DEF Seen, Sound, ChannelTypeOK, Phase
  <1>4. CASE RestartConfigured(i)
    <2>1. PICK j \in Tasks : Launch(j, {i})
      BY <1>4 DEF RestartConfigured
    <2> QED BY <1>4, <2>1, LaunchSound DEF RestartConfigured, Seen, Sound, ChannelTypeOK,
               EntriesLive, Phase
  <1>5. CASE RestartUnconfigured(i)
    BY <1>5, SettleSound DEF RestartUnconfigured, Disabled, Seen, Sound, ChannelTypeOK, Phase
  <1>6. CASE RestartRejected(i)
    BY <1>6, SettleSound DEF RestartRejected, status, Seen, Sound, ChannelTypeOK, Phase
  <1> QED BY <1>1, <1>2, <1>3, <1>4, <1>5, <1>6

LEMMA HaltSound ==
  ASSUME Sound, Seen, NEW c \in Callers, Halt(c)
  PROVE  Sound'
  BY DEF Halt, store, status, Seen, Sound, ChannelTypeOK, EntriesLive, Live

LEMMA StopSound ==
  ASSUME Sound, Seen, NEW c \in Callers, BeginStop(c) \/ HookEnds(c) \/ Joined(c)
  PROVE  Sound'
  <1>1. CASE BeginStop(c)
    BY <1>1, HaltSound DEF BeginStop
  <1>2. CASE HookEnds(c)
    BY <1>2 DEF HookEnds, store, status, Seen, Sound, ChannelTypeOK, EntriesLive, Live
  <1>3. CASE Joined(c)
    BY <1>3, ZeroAttempts DEF Joined, Enter, Disabled, Seen, Sound, ChannelTypeOK, EntriesLive, Live
  <1> QED BY <1>1, <1>2, <1>3

LEMMA CheckSound ==
  ASSUME Sound, Seen, Check \/ BeginReload
  PROVE  Sound'
  <1>1. Monitor \in Callers /\ Reload \in Callers
    BY DEF Callers
  <1>2. CASE Halt(Monitor) \/ Halt(Reload)
    BY <1>1, <1>2, HaltSound
  <1>3. CASE Check /\ ~Halt(Monitor)
    BY <1>1, <1>3, ZeroAttempts
    DEF Check, Enter, Disabled, store, Seen, Sound, ChannelTypeOK, EntriesLive, Live
  <1>4. CASE BeginReload /\ ~Halt(Reload)
    BY <1>1, <1>4 DEF BeginReload, Enter, Disabled, store, Seen, Sound, ChannelTypeOK,
       EntriesLive, Live
  <1> QED BY <1>2, <1>3, <1>4

LEMMA StepSound == ASSUME Sound, Seen, Step PROVE Sound'
  BY StartSound, TaskSound, StopSound, CheckSound DEF Step

-----------------------------------------------------------------------------
(* Operations that do not overlap keep the account in order.               *)

(* A step that starts no operation beside another.                         *)
Alone == InCall' \subseteq InCall \/ (InCall = {} /\ Restarting = {})

LEMMA CallStays ==
  ASSUME ChannelTypeOK, NEW c \in Callers, c \in InCall, Orderly,
         \A d \in Callers : d # c => call'[d] = call[d]
  PROVE  InCall' \subseteq {c} /\ InCall = {c} /\ Restarting = {}
  BY DEF Orderly, OneAtATime, InCall

LEMMA CallBegins ==
  ASSUME ChannelTypeOK, NEW c \in Callers, call[c] = "idle", call'[c] # "idle", Alone,
         \A d \in Callers : d # c => call'[d] = call[d]
  PROVE  InCall' = {c} /\ InCall = {} /\ Restarting = {}
  BY DEF InCall, Alone

(* startAccount for a task that was free, when nothing else lives.         *)
LEMMA LaunchOrderly ==
  ASSUME Sound, Orderly, NEW i \in Tasks, NEW ended \in SUBSET Tasks, Launch(i, ended),
         \A j \in Tasks : Live(j) => j \in ended,
         manual' = FALSE, InCall' = {}
  PROVE  Orderly'
  <1>1. /\ task'[i] = [phase |-> "running", aborted |-> FALSE]
        /\ \A j \in Tasks : j # i => task'[j].phase = "off"
    BY DEF Launch, Live, Off, Sound, ChannelTypeOK
  <1>2. Restarting' = {} /\ i \in Connected'
    BY <1>1 DEF Restarting, Connected
  <1>3. LiveTracked'
    BY <1>1 DEF Launch, LiveTracked, Live
  <1>4. CallsKnow'
    BY DEF CallsKnow, InCall, Stopping
  <1> QED BY <1>2, <1>3, <1>4 DEF Orderly, OneAtATime

(* A start up to the await of isConfigured, when no operation is under way.*)
LEMMA EnterOrderly ==
  ASSUME Sound, Orderly, NEW c \in Callers, Alone, call[c] = "idle", Enter(c, running),
         UNCHANGED <<tasks, aborts, task, manual, joined>>
  PROVE  Orderly'
  <1>1. \A d \in Callers : d # c => call'[d] = call[d]
    BY DEF Enter, Sound, ChannelTypeOK
  <1>2. CASE call'[c] = "configuring" /\ tasks = NoTask /\ UNCHANGED running
    <2>1. InCall' = {c} /\ InCall = {} /\ Restarting = {}
      BY <1>1, <1>2, CallBegins DEF Sound
    <2>2. \A i \in Tasks : ~Live(i)
      BY <1>2, <2>1, TaskAssumption DEF Orderly, LiveTracked, Restarting
    <2>3. CallsKnow'
      BY <1>1, <1>2, <2>1, <2>2 DEF CallsKnow, Stopping, InCall, Live
    <2> QED BY <1>2, <2>1, <2>3 DEF Orderly, OneAtATime, LiveTracked, Live, Restarting, Connected
  <1>3. CASE call' = call /\ (running' => running)
    BY <1>3 DEF Orderly, OneAtATime, LiveTracked, CallsKnow, Stopping, InCall, Live,
       Restarting, Connected
  <1> QED BY <1>2, <1>3 DEF Enter, Disabled, Sound, ChannelTypeOK

LEMMA StartOrderly ==
  ASSUME Sound, Orderly, NEW c \in Callers, Alone,
         BeginStart(c) \/ Configured(c) \/ Unconfigured(c) \/ ConfigureRejects(c)
  PROVE  Orderly'
  <1>1. CASE BeginStart(c)
    <2>1. /\ call[c] = "idle" /\ Enter(c, running)
          /\ UNCHANGED <<tasks, aborts, task, manual, joined>>
      BY <1>1 DEF BeginStart, store
    <2> QED BY <2>1, EnterOrderly
  <1>2. CASE Configured(c)
    <2>1. /\ call'[c] = "idle" /\ \A d \in Callers : d # c => call'[d] = call[d]
          /\ c \in InCall
      BY <1>2 DEF Configured, Sound, ChannelTypeOK, InCall
    <2>2. InCall' = {} /\ InCall = {c} /\ Restarting = {}
      BY <2>1, CallStays DEF Sound, InCall
    <2>3. \A i \in Tasks : ~Live(i)
      BY <1>2 DEF Configured, Orderly, CallsKnow
    <2> QED BY <1>2, <2>2, <2>3, LaunchOrderly DEF Configured
  <1>3. CASE Unconfigured(c) \/ ConfigureRejects(c)
    <2>1. /\ call'[c] = "idle" /\ \A d \in Callers : d # c => call'[d] = call[d]
          /\ c \in InCall
          /\ UNCHANGED <<tasks, aborts, task, manual>> /\ (running' => running)
      BY <1>3 DEF Unconfigured, ConfigureRejects, Disabled, store, status, Sound, ChannelTypeOK, InCall
    <2>2. InCall' = {} /\ InCall = {c} /\ Restarting = {}
      BY <2>1, CallStays DEF Sound, InCall
    <2>3. LiveTracked' /\ CallsKnow'
      BY <2>1, <2>2 DEF Orderly, LiveTracked, CallsKnow, Stopping, InCall, Live
    <2>4. Restarting' = {} /\ Connected' = Connected
      BY <2>1, <2>2 DEF Restarting, Connected
    <2> QED BY <2>1, <2>2, <2>3, <2>4 DEF Orderly, OneAtATime
  <1> QED BY <1>1, <1>2, <1>3

(* A task that ends by itself or in a stop.                                *)
LEMMA SettleOrderly ==
  ASSUME Sound, Orderly, NEW i \in Tasks, Live(i), Settle(i), running' = FALSE \/ UNCHANGED running,
         task[i].phase # "running" \/ running' = FALSE,
         UNCHANGED <<manual, call, joined>>
  PROVE  Orderly'
  <1>1. \A j \in Tasks : j # i => task'[j] = task[j] /\ ~Live(j)
    BY TaskAssumption DEF Settle, Orderly, LiveTracked, OneAtATime, Restarting, Sound, ChannelTypeOK
  <1>2. \A j \in Tasks : ~Live(j)'
    BY <1>1 DEF Settle, Live, Off, Sound, ChannelTypeOK
  <1>3. Restarting' = {} /\ InCall' = InCall
    BY <1>2 DEF Restarting, InCall, Live
  <1>4. LiveTracked' /\ CallsKnow'
    BY <1>2 DEF LiveTracked, CallsKnow, Stopping, Orderly
  <1>5. ~running'
    BY <1>1 DEF Orderly, Connected, Live
  <1> QED BY <1>3, <1>4, <1>5 DEF Orderly, OneAtATime

LEMMA TaskOrderly ==
  ASSUME Sound, Orderly, NEW i \in Tasks,
         \/ Exits(i) \/ BackoffAborted(i) \/ BackoffEnds(i)
         \/ RestartConfigured(i) \/ RestartUnconfigured(i) \/ RestartRejected(i)
  PROVE  Orderly'
  <1>1. CASE Exits(i) /\ Settle(i)
    BY <1>1, SettleOrderly DEF Exits, Live
  <1>2. CASE Exits(i) /\ ~Settle(i)
    <2>1. /\ ~manual /\ task' = [task EXCEPT ![i].phase = "backoff"] /\ running' = FALSE
          /\ task[i].phase = "running"
          /\ UNCHANGED <<tasks, aborts, manual, call, joined>>
      BY <1>2 DEF Exits, store
    <2>2. /\ task'[i].phase = "backoff" /\ task'[i].aborted = task[i].aborted
          /\ \A j \in Tasks : j # i => task'[j] = task[j]
      BY <2>1 DEF Sound, ChannelTypeOK
    <2>3. \A j \in Tasks : Live(j)' = Live(j)
      BY <2>1, <2>2 DEF Live
    <2>4. Restarting' = Restarting /\ InCall' = InCall
      BY <2>1, <2>2 DEF Restarting, InCall
    <2>5. LiveTracked'
      BY <2>1, <2>2, <2>3 DEF LiveTracked, Orderly
    <2>6. CallsKnow'
      BY <2>1, <2>2, <2>3 DEF CallsKnow, Stopping, Orderly
    <2> QED BY <2>1, <2>4, <2>5, <2>6 DEF Orderly, OneAtATime
  <1>3. CASE BackoffAborted(i)
    BY <1>3, SettleOrderly DEF BackoffAborted, Live, status
  <1>4. CASE BackoffEnds(i)
    <2>1. /\ Live(i) /\ tasks = i /\ aborts = i /\ ~task[i].aborted /\ ~manual
          /\ task[i].phase = "backoff"
      BY <1>4 DEF BackoffEnds, Orderly, LiveTracked, Live
    <2>2. \A j \in Tasks : j # i => ~Live(j)
      BY <2>1, TaskAssumption DEF Orderly, LiveTracked
    <2>3. InCall = {}
      BY <2>1 DEF Orderly, CallsKnow, Stopping, InCall, Sound, ChannelTypeOK
    <2>4. /\ tasks' = NoTask /\ aborts' = NoTask
          /\ \A j \in Tasks : j # i => task'[j] = task[j]
          /\ task'[i].phase = "restarting" \/ ~Live(i)'
          /\ UNCHANGED <<manual, call, joined>> /\ (running' => running)
      BY <1>4, <2>1 DEF BackoffEnds, Without, Disabled, status, Live, Off, Sound, ChannelTypeOK
    <2>5. Restarting' \subseteq {i} /\ InCall' = {}
      BY <2>2, <2>3, <2>4 DEF Restarting, InCall, Live
    <2>6. LiveTracked' /\ CallsKnow'
      BY <2>1, <2>2, <2>3, <2>4 DEF LiveTracked, CallsKnow, Stopping, InCall, Live
    <2>7. ~running
      BY <2>1, <2>2 DEF Orderly, Connected, Live
    <2> QED BY <2>4, <2>5, <2>6, <2>7 DEF Orderly, OneAtATime
  <1>5. CASE RestartConfigured(i) \/ RestartUnconfigured(i) \/ RestartRejected(i)
    <2>1. Live(i) /\ i \in Restarting /\ ~manual /\ tasks = NoTask
      BY <1>5 DEF RestartConfigured, RestartUnconfigured, RestartRejected, Orderly, LiveTracked,
         Live, Restarting
    <2>2. \A j \in Tasks : Live(j) => j = i
      BY <2>1, TaskAssumption DEF Orderly, LiveTracked, OneAtATime, Restarting
    <2>3. InCall = {}
      BY <2>1 DEF Orderly, OneAtATime
    <2>4. CASE RestartConfigured(i)
      <3>1. PICK j \in Tasks : Launch(j, {i})
        BY <2>4 DEF RestartConfigured
      <3>2. manual' = FALSE /\ InCall' = {}
        BY <2>1, <2>3, <2>4 DEF RestartConfigured, InCall, Sound, ChannelTypeOK
      <3> QED BY <2>2, <3>1, <3>2, LaunchOrderly
    <2>5. CASE RestartUnconfigured(i) \/ RestartRejected(i)
      BY <2>1, <2>5, SettleOrderly DEF RestartUnconfigured, RestartRejected, Disabled, status,
         Restarting
    <2> QED BY <1>5, <2>4, <2>5
  <1> QED BY <1>1, <1>2, <1>3, <1>4, <1>5

LEMMA HaltOrderly ==
  ASSUME Sound, Orderly, NEW c \in Callers, Alone, Halt(c)
  PROVE  Orderly'
  <1>1. /\ call'[c] \in {"hook", "joining"} /\ joined'[c] = tasks
        /\ \A d \in Callers : d # c => call'[d] = call[d]
        /\ call[c] = "idle" /\ manual' = TRUE
        /\ UNCHANGED <<tasks, aborts, running>>
    BY DEF Halt, Sound, ChannelTypeOK, store, status
  <1>2. InCall' = {c} /\ InCall = {} /\ Restarting = {}
    BY <1>1, CallBegins DEF Sound
  <1>3. \A i \in Tasks : Live(i) => tasks = i /\ aborts = i
    BY <1>2 DEF Orderly, LiveTracked, Restarting
  <1>4. \A i \in Tasks : /\ task'[i].phase = task[i].phase
                         /\ Live(i)' = Live(i)
                         /\ Live(i) => task'[i].aborted
    BY <1>3, TaskAssumption DEF Halt, Live, Sound, ChannelTypeOK
  <1>5. LiveTracked'
    BY <1>1, <1>2, <1>3, <1>4 DEF LiveTracked, Restarting
  <1>6. CallsKnow'
    BY <1>1, <1>2, <1>3, <1>4 DEF CallsKnow, Stopping, InCall
  <1>7. Restarting' = {} /\ Connected' = Connected
    BY <1>2, <1>4 DEF Restarting, Connected
  <1> QED BY <1>1, <1>2, <1>5, <1>6, <1>7 DEF Orderly, OneAtATime

LEMMA StopOrderly ==
  ASSUME Sound, Orderly, NEW c \in Callers, Alone, BeginStop(c) \/ HookEnds(c) \/ Joined(c)
  PROVE  Orderly'
  <1>1. CASE BeginStop(c)
    BY <1>1, HaltOrderly DEF BeginStop
  <1>2. CASE HookEnds(c)
    <2>1. /\ \A d \in Callers : d # c => call'[d] = call[d] /\ joined'[d] = joined[d]
          /\ c \in InCall /\ Stopping(c)
          /\ call'[c] = "idle" \/ (call'[c] = "joining" /\ UNCHANGED joined)
          /\ UNCHANGED <<tasks, aborts, task, manual, running>>
      BY <1>2 DEF HookEnds, Sound, ChannelTypeOK, InCall, Stopping, store, status
    <2>2. InCall' \subseteq {c} /\ InCall = {c} /\ Restarting = {}
      BY <2>1, CallStays DEF Sound
    <2>3. CallsKnow'
      BY <2>1, <2>2 DEF Orderly, CallsKnow, Stopping, InCall, Live
    <2> QED BY <2>1, <2>2, <2>3 DEF Orderly, OneAtATime, LiveTracked, Live, Restarting, Connected
  <1>3. CASE Joined(c)
    <2>1. /\ \A d \in Callers : d # c => call'[d] = call[d]
          /\ c \in InCall /\ Stopping(c)
          /\ call'[c] \in {"idle", "configuring"}
          /\ task' = task /\ running' = FALSE
      BY <1>3 DEF Joined, Enter, Disabled, Sound, ChannelTypeOK, InCall, Stopping
    <2>2. InCall' \subseteq {c} /\ Restarting = {}
      BY <2>1, CallStays DEF Sound
    <2>3. \A i \in Tasks : ~Live(i)
      BY <1>3, <2>1 DEF Joined, Orderly, CallsKnow
    <2>4. \A i \in Tasks : ~Live(i)'
      BY <2>1, <2>3 DEF Live
    <2>5. LiveTracked' /\ CallsKnow'
      BY <2>1, <2>2, <2>4 DEF LiveTracked, CallsKnow, Stopping, InCall
    <2>6. Restarting' = {}
      BY <2>1, <2>2 DEF Restarting
    <2> QED BY <2>1, <2>2, <2>5, <2>6 DEF Orderly, OneAtATime
  <1> QED BY <1>1, <1>2, <1>3

LEMMA CheckOrderly ==
  ASSUME Sound, Orderly, Alone, Check \/ BeginReload
  PROVE  Orderly'
  <1>1. Monitor \in Callers /\ Reload \in Callers
    BY DEF Callers
  <1>2. CASE Halt(Monitor) \/ Halt(Reload)
    BY <1>1, <1>2, HaltOrderly
  <1>3. CASE ~Halt(Monitor) /\ ~Halt(Reload)
    <2>1. PICK c \in Callers :
            /\ call[c] = "idle" /\ Enter(c, running)
            /\ UNCHANGED <<tasks, aborts, task, manual, joined>>
      BY <1>1, <1>3 DEF Check, BeginReload, store
    <2> QED BY <2>1, EnterOrderly
  <1> QED BY <1>2, <1>3

LEMMA StepOrderly == ASSUME Sound, Orderly, Alone, Step PROVE Orderly'
  BY StartOrderly, TaskOrderly, StopOrderly, CheckOrderly DEF Step

(* What is left when the effects of an overlap are gone is in order.       *)
LEMMA TidyOrderly == ASSUME ChannelTypeOK, Tidy, InCall \cup Restarting = {} PROVE Orderly
  BY DEF Tidy, ChannelTypeOK, Orderly, OneAtATime, LiveTracked, CallsKnow, Stopping, InCall,
     Restarting

-----------------------------------------------------------------------------
LEMMA ChannelInitInv == ChannelInit => ChannelInv
  <1> SUFFICES ASSUME ChannelInit PROVE ChannelInv
    OBVIOUS
  <1>1. ChannelTypeOK
    BY ZeroAttempts, HookAssumption DEF ChannelInit, ChannelTypeOK, Off
  <1>2. \A i \in Tasks : ~Live(i)
    BY DEF ChannelInit, Live, Off
  <1>3. InCall = {} /\ Restarting = {}
    BY <1>2 DEF ChannelInit, InCall, Restarting, Live
  <1>4. Tidy
    BY <1>2 DEF ChannelInit, Tidy
  <1> QED BY <1>1, <1>3, <1>4, TidyOrderly DEF ChannelInit, ChannelInv, EntriesLive

LEMMA ChannelNextInv == ChannelInv /\ [ChannelNext]_channelVars => ChannelInv'
  <1> SUFFICES ASSUME ChannelInv, [ChannelNext]_channelVars PROVE ChannelInv'
    OBVIOUS
  <1>1. CASE ChannelNext
    <2>1. Sound'
      BY <1>1, ObserveSeen, StepSound DEF ChannelNext, ChannelInv, Sound
    <2>2. CASE tangled'
      BY <2>1, <2>2 DEF ChannelInv, Sound
    <2>3. CASE ~tangled' /\ tangled
      <3>1. Tidy' /\ InCall' \cup Restarting' = {}
        BY <1>1, <2>3 DEF ChannelNext, Observe
      <3>2. (ChannelTypeOK /\ Tidy /\ InCall \cup Restarting = {} => Orderly)'
        BY TidyOrderly, PTL
      <3> QED BY <2>1, <3>1, <3>2 DEF ChannelInv, Sound
    <2>4. CASE ~tangled' /\ ~tangled
      <3>1. Alone
        BY <1>1, <2>4 DEF ChannelNext, Observe, Alone
      <3> QED BY <1>1, <2>1, <2>4, <3>1, StepOrderly DEF ChannelNext, ChannelInv, Sound
    <2> QED BY <2>2, <2>3, <2>4
  <1>2. CASE UNCHANGED channelVars
    BY <1>2 DEF channelVars, ChannelInv, ChannelTypeOK, EntriesLive, Live, Orderly, OneAtATime,
       LiveTracked, CallsKnow,
                Stopping, InCall, Restarting, Connected
  <1> QED BY <1>1, <1>2

(* The inductive invariant holds in every reachable state.                 *)
THEOREM ChannelSpecInv == ChannelSpec => []ChannelInv
  BY ChannelInitInv, ChannelNextInv, PTL DEF ChannelSpec

(* Whatever starts, stops and crashes overlap, the maps name live tasks    *)
(* (server-channels.ts 139, 247-260).                                      *)
THEOREM SpecEntriesSound == ChannelSpec => []EntriesSound
  <1>1. ChannelInv => EntriesSound
    BY DEF ChannelInv, EntriesSound
  <1> QED BY <1>1, ChannelSpecInv, PTL

(* Without overlaps there is one connection, and a stop would abort it.    *)
THEOREM SpecTracked == ChannelSpec => []Tracked
  <1>1. ChannelInv => Tracked
    BY DEF ChannelInv, Orderly, LiveTracked, Tracked, Connected, Live
  <1> QED BY <1>1, ChannelSpecInv, PTL

(* Without overlaps a stop by hand leaves no connection that goes on, and  *)
(* the snapshot says "running" only of an account that has one.            *)
THEOREM SpecStopHeld == ChannelSpec => []StopHeld
  <1>1. ChannelInv => StopHeld
    BY DEF ChannelInv, Orderly, LiveTracked, StopHeld, StopHolds, RunningIsTrue, Connected, Live
  <1> QED BY <1>1, ChannelSpecInv, PTL

-----------------------------------------------------------------------------
(* Heartbeat wakes: no request is left without a timer or a batch that     *)
(* will set one, and the batches of a runner exclude each other, for any   *)
(* number of runners, targets and batches and any delays.                  *)

(* Who is registered is on, and batches are of runners that were.          *)
Registration ==
    /\ handler # None => life[handler] = "on"
    /\ \A s \in Slots : batch[s] # None => life[batch[s].by] # "new"

(* `running' is set during a batch of the handler, unless another runner's *)
(* batch has reset it.                                                     *)
RunningMarked ==
    \A s \in Slots :
        (batch[s] # None /\ batch[s].by = handler /\ handler \notin intruded) => flushing

WakeInv == WakeTypeOK /\ Registration /\ RunningMarked /\ NothingForgotten /\ OneBatchPerRunner

-----------------------------------------------------------------------------
(* The operators.                                                          *)
Timer == [left : Nat, delay : AnyDelay, kind : {"normal", "retry"}]

LEMMA DelayType == AnyDelay \subseteq Nat
  BY DelayAssumption DEF AnyDelay

LEMMA ArmedType ==
  ASSUME NEW tm \in Maybe(Timer), NEW delay \in AnyDelay, NEW kind \in {"normal", "retry"}
  PROVE  Armed(tm, delay, kind) \in Timer /\ Armed(tm, delay, kind) # None
  <1>1. NewTimer(delay, kind) \in Timer
    BY DelayType DEF NewTimer, Timer
  <1>2. Timer \subseteq [left : Nat, delay : Nat, kind : {"normal", "retry"}]
    BY DelayType DEF Timer
  <1> QED BY <1>1, <1>2, NoneAssumption DEF Armed, Maybe

LEMMA CoalescedType ==
  ASSUME NEW wakes \in [Targets -> Maybe(Reasons)], NEW t \in Targets, NEW reason \in Maybe(Reasons)
  PROVE  Coalesced(wakes, t, reason) \in [Targets -> Maybe(Reasons)]
  BY DEF Coalesced

LEMMA CalledType ==
  ASSUME WakeTypeOK, NEW r \in Runners, NEW wakes \in [Targets -> Maybe(Reasons)],
         NEW todo \in SUBSET Targets, NEW delay \in AnyDelay, NEW t \in Targets
  PROVE  /\ Called(r, wakes, todo, delay, t) \in Batch
         /\ Called(r, wakes, todo, delay, t) # None
         /\ Called(r, wakes, todo, delay, t).by = r
  <1>1. Called(r, wakes, todo, delay, t) \in Batch
    BY DEF Called, Batch
  <1> QED BY <1>1, BatchAssumption DEF Called

LEMMA BatchRunner ==
  ASSUME WakeTypeOK, NEW s \in Slots, batch[s] # None
  PROVE  /\ batch[s] \in Batch
         /\ batch[s].by \in Runners /\ batch[s].by # None
         /\ batch[s].wakes \in [Targets -> Maybe(Reasons)]
         /\ batch[s].todo \in SUBSET Targets
         /\ batch[s].now \in Targets
         /\ batch[s].delay \in AnyDelay
  <1>1. batch[s] \in Batch
    BY DEF WakeTypeOK, Maybe
  <1>2. batch[s].by \in Runners
    BY <1>1 DEF Batch
  <1> QED BY <1>1, <1>2, RunnerAssumption, NoneAssumption DEF Batch

-----------------------------------------------------------------------------
(* The steps.                                                              *)
LEMMA RequestInv ==
  ASSUME WakeInv, NEW t \in Targets, NEW reason \in Reasons, NEW delay \in AnyDelay,
         Request(t, reason, delay), UNCHANGED <<handler, life>>,
         due' \in [Runners -> 0 .. Interval], beat' \in [Runners -> Maybe(0 .. Interval)],
         on' \in BOOLEAN, paused' \in BOOLEAN
  PROVE  WakeInv'
  <1>1. timer' \in Timer /\ timer' # None
    BY ArmedType DEF Request, WakeInv, WakeTypeOK, Timer
  <1>2. pending' \in [Targets -> Maybe(Reasons)]
    BY CoalescedType DEF Request, WakeInv, WakeTypeOK, Maybe
  <1>3. WakeTypeOK'
    BY <1>1, <1>2 DEF Request, WakeInv, WakeTypeOK, Timer, Maybe
  <1> QED BY <1>1, <1>3 DEF Request, WakeInv, Registration, RunningMarked, NothingForgotten,
             OneBatchPerRunner

LEMMA NothingToTakeInv ==
  ASSUME WakeInv, handler = None \/ ~SomePending(pending), NothingToTake, UNCHANGED runnerVars,
         UNCHANGED intruded
  PROVE  WakeInv'
  <1>1. WakeTypeOK'
    BY DEF NothingToTake, runnerVars, WakeInv, WakeTypeOK, Maybe
  <1> QED BY <1>1 DEF NothingToTake, runnerVars, WakeInv, Registration, RunningMarked,
             NothingForgotten,
                      OneBatchPerRunner, SomePending

LEMMA TakeBatchInv ==
  ASSUME WakeInv, handler # None, ~flushing, timer # None, TakeBatch, UNCHANGED runnerVars,
         UNCHANGED intruded
  PROVE  WakeInv'
  <1>1. PICK s \in Slots, t \in Targets :
          /\ batch[s] = None
          /\ batch' = [batch EXCEPT ![s] =
               Called(handler, pending, {u \in Targets : pending[u] # None}, timer.delay, t)]
    BY DEF TakeBatch, FirstFree
  <1>2. handler \in Runners /\ timer.delay \in AnyDelay /\ pending \in [Targets -> Maybe(Reasons)]
    BY DEF WakeInv, WakeTypeOK, Maybe
  <1>3. batch'[s] \in Batch /\ batch'[s] # None /\ batch'[s].by = handler
    BY <1>1, <1>2, CalledType DEF WakeInv, WakeTypeOK
  <1>4. \A u \in Slots : u # s => batch'[u] = batch[u]
    BY <1>1 DEF WakeInv, WakeTypeOK
  <1>5. WakeTypeOK'
    BY <1>1, <1>3, <1>4 DEF TakeBatch, runnerVars, WakeInv, WakeTypeOK, Maybe, NoWakes
  <1>6. Registration' /\ RunningMarked' /\ NothingForgotten'
    BY <1>3, <1>4 DEF TakeBatch, runnerVars, WakeInv, WakeTypeOK, Registration, RunningMarked,
       NothingForgotten,
                      SomePending, NoWakes
  <1>7. OneBatchPerRunner'
    BY <1>3, <1>4 DEF WakeInv, RunningMarked, OneBatchPerRunner
  <1> QED BY <1>5, <1>6, <1>7 DEF WakeInv

LEMMA TimerFiresInv == ASSUME WakeInv, TimerFires PROVE WakeInv'
  <1>1. CASE (handler = None \/ ~SomePending(pending)) /\ NothingToTake
    BY <1>1, NothingToTakeInv DEF TimerFires
  <1>2. CASE handler # None /\ flushing /\ timer' = NewTimer(timer.delay, timer.kind)
             /\ scheduled' = TRUE /\ UNCHANGED <<pending, flushing, batch>>
    <2>1. timer' \in Timer /\ timer' # None
      <3>1. timer.delay \in AnyDelay /\ timer.kind \in {"normal", "retry"}
        BY DEF TimerFires, WakeInv, WakeTypeOK, Maybe
      <3>2. timer' \in Timer /\ timer' \in [left : Nat, delay : Nat, kind : {"normal", "retry"}]
        BY <1>2, <3>1, DelayType DEF NewTimer, Timer
      <3> QED BY <3>2, NoneAssumption
    <2>2. WakeTypeOK'
      BY <1>2, <2>1 DEF TimerFires, runnerVars, WakeInv, WakeTypeOK, Maybe, Timer
    <2> QED BY <1>2, <2>1, <2>2 DEF TimerFires, runnerVars, WakeInv, Registration, RunningMarked,
                                    NothingForgotten, OneBatchPerRunner
  <1>3. CASE handler # None /\ ~flushing /\ TakeBatch
    BY <1>3, TakeBatchInv DEF TimerFires
  <1> QED BY <1>1, <1>2, <1>3 DEF TimerFires

(* What run() does to the runner keeps the types.                          *)
LEMMA AdvancesType ==
  ASSUME WakeInv, NEW s \in Slots, batch[s] # None, RunnerAdvances(batch[s])
  PROVE  due' \in [Runners -> 0 .. Interval] /\ beat' \in [Runners -> Maybe(0 .. Interval)]
  <1>1. batch[s].by \in Runners
    BY DEF WakeInv, WakeTypeOK, Maybe, Batch
  <1> QED BY <1>1 DEF RunnerAdvances, ScheduleNext, WakeInv, WakeTypeOK, Maybe

(* A batch ends, with what it puts back and the timer it leaves.           *)
LEMMA FinallyInv ==
  ASSUME WakeInv, NEW s \in Slots, batch[s] # None,
         NEW queued \in [Targets -> Maybe(Reasons)], NEW tm \in Maybe(Timer),
         Finally(batch[s], queued, tm), batch' = [batch EXCEPT ![s] = None],
         UNCHANGED <<handler, life>>, due' \in [Runners -> 0 .. Interval],
         beat' \in [Runners -> Maybe(0 .. Interval)], on' \in BOOLEAN, paused' \in BOOLEAN
  PROVE  WakeInv'
  <1>1. batch[s].by \in Runners /\ batch[s].delay \in AnyDelay
    BY DEF WakeInv, WakeTypeOK, Maybe, Batch
  <1>2. /\ Armed(tm, batch[s].delay, "normal") \in Timer
        /\ Armed(tm, batch[s].delay, "normal") # None
    BY <1>1, ArmedType
  <1>3. timer' \in Maybe(Timer) /\ (SomePending(queued) => timer' # None)
    BY <1>2 DEF Finally, Maybe
  <1>4. WakeTypeOK'
    BY <1>1, <1>3 DEF Finally, WakeInv, WakeTypeOK, Maybe, Timer
  <1>5. batch'[s] = None /\ \A u \in Slots : u # s => batch'[u] = batch[u]
    BY DEF WakeInv, WakeTypeOK
  <1>6. Registration' /\ NothingForgotten'
    BY <1>3, <1>5 DEF Finally, WakeInv, Registration, NothingForgotten, SomePending
  <1>7. RunningMarked'
    <2> SUFFICES ASSUME NEW u \in Slots, batch'[u] # None, batch'[u].by = handler,
                        handler \notin intruded'
                 PROVE  FALSE
      BY DEF RunningMarked
    <2>1. u # s /\ batch[u] # None /\ batch[u].by = handler
      BY <1>5
    <2>2. handler # None
      BY <2>1, BatchRunner DEF WakeInv
    <2>3. batch[s].by = handler /\ intruded' = intruded
      BY <2>2 DEF Finally
    <2> QED BY <2>1, <2>3 DEF WakeInv, OneBatchPerRunner
  <1>8. OneBatchPerRunner'
    BY <1>5 DEF Finally, WakeInv, OneBatchPerRunner
  <1> QED BY <1>4, <1>6, <1>7, <1>8 DEF WakeInv

LEMMA GoOnInv ==
  ASSUME WakeInv, NEW s \in Slots, batch[s] # None,
         NEW queued \in [Targets -> Maybe(Reasons)], NEW tm \in Maybe(Timer),
         tm # None \/ (tm = timer /\ queued = pending),
         GoOn(s, queued, tm),
         UNCHANGED <<handler, life>>, due' \in [Runners -> 0 .. Interval],
         beat' \in [Runners -> Maybe(0 .. Interval)], on' \in BOOLEAN, paused' \in BOOLEAN
  PROVE  WakeInv'
  <1>1. ASSUME NEW t \in batch[s].todo,
               batch' = [batch EXCEPT ![s] =
                 Called(batch[s].by, batch[s].wakes, batch[s].todo, batch[s].delay, t)],
               pending' = queued, timer' = tm, UNCHANGED <<scheduled, flushing, intruded>>
        PROVE  WakeInv'
    <2>1. /\ batch[s].by \in Runners /\ batch[s].wakes \in [Targets -> Maybe(Reasons)]
          /\ batch[s].todo \in SUBSET Targets /\ batch[s].delay \in AnyDelay /\ t \in Targets
      BY <1>1, BatchRunner DEF WakeInv
    <2>2. batch'[s] \in Batch /\ batch'[s] # None /\ batch'[s].by = batch[s].by
      <3>1. batch'[s] = Called(batch[s].by, batch[s].wakes, batch[s].todo, batch[s].delay, t)
        BY <1>1 DEF WakeInv, WakeTypeOK
      <3> QED BY <2>1, <3>1, CalledType DEF WakeInv
    <2>3. \A u \in Slots : u # s => batch'[u] = batch[u]
      BY <1>1 DEF WakeInv, WakeTypeOK
    <2>4. WakeTypeOK'
      BY <1>1, <2>2, <2>3 DEF WakeInv, WakeTypeOK, Maybe, Timer
    <2>5. Registration' /\ RunningMarked' /\ OneBatchPerRunner'
      BY <1>1, <2>2, <2>3 DEF WakeInv, Registration, RunningMarked, OneBatchPerRunner
    <2>6. NothingForgotten'
      BY <1>1, <2>2, <2>3 DEF WakeInv, NothingForgotten, SomePending
    <2> QED BY <2>4, <2>5, <2>6 DEF WakeInv
  <1>2. CASE batch' = [batch EXCEPT ![s] = None] /\ Finally(batch[s], queued, tm)
    BY <1>2, FinallyInv
  <1> QED BY <1>1, <1>2 DEF GoOn

LEMMA AnswerInv == ASSUME WakeInv, NEW s \in Slots, Answer(s) PROVE WakeInv'
  <1>1. CASE Answered(s)
    <2>1. pending \in [Targets -> Maybe(Reasons)] /\ timer \in Maybe(Timer)
      BY DEF WakeInv, WakeTypeOK, Timer
    <2>2. on' \in BOOLEAN /\ paused' \in BOOLEAN
      BY <1>1 DEF Answered, WakeInv, WakeTypeOK
    <2> QED BY <1>1, <2>1, <2>2, AdvancesType, GoOnInv DEF Answered
  <1>2. CASE AnsweredBusy(s)
    <2>1. batch[s] # None /\ batch[s] \in Batch
      BY <1>2 DEF AnsweredBusy, WakeInv, WakeTypeOK, Maybe
    <2>2. Coalesced(pending, batch[s].now,
        batch[s].wakes[batch[s].now]) \in [Targets -> Maybe(Reasons)]
      BY <2>1, CoalescedType DEF WakeInv, WakeTypeOK, Batch
    <2>3. /\ Armed(timer, RetryDelay, "retry") \in Maybe(Timer)
          /\ Armed(timer, RetryDelay, "retry") # None
      BY ArmedType DEF WakeInv, WakeTypeOK, Maybe, AnyDelay, Timer
    <2>4. on' \in BOOLEAN /\ paused' \in BOOLEAN
      BY <1>2 DEF AnsweredBusy, WakeInv, WakeTypeOK
    <2> QED BY <1>2, <2>1, <2>2, <2>3, <2>4, AdvancesType, GoOnInv DEF AnsweredBusy
  <1>3. CASE Rejected(s)
    <2> DEFINE queued == [t \in Targets |-> IF batch[s].wakes[t] = None THEN pending[t]
                                            ELSE Coalesced(pending, t, batch[s].wakes[t])[t]]
    <2>1. batch[s] # None /\ batch[s] \in Batch
      BY <1>3 DEF Rejected, WakeInv, WakeTypeOK, Maybe
    <2>2. queued \in [Targets -> Maybe(Reasons)]
      <3> SUFFICES ASSUME NEW t \in Targets
                   PROVE  (IF batch[s].wakes[t] = None THEN pending[t]
                           ELSE Coalesced(pending, t, batch[s].wakes[t])[t]) \in Maybe(Reasons)
        OBVIOUS
      <3>1. pending \in [Targets -> Maybe(Reasons)] /\ batch[s].wakes[t] \in Maybe(Reasons)
        BY <2>1, BatchRunner DEF WakeInv, WakeTypeOK
      <3>2. Coalesced(pending, t, batch[s].wakes[t]) \in [Targets -> Maybe(Reasons)]
        BY <3>1, CoalescedType
      <3> QED BY <3>1, <3>2
    <2>3. Armed(timer, RetryDelay, "retry") \in Maybe(Timer)
      BY ArmedType DEF WakeInv, WakeTypeOK, Maybe, AnyDelay, Timer
    <2>4. /\ UNCHANGED <<handler, life>> /\ on' \in BOOLEAN /\ paused' \in BOOLEAN
          /\ due' \in [Runners -> 0 .. Interval] /\ beat' \in [Runners -> Maybe(0 .. Interval)]
      BY <1>3 DEF Rejected, runnerVars, WakeInv, WakeTypeOK
    <2>5. Finally(batch[s], queued, Armed(timer, RetryDelay, "retry"))
          /\ batch' = [batch EXCEPT ![s] = None]
      BY <1>3 DEF Rejected
    <2> HIDE DEF queued
    <2> QED BY <2>1, <2>2, <2>3, <2>4, <2>5, FinallyInv
  <1> QED BY <1>1, <1>2, <1>3 DEF Answer

LEMMA StartRunnerInv == ASSUME WakeInv, NEW r \in Runners, StartRunner(r) PROVE WakeInv'
  <1>1. NewTimer(Coalesce, "normal") \in Timer /\ NewTimer(Coalesce, "normal") # None
    <2>1. /\ NewTimer(Coalesce, "normal") \in Timer
          /\ NewTimer(Coalesce, "normal") \in [left : Nat, delay : Nat, kind : {"normal", "retry"}]
      BY DelayAssumption DEF NewTimer, Timer, AnyDelay
    <2> QED BY <2>1, NoneAssumption
  <1>2. WakeTypeOK'
    <2>1. /\ due' \in [Runners -> 0 .. Interval] /\ beat' \in [Runners -> Maybe(0 .. Interval)]
          /\ handler' \in Maybe(Runners) /\ life' \in [Runners -> {"new", "on", "stopped"}]
      BY DelayAssumption DEF StartRunner, WakeInv, WakeTypeOK, Maybe
    <2>2. timer' \in Maybe(Timer)
      BY <1>1 DEF StartRunner, Maybe
    <2> QED BY <2>1, <2>2 DEF StartRunner, WakeInv, WakeTypeOK, Timer
  <1>3. Registration'
    BY DEF StartRunner, WakeInv, WakeTypeOK, Registration
  <1>4. RunningMarked' /\ OneBatchPerRunner'
    BY DEF StartRunner, WakeInv, Registration, RunningMarked, OneBatchPerRunner
  <1>5. NothingForgotten'
    BY <1>1 DEF StartRunner, NothingForgotten, SomePending
  <1> QED BY <1>2, <1>3, <1>4, <1>5 DEF WakeInv

LEMMA StopRunnerInv == ASSUME WakeInv, NEW r \in Runners, StopRunner(r) PROVE WakeInv'
  <1>1. WakeTypeOK'
    BY DelayAssumption DEF StopRunner, queueVars, WakeInv, WakeTypeOK, Maybe
  <1>2. Registration'
    BY DEF StopRunner, queueVars, WakeInv, WakeTypeOK, Registration, Maybe, Batch
  <1>3. batch' = batch /\ \A s \in Slots : batch[s] # None => batch[s].by # None
    BY BatchRunner DEF StopRunner, WakeInv
  <1>4. handler' \in {None, handler} /\ UNCHANGED <<pending, timer, flushing, intruded>>
    BY DEF StopRunner, queueVars
  <1>5. RunningMarked' /\ OneBatchPerRunner' /\ NothingForgotten'
    BY <1>3, <1>4 DEF WakeInv, RunningMarked, OneBatchPerRunner, NothingForgotten, SomePending
  <1> QED BY <1>1, <1>2, <1>5 DEF WakeInv

LEMMA BeatFiresInv == ASSUME WakeInv, NEW r \in Runners, BeatFires(r) PROVE WakeInv'
  <1>1. beat' \in [Runners -> Maybe(0 .. Interval)]
    BY DEF BeatFires, WakeInv, WakeTypeOK, Maybe
  <1>2. 0 \in AnyDelay /\ "interval" \in Reasons /\ UNCHANGED <<handler, life>>
        /\ due' \in [Runners -> 0 .. Interval] /\ on' \in BOOLEAN /\ paused' \in BOOLEAN
    BY DEF BeatFires, AnyDelay, Reasons, WakeInv, WakeTypeOK
  <1> QED BY <1>1, <1>2, RequestInv, TargetAssumption DEF BeatFires

LEMMA ToggleInv == ASSUME WakeInv, Toggle PROVE WakeInv'
  <1>1. WakeTypeOK'
    BY DEF Toggle, queueVars, WakeInv, WakeTypeOK
  <1> QED BY <1>1 DEF Toggle, queueVars, WakeInv, Registration, RunningMarked, OneBatchPerRunner,
                      NothingForgotten

LEMMA TickInv == ASSUME WakeInv, Tick PROVE WakeInv'
  <1>1. timer' \in Maybe(Timer) /\ (timer # None => timer' # None)
    <2>1. CASE timer = None
      BY <2>1 DEF Tick, Maybe
    <2>2. CASE timer # None
      <3>1. timer \in Timer
        BY <2>2 DEF WakeInv, WakeTypeOK, Maybe, Timer
      <3>2. timer' = [timer EXCEPT !.left = Less(timer.left)]
        BY <2>2 DEF Tick
      <3>3. timer' \in Timer /\ timer' \in [left : Nat, delay : Nat, kind : {"normal", "retry"}]
        BY <3>1, <3>2, DelayType DEF Timer, Less
      <3> QED BY <3>3, NoneAssumption DEF Maybe
    <2> QED BY <2>1, <2>2
  <1>2. due' \in [Runners -> 0 .. Interval] /\ beat' \in [Runners -> Maybe(0 .. Interval)]
    BY DelayAssumption DEF Tick, Less, WakeInv, WakeTypeOK, Maybe
  <1>3. WakeTypeOK'
    BY <1>1, <1>2 DEF Tick, WakeInv, WakeTypeOK, Timer
  <1> QED BY <1>1, <1>3 DEF Tick, WakeInv, Registration, RunningMarked, OneBatchPerRunner,
                            NothingForgotten

-----------------------------------------------------------------------------
LEMMA WakeInitInv == WakeInit => WakeInv
  <1> SUFFICES ASSUME WakeInit PROVE WakeInv
    OBVIOUS
  <1>1. /\ due \in [Runners -> 0 .. Interval] /\ beat \in [Runners -> Maybe(0 .. Interval)]
        /\ life \in [Runners -> {"new", "on", "stopped"}] /\ batch \in [Slots -> Maybe(Batch)]
        /\ pending \in [Targets -> Maybe(Reasons)]
    BY DelayAssumption DEF WakeInit, NoWakes, Maybe
  <1>2. WakeTypeOK
    BY <1>1 DEF WakeInit, WakeTypeOK, Maybe
  <1> QED BY <1>2 DEF WakeInit, WakeInv, Registration, RunningMarked, OneBatchPerRunner,
             NothingForgotten

LEMMA WakeNextInv == WakeInv /\ [WakeNext]_wakeVars => WakeInv'
  <1> SUFFICES ASSUME WakeInv, [WakeNext]_wakeVars PROVE WakeInv'
    OBVIOUS
  <1>1. ASSUME NEW w \in Requests, Wake(w[1], w[2], w[3])
        PROVE  WakeInv'
    <2>1. w[1] \in Targets /\ w[2] \in Reasons /\ w[3] \in AnyDelay
      BY RequestAssumption DEF Reasons, AnyDelay
    <2>2. /\ UNCHANGED <<handler, life>> /\ on' \in BOOLEAN /\ paused' \in BOOLEAN
          /\ due' \in [Runners -> 0 .. Interval] /\ beat' \in [Runners -> Maybe(0 .. Interval)]
      BY <1>1 DEF Wake, runnerVars, WakeInv, WakeTypeOK
    <2> QED BY <1>1, <2>1, <2>2, RequestInv DEF Wake
  <1>2. ASSUME NEW r \in Runners, StartRunner(r) \/ StopRunner(r) \/ BeatFires(r)
        PROVE  WakeInv'
    BY <1>2, StartRunnerInv, StopRunnerInv, BeatFiresInv
  <1>3. CASE UNCHANGED wakeVars
    BY <1>3 DEF wakeVars, WakeInv, WakeTypeOK, Registration, RunningMarked, OneBatchPerRunner,
       NothingForgotten
  <1> QED BY <1>1, <1>2, <1>3, TimerFiresInv, ToggleInv, TickInv, AnswerInv DEF WakeNext

(* The inductive invariant holds in every reachable state.                 *)
THEOREM WakeSpecInv == WakeSpec => []WakeInv
  BY WakeInitInv, WakeNextInv, PTL DEF WakeSpec

(* In spite of the flags that restarts and batches reset under each other, *)
(* no request is left behind and a runner has one batch at a time          *)
(* (heartbeat-wake.ts 109-216).                                            *)
THEOREM SpecWakesKept == WakeSpec => []WakesKept
  <1>1. WakeInv => WakesKept
    BY DEF WakeInv, WakesKept
  <1> QED BY <1>1, WakeSpecInv, PTL

-----------------------------------------------------------------------------
(* What a step does to what waits.  A retry stands when a timer is armed,  *)
(* and a coalesced reason is at least what it replaces.                    *)
StandsTimer == (timer # None /\ timer.kind = "retry") =>
                  timer' = timer \/ timer.left = 0 \/ Tick \/ handler' # handler
StandsReason == \A t \in Targets : (pending[t] # None /\ pending'[t] # None) =>
                  Priority(pending'[t]) >= Priority(pending[t])

LEMMA RetryStands ==
  ASSUME NEW tm, NEW delay, NEW kind, tm # None, tm.kind = "retry"
  PROVE  Armed(tm, delay, kind) = tm
  BY DEF Armed

LEMMA PriorityType == \A reason \in Reasons : Priority(reason) \in Nat
  BY DEF Priority, Reasons

LEMMA CoalescedStands ==
  ASSUME NEW wakes \in [Targets -> Maybe(Reasons)], NEW t \in Targets,
         NEW reason \in Maybe(Reasons), NEW u \in Targets, wakes[u] # None,
         Coalesced(wakes, t, reason)[u] # None
  PROVE  Priority(Coalesced(wakes, t, reason)[u]) >= Priority(wakes[u])
  <1>1. Priority(wakes[u]) \in Nat
    BY PriorityType DEF Maybe
  <1>2. CASE Coalesced(wakes, t, reason) = wakes
    BY <1>1, <1>2
  <1>3. CASE /\ Priority(reason) >= Priority(wakes[t])
             /\ Coalesced(wakes, t, reason) = [wakes EXCEPT ![t] = reason]
    <2>1. CASE u = t
      BY <1>3, <2>1
    <2>2. CASE u # t
      BY <1>1, <1>3, <2>2
    <2> QED BY <2>1, <2>2
  <1>4. CASE wakes[t] = None /\ Coalesced(wakes, t, reason) = [wakes EXCEPT ![t] = reason]
    BY <1>1, <1>4
  <1> QED BY <1>2, <1>3, <1>4 DEF Coalesced

LEMMA UnchangedStands ==
  ASSUME WakeTypeOK, pending' = pending
  PROVE  StandsReason
  <1> SUFFICES ASSUME NEW t \in Targets, pending[t] # None
               PROVE  Priority(pending[t]) >= Priority(pending[t])
    BY DEF StandsReason
  <1>1. Priority(pending[t]) \in Nat
    BY PriorityType DEF WakeTypeOK, Maybe
  <1> QED BY <1>1

LEMMA RequestStands ==
  ASSUME WakeTypeOK, NEW t \in Targets, NEW reason \in Reasons, NEW delay, Request(t, reason, delay)
  PROVE  StandsTimer /\ StandsReason
  <1>1. StandsTimer
    BY RetryStands DEF Request, StandsTimer
  <1>2. reason \in Maybe(Reasons) /\ pending \in [Targets -> Maybe(Reasons)]
    BY DEF Maybe, WakeTypeOK
  <1>3. StandsReason
    BY <1>2, CoalescedStands DEF Request, StandsReason
  <1> QED BY <1>1, <1>3

LEMMA TimerFiresStands == ASSUME WakeTypeOK, TimerFires PROVE StandsTimer /\ StandsReason
  <1>1. StandsTimer
    BY DEF TimerFires, StandsTimer
  <1>2. pending' = pending \/ pending' = NoWakes
    BY DEF TimerFires, NothingToTake, TakeBatch
  <1>3. CASE pending' = NoWakes
    BY <1>1, <1>3 DEF NoWakes, StandsReason
  <1> QED BY <1>1, <1>2, <1>3, UnchangedStands

LEMMA AnswerStands == ASSUME WakeInv, NEW s \in Slots, Answer(s) PROVE StandsTimer /\ StandsReason
  <1> DEFINE b == batch[s]
  <1>1. /\ b.wakes \in [Targets -> Maybe(Reasons)] /\ b.now \in Targets
        /\ pending \in [Targets -> Maybe(Reasons)]
    BY BatchRunner DEF Answer, Answered, AnsweredBusy, Rejected, WakeInv, WakeTypeOK
  <1>2. CASE Answered(s)
    <2>1. GoOn(s, pending, timer)
      BY <1>2 DEF Answered
    <2>2. pending' = pending
      BY <2>1 DEF GoOn, Finally
    <2>3. StandsTimer
      BY <2>1, RetryStands DEF GoOn, Finally, StandsTimer
    <2> QED BY <2>2, <2>3, UnchangedStands DEF WakeInv
  <1>3. CASE AnsweredBusy(s)
    <2> DEFINE queued == Coalesced(pending, b.now, b.wakes[b.now])
               tm == Armed(timer, RetryDelay, "retry")
    <2>1. GoOn(s, queued, tm)
      BY <1>3 DEF AnsweredBusy
    <2>2. pending' = queued /\ (timer' = tm \/ timer' = Armed(tm, b.delay, "normal"))
      BY <2>1 DEF GoOn, Finally
    <2>3. StandsTimer
      BY <2>2, RetryStands DEF StandsTimer
    <2>4. StandsReason
      BY <1>1, <2>2, CoalescedStands DEF StandsReason
    <2> QED BY <2>3, <2>4
  <1>4. CASE Rejected(s)
    <2> DEFINE tm == Armed(timer, RetryDelay, "retry")
    <2>1. /\ timer' = tm \/ timer' = Armed(tm, b.delay, "normal")
          /\ pending' = [t \in Targets |-> IF b.wakes[t] = None THEN pending[t]
                                           ELSE Coalesced(pending, t, b.wakes[t])[t]]
      BY <1>4 DEF Rejected, Finally
    <2>2. StandsTimer
      BY <2>1, RetryStands DEF StandsTimer
    <2>3. StandsReason
      <3> SUFFICES ASSUME NEW t \in Targets, pending[t] # None, pending'[t] # None
                   PROVE  Priority(pending'[t]) >= Priority(pending[t])
        BY DEF StandsReason
      <3>1. Priority(pending[t]) \in Nat
        BY <1>1, PriorityType DEF Maybe
      <3>2. b.wakes[t] \in Maybe(Reasons)
        BY <1>1
      <3>3. CASE b.wakes[t] = None
        BY <2>1, <3>1, <3>3
      <3>4. CASE b.wakes[t] # None
        <4>1. pending'[t] = Coalesced(pending, t, b.wakes[t])[t]
          BY <2>1, <3>4
        <4> HIDE DEF b
        <4> QED BY <1>1, <3>2, <4>1, CoalescedStands
      <3> QED BY <3>3, <3>4
    <2> QED BY <2>2, <2>3
  <1> QED BY <1>2, <1>3, <1>4 DEF Answer

LEMMA StartRunnerStands ==
  ASSUME WakeInv, NEW r \in Runners, StartRunner(r)
  PROVE  StandsTimer /\ StandsReason
  <1>1. handler' = r /\ life[r] = "new" /\ r # None
    BY RunnerAssumption, NoneAssumption DEF StartRunner
  <1>2. handler' # handler
    BY <1>1 DEF WakeInv, Registration
  <1>3. StandsTimer
    BY <1>2 DEF StandsTimer
  <1> QED BY <1>3, UnchangedStands DEF StartRunner, WakeInv

(* Every step leaves what waits standing.                                  *)
LEMMA NextStands == WakeInv /\ [WakeNext]_wakeVars => [StandsTimer /\ StandsReason]_wakeVars
  <1> SUFFICES ASSUME WakeInv, WakeNext PROVE StandsTimer /\ StandsReason
    OBVIOUS
  <1>1. ASSUME NEW w \in Requests, Wake(w[1], w[2], w[3])
        PROVE  StandsTimer /\ StandsReason
    <2>1. w[1] \in Targets /\ w[2] \in Reasons
      BY RequestAssumption DEF Reasons
    <2> QED BY <1>1, <2>1, RequestStands DEF Wake, WakeInv
  <1>2. ASSUME NEW r \in Runners, BeatFires(r)
        PROVE  StandsTimer /\ StandsReason
    <2>1. "interval" \in Reasons
      BY DEF Reasons
    <2> QED BY <1>2, <2>1, TargetAssumption, RequestStands DEF BeatFires, WakeInv
  <1>3. ASSUME NEW r \in Runners, StopRunner(r)
        PROVE  StandsTimer /\ StandsReason
    <2>1. timer' = timer /\ pending' = pending
      BY <1>3 DEF StopRunner, queueVars
    <2> QED BY <2>1, UnchangedStands DEF StandsTimer, WakeInv
  <1>4. CASE Toggle
    <2>1. timer' = timer /\ pending' = pending
      BY <1>4 DEF Toggle, queueVars
    <2> QED BY <2>1, UnchangedStands DEF StandsTimer, WakeInv
  <1>5. CASE Tick
    <2>1. pending' = pending
      BY <1>5 DEF Tick
    <2> QED BY <1>5, <2>1, UnchangedStands DEF StandsTimer, WakeInv
  <1>6. CASE TimerFires
    BY <1>6, TimerFiresStands DEF WakeInv
  <1>7. ASSUME NEW s \in Slots, Answer(s)
        PROVE  StandsTimer /\ StandsReason
    BY <1>7, AnswerStands
  <1>8. ASSUME NEW r \in Runners, StartRunner(r)
        PROVE  StandsTimer /\ StandsReason
    BY <1>8, StartRunnerStands
  <1> QED BY <1>1, <1>2, <1>3, <1>4, <1>5, <1>6, <1>7, <1>8 DEF WakeNext

(* The cooldown of a retry is a hard minimum, and a wake that waits is     *)
(* never downgraded, whichever requests, batches, rejections and restarts  *)
(* follow (heartbeat-wake.ts 74-127).                                      *)
THEOREM SpecRequestsStand == WakeSpec => RequestsStand
  <1>1. WakeInv /\ [WakeNext]_wakeVars =>
          [(timer # None /\ timer.kind = "retry") =>
             \/ timer' = timer \/ timer.left = 0 \/ Tick
             \/ handler' # handler]_wakeVars
    BY NextStands DEF StandsTimer
  <1>2. WakeInv /\ [WakeNext]_wakeVars =>
          [\A t \in Targets : (pending[t] # None /\ pending'[t] # None) =>
             Priority(pending'[t]) >= Priority(pending[t])]_wakeVars
    BY NextStands DEF StandsReason
  <1>3. WakeSpec => CooldownKept
    BY <1>1, WakeSpecInv, PTL DEF WakeSpec, CooldownKept
  <1>4. WakeSpec => NotDowngraded
    BY <1>2, WakeSpecInv, PTL DEF WakeSpec, NotDowngraded
  <1> QED BY <1>3, <1>4 DEF RequestsStand

-----------------------------------------------------------------------------
(* Commands of nodes: none reaches a node unapproved, decisions are final  *)
(* and nobody waits for a connection that has closed, for any number of    *)
(* commands and connections.                                               *)

(* A command that has not asked has no record and no answer.               *)
Unasked == \A k \in Calls : stage[k] = "new" => approval[k] = Unset /\ told[k] = Unset

Waived(k) == told[k] = "timeout" /\ fallback = "full"

(* The decision that a command takes to node.invoke is what it was told.   *)
FlagAgrees ==
    \A k \in Calls : flag[k] # Unset =>
        flag[k] = told[k] \/ (flag[k] = "allow-once" /\ Waived(k))

(* What goes on was not denied.                                            *)
GoingOn ==
    \A k \in Asking : (Awaiting(k) \/ stage[k] = "pending") => told[k] # Unset /\ ~Denied(k)

(* What ApprovedRuns says of a command that the node ran with approval a.  *)
Approved(k, a) ==
    /\ told[k] # "deny" /\ told[k] # Unset
    /\ a \in Allowed => told[k] = a \/ Waived(k)
    /\ told[k] = "timeout" => fallback # "deny"

SentApproved == \A m \in wire : m.call \in Asking => Approved(m.call, m.approved)

NodeInv ==
    /\ NodeTypeOK /\ RecordAgrees /\ Unasked /\ FlagAgrees /\ GoingOn
    /\ SentApproved /\ ApprovedRuns /\ NoWaitForClosed

-----------------------------------------------------------------------------
LEMMA AskInv == ASSUME NodeInv, NEW k \in Calls, Ask(k), UNCHANGED fallback PROVE NodeInv'
  <1> USE CallAssumption, ConnAssumption, UnsetAssumption DEF NodeInv, approvalVars, connVars
  <1>1. NodeTypeOK'
    BY DEF Ask, NodeTypeOK, Entry, Decisions, Allowed, Registered, Pending
  <1>2. RecordAgrees'
    BY DEF Ask, RecordAgrees, Unasked, Registered, NodeTypeOK, Entry
  <1>3. Unasked'
    BY DEF Ask, Unasked, NodeTypeOK, Registered, Pending
  <1>4. FlagAgrees'
    BY DEF Ask, FlagAgrees, Waived, NodeTypeOK, RecordAgrees, Registered, Pending, Unasked
  <1>5. GoingOn'
    BY DEF Ask, GoingOn, Awaiting, Denied, NodeTypeOK, RecordAgrees, Registered, Pending, Unasked
  <1>6. SentApproved'
    BY DEF Ask, SentApproved, Approved, Waived, NodeTypeOK, RecordAgrees, Registered, Pending,
       Unasked
  <1>7. ApprovedRuns'
    BY DEF Ask, ApprovedRuns, Approved, Waived, SentApproved, NodeTypeOK, RecordAgrees,
       Registered, Pending, Unasked
  <1>8. NoWaitForClosed'
    BY DEF Ask, NoWaitForClosed, InvokesPending, NodeTypeOK
  <1> QED BY <1>1, <1>2, <1>3, <1>4, <1>5, <1>6, <1>7, <1>8

LEMMA ResolveInv == ASSUME NodeInv, NEW k \in Calls, NEW d \in Decisions, Resolve(k, d),
                           UNCHANGED fallback PROVE NodeInv'
  <1> USE CallAssumption, ConnAssumption, UnsetAssumption DEF NodeInv, approvalVars, connVars
  <1>a. /\ approval[k] \in Entry /\ told[k] = Unset
        /\ told' = [told EXCEPT ![k] = d]
    BY DEF Resolve, Pending, Registered, RecordAgrees, NodeTypeOK
  <1>b. approval' = [approval EXCEPT ![k] =
                       [resolved |-> TRUE, decision |-> d, clock |-> approval[k].clock]]
    BY DEF Resolve, Resolved
  <1>c. [resolved |-> TRUE, decision |-> d, clock |-> approval[k].clock] \in Entry
    BY <1>a DEF Entry, Decisions
  <1>1. NodeTypeOK'
    <2>1. approval' \in [Calls -> Entry \cup {Unset}]
      BY <1>b, <1>c DEF NodeTypeOK
    <2>2. told' \in [Calls -> Decisions \cup {"timeout", Unset}]
      BY <1>a DEF NodeTypeOK
    <2> QED BY <2>1, <2>2 DEF Resolve, NodeTypeOK
  <1>2. RecordAgrees'
    BY <1>a, <1>b DEF RecordAgrees, Registered, NodeTypeOK, Decisions, Allowed
  <1>3. Unasked'
    BY DEF Resolve, Unasked, NodeTypeOK, Registered, Pending
  <1>4. FlagAgrees'
    BY DEF Resolve, FlagAgrees, Waived, NodeTypeOK, RecordAgrees, Registered, Pending, Unasked
  <1>5. GoingOn'
    BY DEF Resolve, GoingOn, Awaiting, Denied, NodeTypeOK, RecordAgrees, Registered, Pending,
       Unasked
  <1>6. SentApproved'
    BY DEF Resolve, SentApproved, Approved, Waived, NodeTypeOK, RecordAgrees, Registered, Pending,
       Unasked
  <1>7. ApprovedRuns'
    BY DEF Resolve, ApprovedRuns, Approved, Waived, SentApproved, NodeTypeOK, RecordAgrees,
       Registered, Pending, Unasked
  <1>8. NoWaitForClosed'
    BY DEF Resolve, NoWaitForClosed, InvokesPending, NodeTypeOK
  <1> QED BY <1>1, <1>2, <1>3, <1>4, <1>5, <1>6, <1>7, <1>8

LEMMA TimesOutInv == ASSUME NodeInv, NEW k \in Calls, TimesOut(k), UNCHANGED fallback PROVE NodeInv'
  <1> USE CallAssumption, ConnAssumption, UnsetAssumption DEF NodeInv, approvalVars, connVars
  <1>a. /\ approval[k] \in Entry /\ told[k] = Unset
        /\ told' = [told EXCEPT ![k] = "timeout"]
    BY DEF TimesOut, Pending, Registered, RecordAgrees, NodeTypeOK
  <1>b. approval' = [approval EXCEPT ![k] =
                       [resolved |-> TRUE, decision |-> Unset, clock |-> approval[k].clock]]
    BY DEF TimesOut, Resolved
  <1>c. [resolved |-> TRUE, decision |-> Unset, clock |-> approval[k].clock] \in Entry
    BY <1>a DEF Entry, Decisions
  <1>1. NodeTypeOK'
    <2>1. approval' \in [Calls -> Entry \cup {Unset}]
      BY <1>b, <1>c DEF NodeTypeOK
    <2>2. told' \in [Calls -> Decisions \cup {"timeout", Unset}]
      BY <1>a DEF NodeTypeOK
    <2> QED BY <2>1, <2>2 DEF TimesOut, NodeTypeOK
  <1>2. RecordAgrees'
    BY <1>a, <1>b DEF TimesOut, RecordAgrees, Registered, NodeTypeOK
  <1>3. Unasked'
    BY DEF TimesOut, Unasked, NodeTypeOK, Registered, Pending
  <1>4. FlagAgrees'
    BY DEF TimesOut, FlagAgrees, Waived, NodeTypeOK, RecordAgrees, Registered, Pending, Unasked
  <1>5. GoingOn'
    BY DEF TimesOut, GoingOn, Awaiting, Denied, NodeTypeOK, RecordAgrees, Registered, Pending,
       Unasked
  <1>6. SentApproved'
    BY DEF TimesOut, SentApproved, Approved, Waived, NodeTypeOK, RecordAgrees, Registered,
       Pending, Unasked
  <1>7. ApprovedRuns'
    BY DEF TimesOut, ApprovedRuns, Approved, Waived, SentApproved, NodeTypeOK, RecordAgrees,
       Registered, Pending, Unasked
  <1>8. NoWaitForClosed'
    BY DEF TimesOut, NoWaitForClosed, InvokesPending, NodeTypeOK
  <1> QED BY <1>1, <1>2, <1>3, <1>4, <1>5, <1>6, <1>7, <1>8

LEMMA GraceEndsInv == ASSUME NodeInv, NEW k \in Calls, GraceEnds(k),
                             UNCHANGED fallback PROVE NodeInv'
  <1> USE CallAssumption, ConnAssumption, UnsetAssumption DEF NodeInv, approvalVars, connVars
  <1>1. NodeTypeOK'
    BY DEF GraceEnds, NodeTypeOK, Entry, Decisions, Allowed, Registered, Pending
  <1>2. RecordAgrees'
    BY DEF GraceEnds, RecordAgrees, Registered, Pending, NodeTypeOK, Entry
  <1>3. Unasked'
    BY DEF GraceEnds, Unasked, NodeTypeOK, Registered, Pending
  <1>4. FlagAgrees'
    BY DEF GraceEnds, FlagAgrees, Waived, NodeTypeOK, RecordAgrees, Registered, Pending, Unasked
  <1>5. GoingOn'
    BY DEF GraceEnds, GoingOn, Awaiting, Denied, NodeTypeOK, RecordAgrees, Registered, Pending,
       Unasked
  <1>6. SentApproved'
    BY DEF GraceEnds, SentApproved, Approved, Waived, NodeTypeOK, RecordAgrees, Registered,
       Pending, Unasked
  <1>7. ApprovedRuns'
    BY DEF GraceEnds, ApprovedRuns, Approved, Waived, SentApproved, NodeTypeOK, RecordAgrees,
       Registered, Pending, Unasked
  <1>8. NoWaitForClosed'
    BY DEF GraceEnds, NoWaitForClosed, InvokesPending, NodeTypeOK
  <1> QED BY <1>1, <1>2, <1>3, <1>4, <1>5, <1>6, <1>7, <1>8

LEMMA ClockInv == ASSUME NodeInv, NEW k \in Calls, Clock(k), UNCHANGED fallback PROVE NodeInv'
  <1> USE CallAssumption, ConnAssumption, UnsetAssumption DEF NodeInv, approvalVars, connVars
  <1>1. NodeTypeOK'
    BY DEF Clock, NodeTypeOK, Entry, Decisions, Allowed, Registered, Pending
  <1>2. RecordAgrees'
    BY DEF Clock, RecordAgrees, Registered, Pending, NodeTypeOK, Entry
  <1>3. Unasked'
    BY DEF Clock, Unasked, NodeTypeOK, Registered, Pending
  <1>4. FlagAgrees'
    BY DEF Clock, FlagAgrees, Waived, NodeTypeOK, RecordAgrees, Registered, Pending, Unasked
  <1>5. GoingOn'
    BY DEF Clock, GoingOn, Awaiting, Denied, NodeTypeOK, RecordAgrees, Registered, Pending, Unasked
  <1>6. SentApproved'
    BY DEF Clock, SentApproved, Approved, Waived, NodeTypeOK, RecordAgrees, Registered, Pending,
       Unasked
  <1>7. ApprovedRuns'
    BY DEF Clock, ApprovedRuns, Approved, Waived, SentApproved, NodeTypeOK, RecordAgrees,
       Registered, Pending, Unasked
  <1>8. NoWaitForClosed'
    BY DEF Clock, NoWaitForClosed, InvokesPending, NodeTypeOK
  <1> QED BY <1>1, <1>2, <1>3, <1>4, <1>5, <1>6, <1>7, <1>8

LEMMA AskFailsInv == ASSUME NodeInv, NEW k \in Calls, AskFails(k), UNCHANGED fallback PROVE NodeInv'
  <1> USE CallAssumption, ConnAssumption, UnsetAssumption DEF NodeInv, approvalVars, connVars
  <1>1. NodeTypeOK'
    BY DEF AskFails, End, NodeTypeOK, Entry, Decisions, Allowed, Registered, Pending
  <1>2. RecordAgrees'
    BY DEF AskFails, End, RecordAgrees, Registered, Pending, NodeTypeOK, Entry
  <1>3. Unasked'
    BY DEF AskFails, End, Unasked, NodeTypeOK, Registered, Pending
  <1>4. FlagAgrees'
    BY DEF AskFails, End, FlagAgrees, Waived, NodeTypeOK, RecordAgrees, Registered, Pending, Unasked
  <1>5. GoingOn'
    BY DEF AskFails, End, GoingOn, Awaiting, Denied, NodeTypeOK, RecordAgrees, Registered,
       Pending, Unasked
  <1>6. SentApproved'
    BY DEF AskFails, End, SentApproved, Approved, Waived, NodeTypeOK, RecordAgrees, Registered,
       Pending, Unasked
  <1>7. ApprovedRuns'
    BY DEF AskFails, End, ApprovedRuns, Approved, Waived, SentApproved, NodeTypeOK, RecordAgrees,
       Registered, Pending, Unasked
  <1>8. NoWaitForClosed'
    BY DEF AskFails, End, NoWaitForClosed, InvokesPending, NodeTypeOK
  <1> QED BY <1>1, <1>2, <1>3, <1>4, <1>5, <1>6, <1>7, <1>8

LEMMA ToldInv == ASSUME NodeInv, NEW k \in Calls, Told(k), UNCHANGED fallback PROVE NodeInv'
  <1> USE CallAssumption, ConnAssumption, UnsetAssumption DEF NodeInv, approvalVars, connVars
  <1>1. NodeTypeOK'
    BY DEF Told, End, Denied, NodeTypeOK, Entry, Decisions, Allowed, Registered, Pending
  <1>2. RecordAgrees'
    BY DEF Told, End, Denied, RecordAgrees, Registered, Pending, NodeTypeOK, Entry
  <1>3. Unasked'
    BY DEF Told, End, Denied, Unasked, NodeTypeOK, Registered, Pending
  <1>4. FlagAgrees'
    <2>1. CASE Denied(k)
      BY <2>1 DEF Told, FlagAgrees, Waived, approvalVars
    <2>2. CASE ~Denied(k) /\ told[k] \in Allowed
      BY <2>2 DEF Told, FlagAgrees, Waived, approvalVars, NodeTypeOK
    <2>3. CASE ~Denied(k) /\ told[k] \notin Allowed
      <3>1. told[k] = "timeout"
        BY <2>3 DEF Told, Denied, NodeTypeOK, Decisions
      <3>2. CASE fallback = "full"
        BY <2>3, <3>1, <3>2 DEF Told, FlagAgrees, Waived, approvalVars, NodeTypeOK
      <3>3. CASE fallback # "full"
        BY <2>3, <3>1, <3>3 DEF Told, FlagAgrees, Waived, approvalVars, NodeTypeOK
      <3> QED BY <3>2, <3>3
    <2> QED BY <2>1, <2>2, <2>3
  <1>5. GoingOn'
    BY DEF Told, End, Denied, GoingOn, Awaiting, Denied, NodeTypeOK, RecordAgrees, Registered,
       Pending, Unasked
  <1>6. SentApproved'
    BY DEF Told, End, Denied, SentApproved, Approved, Waived, NodeTypeOK, RecordAgrees,
       Registered, Pending, Unasked
  <1>7. ApprovedRuns'
    BY DEF Told, End, Denied, ApprovedRuns, Approved, Waived, SentApproved, NodeTypeOK,
       RecordAgrees, Registered, Pending, Unasked
  <1>8. NoWaitForClosed'
    BY DEF Told, End, Denied, NoWaitForClosed, InvokesPending, NodeTypeOK
  <1> QED BY <1>1, <1>2, <1>3, <1>4, <1>5, <1>6, <1>7, <1>8

LEMMA DirectInv == ASSUME NodeInv, NEW k \in Calls, Direct(k), UNCHANGED fallback PROVE NodeInv'
  <1> USE CallAssumption, ConnAssumption, UnsetAssumption DEF NodeInv, approvalVars, connVars
  <1>1. NodeTypeOK'
    BY DEF Direct, NodeTypeOK, Entry, Decisions, Allowed, Registered, Pending
  <1>2. RecordAgrees'
    BY DEF Direct, RecordAgrees, Registered, Pending, NodeTypeOK, Entry
  <1>3. Unasked'
    BY DEF Direct, Unasked, NodeTypeOK, Registered, Pending
  <1>4. FlagAgrees'
    BY DEF Direct, FlagAgrees, Waived, NodeTypeOK, RecordAgrees, Registered, Pending, Unasked
  <1>5. GoingOn'
    BY DEF Direct, GoingOn, Awaiting, Denied, NodeTypeOK, RecordAgrees, Registered, Pending, Unasked
  <1>6. SentApproved'
    BY DEF Direct, SentApproved, Approved, Waived, NodeTypeOK, RecordAgrees, Registered, Pending,
       Unasked
  <1>7. ApprovedRuns'
    BY DEF Direct, ApprovedRuns, Approved, Waived, SentApproved, NodeTypeOK, RecordAgrees,
       Registered, Pending, Unasked
  <1>8. NoWaitForClosed'
    BY DEF Direct, NoWaitForClosed, InvokesPending, NodeTypeOK
  <1> QED BY <1>1, <1>2, <1>3, <1>4, <1>5, <1>6, <1>7, <1>8

LEMMA InvokeInv == ASSUME NodeInv, NEW k \in Calls, Invoke(k), UNCHANGED fallback PROVE NodeInv'
  <1> USE CallAssumption, ConnAssumption, UnsetAssumption DEF NodeInv, approvalVars, connVars
  <1>1. NodeTypeOK'
    BY DEF Invoke, Forward, Passes, PassedOn, Awaiting, End, NodeTypeOK, Entry, Decisions,
       Allowed, Registered, Pending
  <1>2. RecordAgrees'
    BY DEF Invoke, Forward, Passes, PassedOn, Awaiting, End, RecordAgrees, Registered, Pending,
       NodeTypeOK, Entry
  <1>3. Unasked'
    BY DEF Invoke, Forward, Passes, PassedOn, Awaiting, End, Unasked, NodeTypeOK, Registered,
       Pending
  <1>4. FlagAgrees'
    BY DEF Invoke, Forward, Passes, PassedOn, Awaiting, End, FlagAgrees, Waived, NodeTypeOK,
       RecordAgrees, Registered, Pending, Unasked
  <1>5. GoingOn'
    BY DEF Invoke, Forward, Passes, PassedOn, Awaiting, End, GoingOn, Awaiting, Denied,
       NodeTypeOK, RecordAgrees, Registered, Pending, Unasked
  <1>6. SentApproved'
    <2>1. \A j \in Calls : \A a : Approved(j, a)' <=> Approved(j, a)
      BY DEF Invoke, Forward, Approved, Waived
    <2>2. ASSUME k \in Asking, Passes(k)
          PROVE  Approved(k, PassedOn(k))
      <3>1. told[k] # Unset /\ ~Denied(k)
        BY <2>2 DEF GoingOn, Invoke
      <3>2. CASE flag[k] = Unset
        BY <3>1, <3>2 DEF Approved, PassedOn, Denied, Allowed
      <3>3. CASE flag[k] # Unset /\ approval[k].decision \in Allowed
        BY <2>2, <3>1, <3>3 DEF Passes, PassedOn, Approved, RecordAgrees, Denied, Allowed
      <3>4. CASE flag[k] # Unset /\ approval[k].decision \notin Allowed
        <4>1. k \in Registered /\ approval[k].resolved /\ approval[k].decision = Unset
          BY <2>2, <3>4 DEF Passes
        <4>2. told[k] = "timeout"
          BY <4>1 DEF RecordAgrees
        <4>3. Waived(k)
          BY <4>2, <3>4, <2>2 DEF Passes, FlagAgrees, Allowed
        <4> QED BY <4>2, <4>3, <3>4, <3>1 DEF PassedOn, Approved, Waived, Allowed, Denied
      <3> QED BY <3>2, <3>3, <3>4
    <2>3. ASSUME NEW m \in wire', m.call \in Asking
          PROVE  m \in wire \/ (Passes(k) /\ m = [call |-> k, approved |-> PassedOn(k)])
      BY <2>3 DEF Invoke, Forward
    <2> QED BY <2>1, <2>2, <2>3 DEF SentApproved
  <1>7. ApprovedRuns'
    BY DEF Invoke, Forward, Passes, PassedOn, Awaiting, End, ApprovedRuns, Approved, Waived,
       SentApproved, NodeTypeOK, RecordAgrees, Registered, Pending, Unasked
  <1>8. NoWaitForClosed'
    BY DEF Invoke, Forward, Passes, PassedOn, Awaiting, End, NoWaitForClosed, InvokesPending,
       NodeTypeOK
  <1> QED BY <1>1, <1>2, <1>3, <1>4, <1>5, <1>6, <1>7, <1>8

LEMMA WakeForInv == ASSUME NodeInv, NEW k \in Calls, WakeFor(k), UNCHANGED fallback PROVE NodeInv'
  <1> USE CallAssumption, ConnAssumption, UnsetAssumption DEF NodeInv, approvalVars, connVars
  <1>1. NodeTypeOK'
    BY DEF WakeFor, End, Awaiting, NodeTypeOK, Entry, Decisions, Allowed, Registered, Pending
  <1>2. RecordAgrees'
    BY DEF WakeFor, End, Awaiting, RecordAgrees, Registered, Pending, NodeTypeOK, Entry
  <1>3. Unasked'
    BY DEF WakeFor, End, Awaiting, Unasked, NodeTypeOK, Registered, Pending
  <1>4. FlagAgrees'
    BY DEF WakeFor, End, Awaiting, FlagAgrees, Waived, NodeTypeOK, RecordAgrees, Registered,
       Pending, Unasked
  <1>5. GoingOn'
    BY DEF WakeFor, End, Awaiting, GoingOn, Awaiting, Denied, NodeTypeOK, RecordAgrees,
       Registered, Pending, Unasked
  <1>6. SentApproved'
    BY DEF WakeFor, End, Awaiting, SentApproved, Approved, Waived, NodeTypeOK, RecordAgrees,
       Registered, Pending, Unasked
  <1>7. ApprovedRuns'
    BY DEF WakeFor, End, Awaiting, ApprovedRuns, Approved, Waived, SentApproved, NodeTypeOK,
       RecordAgrees, Registered, Pending, Unasked
  <1>8. NoWaitForClosed'
    BY DEF WakeFor, End, Awaiting, NoWaitForClosed, InvokesPending, NodeTypeOK
  <1> QED BY <1>1, <1>2, <1>3, <1>4, <1>5, <1>6, <1>7, <1>8

LEMMA ResultInv == ASSUME NodeInv, NEW k \in Calls, Result(k), UNCHANGED fallback PROVE NodeInv'
  <1> USE CallAssumption, ConnAssumption, UnsetAssumption DEF NodeInv, approvalVars, connVars
  <1>1. NodeTypeOK'
    BY DEF Result, End, NodeTypeOK, Entry, Decisions, Allowed, Registered, Pending
  <1>2. RecordAgrees'
    BY DEF Result, End, RecordAgrees, Registered, Pending, NodeTypeOK, Entry
  <1>3. Unasked'
    BY DEF Result, End, Unasked, NodeTypeOK, Registered, Pending
  <1>4. FlagAgrees'
    BY DEF Result, End, FlagAgrees, Waived, NodeTypeOK, RecordAgrees, Registered, Pending, Unasked
  <1>5. GoingOn'
    BY DEF Result, End, GoingOn, Awaiting, Denied, NodeTypeOK, RecordAgrees, Registered, Pending,
       Unasked
  <1>6. SentApproved'
    BY DEF Result, End, SentApproved, Approved, Waived, NodeTypeOK, RecordAgrees, Registered,
       Pending, Unasked
  <1>7. ApprovedRuns'
    BY DEF Result, End, ApprovedRuns, Approved, Waived, SentApproved, NodeTypeOK, RecordAgrees,
       Registered, Pending, Unasked
  <1>8. NoWaitForClosed'
    BY DEF Result, End, NoWaitForClosed, InvokesPending, NodeTypeOK
  <1> QED BY <1>1, <1>2, <1>3, <1>4, <1>5, <1>6, <1>7, <1>8

LEMMA InvokeTimesOutInv == ASSUME NodeInv, NEW k \in Calls, InvokeTimesOut(k),
    UNCHANGED fallback PROVE NodeInv'
  <1> USE CallAssumption, ConnAssumption, UnsetAssumption DEF NodeInv, approvalVars, connVars
  <1>1. NodeTypeOK'
    BY DEF InvokeTimesOut, End, NodeTypeOK, Entry, Decisions, Allowed, Registered, Pending
  <1>2. RecordAgrees'
    BY DEF InvokeTimesOut, End, RecordAgrees, Registered, Pending, NodeTypeOK, Entry
  <1>3. Unasked'
    BY DEF InvokeTimesOut, End, Unasked, NodeTypeOK, Registered, Pending
  <1>4. FlagAgrees'
    BY DEF InvokeTimesOut, End, FlagAgrees, Waived, NodeTypeOK, RecordAgrees, Registered, Pending,
       Unasked
  <1>5. GoingOn'
    BY DEF InvokeTimesOut, End, GoingOn, Awaiting, Denied, NodeTypeOK, RecordAgrees, Registered,
       Pending, Unasked
  <1>6. SentApproved'
    BY DEF InvokeTimesOut, End, SentApproved, Approved, Waived, NodeTypeOK, RecordAgrees,
       Registered, Pending, Unasked
  <1>7. ApprovedRuns'
    BY DEF InvokeTimesOut, End, ApprovedRuns, Approved, Waived, SentApproved, NodeTypeOK,
       RecordAgrees, Registered, Pending, Unasked
  <1>8. NoWaitForClosed'
    BY DEF InvokeTimesOut, End, NoWaitForClosed, InvokesPending, NodeTypeOK
  <1> QED BY <1>1, <1>2, <1>3, <1>4, <1>5, <1>6, <1>7, <1>8

LEMMA ConnectInv == ASSUME NodeInv, NEW c \in Conns, Connect(c), UNCHANGED fallback PROVE NodeInv'
  <1> USE CallAssumption, ConnAssumption, UnsetAssumption DEF NodeInv, approvalVars, connVars
  <1>1. NodeTypeOK'
    BY DEF Connect, NodeTypeOK, Entry, Decisions, Allowed, Registered, Pending
  <1>2. RecordAgrees'
    BY DEF Connect, RecordAgrees, Registered, Pending, NodeTypeOK, Entry
  <1>3. Unasked'
    BY DEF Connect, Unasked, NodeTypeOK, Registered, Pending
  <1>4. FlagAgrees'
    BY DEF Connect, FlagAgrees, Waived, NodeTypeOK, RecordAgrees, Registered, Pending, Unasked
  <1>5. GoingOn'
    BY DEF Connect, GoingOn, Awaiting, Denied, NodeTypeOK, RecordAgrees, Registered, Pending,
       Unasked
  <1>6. SentApproved'
    BY DEF Connect, SentApproved, Approved, Waived, NodeTypeOK, RecordAgrees, Registered, Pending,
       Unasked
  <1>7. ApprovedRuns'
    BY DEF Connect, ApprovedRuns, Approved, Waived, SentApproved, NodeTypeOK, RecordAgrees,
       Registered, Pending, Unasked
  <1>8. NoWaitForClosed'
    BY DEF Connect, NoWaitForClosed, InvokesPending, NodeTypeOK
  <1> QED BY <1>1, <1>2, <1>3, <1>4, <1>5, <1>6, <1>7, <1>8

LEMMA LostInv == ASSUME NodeInv, NEW c \in Conns, Lost(c), UNCHANGED fallback PROVE NodeInv'
  <1> USE CallAssumption, ConnAssumption, UnsetAssumption DEF NodeInv, approvalVars, connVars
  <1>1. NodeTypeOK'
    BY DEF Lost, NodeTypeOK, Entry, Decisions, Allowed, Registered, Pending
  <1>2. RecordAgrees'
    BY DEF Lost, RecordAgrees, Registered, Pending, NodeTypeOK, Entry
  <1>3. Unasked'
    BY DEF Lost, Unasked, NodeTypeOK, Registered, Pending
  <1>4. FlagAgrees'
    BY DEF Lost, FlagAgrees, Waived, NodeTypeOK, RecordAgrees, Registered, Pending, Unasked
  <1>5. GoingOn'
    BY DEF Lost, GoingOn, Awaiting, Denied, NodeTypeOK, RecordAgrees, Registered, Pending, Unasked
  <1>6. SentApproved'
    BY DEF Lost, SentApproved, Approved, Waived, NodeTypeOK, RecordAgrees, Registered, Pending,
       Unasked
  <1>7. ApprovedRuns'
    BY DEF Lost, ApprovedRuns, Approved, Waived, SentApproved, NodeTypeOK, RecordAgrees,
       Registered, Pending, Unasked
  <1>8. NoWaitForClosed'
    BY DEF Lost, NoWaitForClosed, InvokesPending, NodeTypeOK
  <1> QED BY <1>1, <1>2, <1>3, <1>4, <1>5, <1>6, <1>7, <1>8

LEMMA ClosedInv == ASSUME NodeInv, NEW c \in Conns, Closed(c), UNCHANGED fallback PROVE NodeInv'
  <1> USE CallAssumption, ConnAssumption, UnsetAssumption DEF NodeInv, approvalVars, connVars
  <1>1. NodeTypeOK'
    BY DEF Closed, NodeTypeOK, Entry, Decisions, Allowed, Registered, Pending
  <1>2. RecordAgrees'
    BY DEF Closed, RecordAgrees, Registered, Pending, NodeTypeOK, Entry
  <1>3. Unasked'
    BY DEF Closed, Unasked, NodeTypeOK, Registered, Pending
  <1>4. FlagAgrees'
    BY DEF Closed, FlagAgrees, Waived, NodeTypeOK, RecordAgrees, Registered, Pending, Unasked
  <1>5. GoingOn'
    BY DEF Closed, GoingOn, Awaiting, Denied, NodeTypeOK, RecordAgrees, Registered, Pending, Unasked
  <1>6. SentApproved'
    BY DEF Closed, SentApproved, Approved, Waived, NodeTypeOK, RecordAgrees, Registered, Pending,
       Unasked
  <1>7. ApprovedRuns'
    BY DEF Closed, ApprovedRuns, Approved, Waived, SentApproved, NodeTypeOK, RecordAgrees,
       Registered, Pending, Unasked
  <1>8. NoWaitForClosed'
    BY DEF Closed, NoWaitForClosed, InvokesPending, NodeTypeOK
  <1> QED BY <1>1, <1>2, <1>3, <1>4, <1>5, <1>6, <1>7, <1>8

LEMMA RunsInv == ASSUME NodeInv, NEW m \in wire, Runs(m), UNCHANGED fallback PROVE NodeInv'
  <1> USE CallAssumption, ConnAssumption, UnsetAssumption DEF NodeInv, approvalVars, connVars
  <1>1. NodeTypeOK'
    BY DEF Runs, NodeTypeOK, Entry, Decisions, Allowed, Registered, Pending
  <1>2. RecordAgrees'
    BY DEF Runs, RecordAgrees, Registered, Pending, NodeTypeOK, Entry
  <1>3. Unasked'
    BY DEF Runs, Unasked, NodeTypeOK, Registered, Pending
  <1>4. FlagAgrees'
    BY DEF Runs, FlagAgrees, Waived, NodeTypeOK, RecordAgrees, Registered, Pending, Unasked
  <1>5. GoingOn'
    BY DEF Runs, GoingOn, Awaiting, Denied, NodeTypeOK, RecordAgrees, Registered, Pending, Unasked
  <1>6. SentApproved'
    BY DEF Runs, SentApproved, Approved, Waived, NodeTypeOK, RecordAgrees, Registered, Pending,
       Unasked
  <1>7. ApprovedRuns'
    BY DEF Runs, ApprovedRuns, Approved, Waived, SentApproved, NodeTypeOK, RecordAgrees,
       Registered, Pending, Unasked
  <1>8. NoWaitForClosed'
    BY DEF Runs, NoWaitForClosed, InvokesPending, NodeTypeOK
  <1> QED BY <1>1, <1>2, <1>3, <1>4, <1>5, <1>6, <1>7, <1>8

-----------------------------------------------------------------------------
LEMMA NodeInitInv == NodeInit => NodeInv
  <1> SUFFICES ASSUME NodeInit PROVE NodeInv
    OBVIOUS
  <1>1. NodeTypeOK
    BY DEF NodeInit, NodeTypeOK
  <1>2. NoWaitForClosed
    BY DEF NodeInit, NoWaitForClosed, InvokesPending
  <1>3. RecordAgrees /\ Unasked /\ FlagAgrees
    BY DEF NodeInit, RecordAgrees, Registered, Unasked, FlagAgrees
  <1>4. GoingOn /\ SentApproved /\ ApprovedRuns
    BY CallAssumption DEF NodeInit, GoingOn, Awaiting, SentApproved, ApprovedRuns
  <1> QED BY <1>1, <1>2, <1>3, <1>4 DEF NodeInv

LEMMA NodeNextInv == NodeInv /\ [NodeNext]_nodeVars => NodeInv'
  <1> SUFFICES ASSUME NodeInv, [NodeNext]_nodeVars PROVE NodeInv'
    OBVIOUS
  <1>1. ASSUME NEW k \in Calls, CallStep(k), UNCHANGED fallback
        PROVE  NodeInv'
    BY <1>1, AskInv, ResolveInv, TimesOutInv, GraceEndsInv, ClockInv, AskFailsInv, ToldInv,
       DirectInv, InvokeInv, WakeForInv, ResultInv, InvokeTimesOutInv DEF CallStep
  <1>2. ASSUME NEW c \in Conns, Connect(c) \/ Lost(c) \/ Closed(c), UNCHANGED fallback
        PROVE  NodeInv'
    BY <1>2, ConnectInv, LostInv, ClosedInv
  <1>3. ASSUME NEW m \in wire, Runs(m), UNCHANGED fallback
        PROVE  NodeInv'
    BY <1>3, RunsInv
  <1>4. CASE UNCHANGED nodeVars
    BY <1>4 DEF nodeVars, NodeInv, NodeTypeOK, RecordAgrees, Registered, Unasked, FlagAgrees,
       Waived, GoingOn,
                Awaiting, Denied, SentApproved, Approved, ApprovedRuns, NoWaitForClosed,
                InvokesPending
  <1> QED BY <1>1, <1>2, <1>3, <1>4 DEF NodeNext

(* The inductive invariant holds in every reachable state.                 *)
THEOREM NodeSpecInv == NodeSpec => []NodeInv
  BY NodeInitInv, NodeNextInv, PTL DEF NodeSpec

(* What a node runs was approved, or nobody answered and askFallback lets  *)
(* it pass, in whatever order the decision, the timeout, the removal of    *)
(* the record and the node's connections come                              *)
(* (node-invoke-system-run-approval.ts 151-250).                           *)
THEOREM SpecApprovedRuns == NodeSpec => []ApprovedRuns
  <1>1. NodeInv => ApprovedRuns
    BY DEF NodeInv
  <1> QED BY <1>1, NodeSpecInv, PTL

(* The record of an approval and the answer to those who wait for it agree *)
(* for as long as there is a record (exec-approval-manager.ts 64-141).     *)
THEOREM SpecRecordsSound == NodeSpec => []RecordsSound
  <1>1. NodeInv => RecordsSound
    BY DEF NodeInv, RecordsSound
  <1> QED BY <1>1, NodeSpecInv, PTL

(* No call waits for a connection that has closed, and no closed           *)
(* connection is the node's session (node-registry.ts 43-97).              *)
THEOREM SpecNoWaitForClosed == NodeSpec => []NoWaitForClosed
  <1>1. NodeInv => NoWaitForClosed
    BY DEF NodeInv
  <1> QED BY <1>1, NodeSpecInv, PTL

(* What was told is never revoked, neither by a late decision nor by the   *)
(* timer (exec-approval-manager.ts 88-131).                                *)
THEOREM SpecDecisionFinal == NodeSpec => DecisionFinal
  <1> DEFINE Kept == \A k \in Calls : told[k] # Unset => told'[k] = told[k]
  <1>1. NodeInv /\ NodeNext => Kept
    <2> SUFFICES ASSUME NodeInv, NodeNext, NEW k \in Calls, told[k] # Unset
                 PROVE  told'[k] = told[k]
      OBVIOUS
    <2>1. ASSUME NEW j \in Calls, NEW d \in Decisions, Resolve(j, d)
          PROVE  told'[k] = told[k]
      BY <2>1 DEF Resolve, Pending, Registered, NodeInv, NodeTypeOK, RecordAgrees
    <2>2. ASSUME NEW j \in Calls, TimesOut(j)
          PROVE  told'[k] = told[k]
      BY <2>2 DEF TimesOut, Pending, Registered, NodeInv, NodeTypeOK, RecordAgrees
    <2>3. ASSUME NEW j \in Calls, CallStep(j)
          PROVE  told'[k] = told[k]
      BY <2>1, <2>2, <2>3 DEF CallStep, Ask, GraceEnds, Clock, AskFails, Told, Direct, Invoke,
         Forward, WakeFor, Result, InvokeTimesOut, approvalVars
    <2>4. ASSUME NEW c \in Conns, Connect(c) \/ Lost(c) \/ Closed(c)
          PROVE  told'[k] = told[k]
      BY <2>4 DEF Connect, Lost, Closed, approvalVars
    <2>5. ASSUME NEW m \in wire, Runs(m)
          PROVE  told'[k] = told[k]
      BY <2>5 DEF Runs, approvalVars
    <2> QED BY <2>3, <2>4, <2>5 DEF NodeNext
  <1>2. NodeInv /\ [NodeNext]_nodeVars => [Kept]_nodeVars
    BY <1>1
  <1> QED BY <1>2, NodeSpecInv, PTL DEF NodeSpec, DecisionFinal

=============================================================================
