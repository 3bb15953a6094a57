---------------------------- MODULE CronService ----------------------------
(***************************************************************************)
(* The cron service of src/cron/service/*: one job store on disk, and in a *)
(* process one or more services, each with a copy of the store in memory,  *)
(* one timer and at most one tick in progress.                             *)
(*                                                                         *)
(* Every operation runs under `locked', whose chain is shared by all the   *)
(* services of a process that use the same store.  An operation that only  *)
(* loads, computes and saves is one step; run() and start() execute jobs   *)
(* inside the lock and hold it meanwhile; the jobs of a tick are executed  *)
(* outside, between the locked block that marks them and the one that      *)
(* applies their results.  An operation enters the model when it gets the  *)
(* lock; the requests of ticks and of start() wait in the queue.           *)
(*                                                                         *)
(* A configuration reload (and a restart within the process) stops the     *)
(* current service and starts another one; the old one's tick goes on.     *)
(* Time is counted in units of a fraction of the period and ends at        *)
(* MaxTime, where timers that are set for later fire.  Payloads, delivery, *)
(* staggering and schedules that cannot be computed are left out, as are   *)
(* saves that fail outside of a tick.                                      *)
(***************************************************************************)
EXTENDS Integers, FiniteSets, Sequences

CONSTANTS
    Jobs,              \* job ids
    Specs,             \* schedules that a user may give: records of Schedule
    InitialSpecs,      \* InitialSpecs[j]: schedule of j on the initial disk, or NoJob
    Outcomes,          \* bound: how an execution may end, among Status
    MaxTime,           \* bound: the last instant
    Period,            \* of "every" and "cron" schedules
    MaxConcurrentRuns, \* cron.maxConcurrentRuns
    MaxTimerDelay,     \* MAX_TIMER_DELAY_MS
    MinRefireGap,      \* MIN_REFIRE_GAP_MS
    StuckRun,          \* STUCK_RUN_MS
    Backoff,           \* Backoff[n]: errorBackoffMs after n errors, the last one repeated
    MaxServices,       \* bound: services per process
    MaxOps,            \* bound: operations by users
    MaxIncidents,      \* bound: ends of the process, reloads and saves that fail, together
    None, NoJob, NoStore

Status == {"ok", "error", "skipped"}
Times == 1 .. MaxTime
Services == 1 .. MaxServices
MaxErrors == Len(Backoff)

ASSUME BoundsAssumption ==
    /\ Outcomes \subseteq Status
    /\ MaxTime \in Nat \ {0} /\ Period \in Nat \ {0} /\ MaxConcurrentRuns \in Nat \ {0}
    /\ MaxTimerDelay \in Nat \ {0} /\ MinRefireGap \in Nat /\ StuckRun \in Nat
    /\ MaxServices \in Nat \ {0} /\ MaxOps \in Nat /\ MaxIncidents \in Nat
VARIABLES
    now,
    disk,      \* the job store on disk
    fresh,     \* job ids not given out yet
    mem,       \* mem[s]: state.store of service s
    timer,     \* timer[s]: when its timer fires
    life,      \* life[s]: "none", "new" until start() has the lock, "starting", "on"
    current,   \* the service the gateway uses
    phase,     \* phase[s]: where its onTimer is
    entry,     \* entry[s][j]: j in the tick of s
    holder,    \* the execution inside the lock: run() or the missed jobs of start()
    queue,     \* the requests that wait for the lock, first come first served
    ops, incidents,
    faulty,    \* observation: a save failed in this process
    excused    \* observation: excused[s]: jobs of its last tick whose marker was
               \* cleared before their result was applied

vars == <<now, disk, fresh, mem, timer, life, current, phase, entry, holder,
          queue, ops, incidents, faulty, excused>>

Kinds == {"at", "every", "cron"}
Schedule == [kind : Kinds, at : Nat, deleteAfterRun : BOOLEAN]
Maybe(S) == S \cup {None}

Job == [ spec : Schedule, enabled : BOOLEAN, next : Maybe(Nat), running : Maybe(Nat),
         last : Maybe(Status), errors : 0 .. MaxErrors ]
Store == [Jobs -> Job \cup {NoJob}]
Entry == [step : {"none", "waiting", "running", "done"}, status : Maybe(Status), endedAt : Maybe(Times)]
EntryAt(step) == [step |-> step, status |-> None, endedAt |-> None]
Idle == [j \in Jobs |-> EntryAt("none")]

Request == [svc : Services, for : {"start", "mark", "apply"}]
Execution == [svc : Services, job : Jobs, kind : {"run", "start"}, rest : SUBSET Jobs]

ASSUME ScheduleAssumption ==
    /\ Specs \subseteq Schedule
    /\ InitialSpecs \in [Jobs -> Schedule \cup {NoJob}]
    /\ Backoff \in Seq(Nat) \ {<<>>}
ASSUME NoneAssumption ==
    /\ None \notin Int \cup Execution
    /\ NoJob \notin Job
    /\ NoStore \notin Store

Present(store) == {j \in Jobs : store[j] # NoJob}

-----------------------------------------------------------------------------
(* Schedules.                                                              *)

Least(S) == CHOOSE m \in S : \A n \in S : m <= n
Greater(a, b) == IF a >= b THEN a ELSE b

\* "every": the next multiple of the period after the anchor, the present one included
NextEvery(t) ==
    LET steps == (t + Period - 1) \div Period
    IN  Period * (IF steps < 1 THEN 1 ELSE steps)

\* "cron": the next multiple, strictly later
NextCron(t) == Period * (t \div Period + 1)

(* computeJobNextRunAtMs *)
NextRun(job, t) ==
    IF ~job.enabled THEN None
    ELSE CASE job.spec.kind = "every" -> NextEvery(t)
           [] job.spec.kind = "at" -> IF job.last = "ok" THEN None ELSE job.spec.at
           [] job.spec.kind = "cron" -> NextCron(t)

IsDue(job) == job.next # None /\ now >= job.next

(* isRunnableJob *)
IsRunnable(job) == job.enabled /\ job.running = None /\ IsDue(job)

Runnable(store) == {j \in Present(store) : IsRunnable(store[j])}

(* normalizeJobTickState *)
IsStuck(job) == job.running # None /\ now - job.running > StuckRun

Normalized(job) ==
    IF ~job.enabled THEN [job EXCEPT !.next = None, !.running = None]
    ELSE IF IsStuck(job) THEN [job EXCEPT !.running = None] ELSE job

(* walkSchedulableJobs and recomputeJobNextRunAtMs, for the jobs in `chosen' *)
Recomputed(store, chosen) ==
    [j \in Jobs |->
        IF store[j] = NoJob THEN NoJob
        ELSE LET job == Normalized(store[j])
             IN  IF job.enabled /\ j \in chosen
                 THEN [job EXCEPT !.next = NextRun(job, now)] ELSE job]

Missing(store) == {j \in Present(store) : store[j].next = None}
Past(store) == {j \in Present(store) : IsDue(store[j])}

(* recomputeNextRuns: a next run that is past is moved on *)
WithNextRuns(store) == Recomputed(store, Missing(store) \cup Past(store))

(* [mutant] the maintenance moves past runs on as well *)
MaintainedLikeFull(store) == WithNextRuns(store)

(* recomputeNextRunsForMaintenance: only what is missing is computed *)
Maintained(store) == Recomputed(store, Missing(store))

(* applyJobResult; NoJob when the job is to be deleted *)
Applied(job, status, endedAt) ==
    LET errors == IF status # "error" THEN 0
                  ELSE IF job.errors < MaxErrors THEN job.errors + 1 ELSE MaxErrors
        done == [job EXCEPT !.running = None, !.last = status, !.errors = errors]
        natural == NextRun(done, endedAt)
        next == CASE ~job.enabled -> None
                  [] job.enabled /\ status = "error" -> Greater(natural, endedAt + Backoff[errors])
                  [] job.enabled /\ status # "error" /\ job.spec.kind = "cron" ->
                        Greater(natural, endedAt + MinRefireGap)
                  [] OTHER -> natural
    IN  IF job.spec.kind # "at" THEN [done EXCEPT !.next = next]
        ELSE IF job.spec.deleteAfterRun /\ status = "ok" THEN NoJob
        ELSE [done EXCEPT !.enabled = FALSE, !.next = None]

NextWakes(store) ==
    {store[j].next : j \in {i \in Present(store) : store[i].enabled /\ store[i].next # None}}

(* [mutant] no timer for what is due already *)
ArmedAhead(store) ==
    LET wakes == {t \in NextWakes(store) : t > now}
    IN  IF wakes = {} THEN None ELSE Least({Least(wakes), now + MaxTimerDelay, MaxTime})

(* armTimer, with nextWakeAtMs *)
Armed(store) ==
    LET wakes == NextWakes(store)
    IN  IF wakes = {} THEN None
        ELSE Least({Greater(Least(wakes), now), now + MaxTimerDelay, MaxTime})

-----------------------------------------------------------------------------
Created(spec, t) ==
    LET job == [ spec |-> spec, enabled |-> TRUE, next |-> None, running |-> None,
                 last |-> None, errors |-> 0 ]
    IN  [job EXCEPT !.next = NextRun(job, t)]

Booted ==
    /\ mem' = [s \in Services |-> NoStore]
    /\ timer' = [s \in Services |-> None]
    /\ life' = [s \in Services |-> IF s = 1 THEN "new" ELSE "none"]
    /\ current' = 1
    /\ phase' = [s \in Services |-> "idle"]
    /\ entry' = [s \in Services |-> Idle]
    /\ holder' = None
    /\ queue' = <<[svc |-> 1, for |-> "start"]>>
    /\ faulty' = FALSE
    /\ excused' = [s \in Services |-> {}]

Init ==
    /\ now = 1
    /\ disk = [j \in Jobs |-> IF InitialSpecs[j] = NoJob THEN NoJob
                              ELSE Created(InitialSpecs[j], 0)]
    /\ fresh = {j \in Jobs : InitialSpecs[j] = NoJob}
    /\ mem = [s \in Services |-> NoStore]
    /\ timer = [s \in Services |-> None]
    /\ life = [s \in Services |-> IF s = 1 THEN "new" ELSE "none"]
    /\ current = 1
    /\ phase = [s \in Services |-> "idle"]
    /\ entry = [s \in Services |-> Idle]
    /\ holder = None
    /\ queue = <<[svc |-> 1, for |-> "start"]>>
    /\ ops = 0 /\ incidents = 0 /\ faulty = FALSE
    /\ excused = [s \in Services |-> {}]

LockFree == holder = None

Requests(s, what) == queue' = Append(queue, [svc |-> s, for |-> what])
Granted(s, what) ==
    /\ LockFree /\ queue # <<>> /\ Head(queue) = [svc |-> s, for |-> what]
    /\ queue' = Tail(queue)

Incident == incidents < MaxIncidents /\ incidents' = incidents + 1

(* Keep the store in memory and save it. *)
Save(s, store) ==
    /\ mem' = [mem EXCEPT ![s] = store]
    /\ disk' = store

Arm(s, store) == timer' = [timer EXCEPT ![s] = Armed(store)]

\* jobs in the tick of s whose marker a step that leaves store clears
Unmarked(s, store) ==
    {j \in Jobs : /\ entry[s][j].step # "none"
                  /\ mem[s][j] # NoJob /\ mem[s][j].running # None
                  /\ store[j] # NoJob /\ store[j].running = None}
Excuse(s, store) == excused' = [excused EXCEPT ![s] = @ \cup Unmarked(s, store)]

SavesMayFail(s, store) ==
    \/ Save(s, store) /\ UNCHANGED <<incidents, faulty>>
    \/ /\ Incident /\ faulty' = TRUE
       /\ mem' = [mem EXCEPT ![s] = store]
       /\ UNCHANGED disk

-----------------------------------------------------------------------------
(* The timer and its tick.                                                 *)

(* onTimer, to its locked block *)
TimerFires(s) ==
    /\ timer[s] # None /\ now >= timer[s]
    /\ \/ /\ phase[s] # "idle"
          /\ timer' = [timer EXCEPT ![s] = Least({now + MaxTimerDelay, MaxTime})]
          /\ UNCHANGED <<phase, queue>>
       \/ /\ phase[s] = "idle"
          /\ Requests(s, "mark")
          /\ timer' = [timer EXCEPT ![s] = None]
          /\ phase' = [phase EXCEPT ![s] = "mark"]
    /\ UNCHANGED <<now, disk, fresh, mem, life, current, entry, holder, ops, incidents, faulty, excused>>

Marked(store, S) ==
    [j \in Jobs |-> IF j \in S THEN [store[j] EXCEPT !.running = now] ELSE store[j]]

(* onTimer: reload the store and mark the due jobs, or maintain it. *)
TickMark(s) ==
    /\ Granted(s, "mark")
    /\ LET due == Runnable(disk) IN
       \/ /\ due = {}
          /\ Save(s, Maintained(disk))
          /\ phase' = [phase EXCEPT ![s] = "finish"]
          /\ UNCHANGED <<entry, incidents, faulty>>
       \/ /\ due # {}
          /\ SavesMayFail(s, Marked(disk, due))
          /\ \/ /\ incidents' = incidents
                /\ phase' = [phase EXCEPT ![s] = "run"]
                /\ entry' = [entry EXCEPT ![s] =
                                [j \in Jobs |-> EntryAt(IF j \in due THEN "waiting" ELSE "none")]]
             \/ /\ incidents' # incidents
                /\ phase' = [phase EXCEPT ![s] = "finish"]
                /\ UNCHANGED entry
    /\ excused' = [excused EXCEPT ![s] = {}]
    /\ UNCHANGED <<now, fresh, timer, life, current, holder, ops>>

(* runDueJob begins: the marker is set again, in memory. *)
StartDue(s, j) ==
    /\ entry[s][j].step = "waiting"
    /\ Cardinality({i \in Jobs : entry[s][i].step = "running"}) < MaxConcurrentRuns
    /\ entry' = [entry EXCEPT ![s][j] = EntryAt("running")]
    /\ mem' = IF mem[s][j] = NoJob THEN mem ELSE [mem EXCEPT ![s] = Marked(mem[s], {j})]
    /\ UNCHANGED <<now, disk, fresh, timer, life, current, phase, holder, queue, ops, incidents, faulty, excused>>

(* runDueJob ends, by its own result or its timeout ("error"). *)
EndDue(s, j, status) ==
    /\ entry[s][j].step = "running"
    /\ entry' = [entry EXCEPT ![s][j] = [step |-> "done", status |-> status, endedAt |-> now]]
    /\ IF \A i \in Jobs \ {j} : entry[s][i].step \notin {"waiting", "running"}
       THEN phase' = [phase EXCEPT ![s] = "apply"] /\ Requests(s, "apply")
       ELSE UNCHANGED <<phase, queue>>
    /\ UNCHANGED <<now, disk, fresh, mem, timer, life, current, holder, ops, incidents, faulty, excused>>

(* onTimer: reload the store, apply the results and maintain it. *)
TickApply(s) ==
    /\ Granted(s, "apply")
    /\ SavesMayFail(s, Maintained([j \in Jobs |->
            IF disk[j] = NoJob \/ entry[s][j].step = "none" THEN disk[j]
            ELSE Applied(disk[j], entry[s][j].status, entry[s][j].endedAt)]))
    /\ phase' = [phase EXCEPT ![s] = "finish"]
    /\ entry' = [entry EXCEPT ![s] = Idle]
    /\ UNCHANGED <<now, fresh, timer, life, current, holder, ops, excused>>

(* [mutant] the tick ends without a timer *)
TickFinishUnarmed(s) ==
    /\ phase[s] = "finish"
    /\ phase' = [phase EXCEPT ![s] = "idle"]
    /\ UNCHANGED <<now, disk, fresh, mem, timer, life, current, entry, holder, queue, ops, incidents, faulty, excused>>

(* onTimer: its finally block, which arms the timer of a stopped service too *)
TickFinish(s) ==
    /\ phase[s] = "finish"
    /\ phase' = [phase EXCEPT ![s] = "idle"]
    /\ Arm(s, mem[s])
    /\ UNCHANGED <<now, disk, fresh, mem, life, current, entry, holder, queue, ops, incidents, faulty, excused>>

-----------------------------------------------------------------------------
(* Operations of users, on the current service.                            *)

Operation ==
    /\ life[current] = "on" /\ LockFree /\ ops < MaxOps
    /\ ops' = ops + 1
    /\ UNCHANGED <<now, life, current, phase, entry, queue, incidents, faulty>>

(* add *)
Add(j, schedule) ==
    /\ Operation
    /\ j \in fresh /\ fresh' = fresh \ {j}
    /\ LET store == WithNextRuns([mem[current] EXCEPT ![j] = Created(schedule, now)]) IN
       Save(current, store) /\ Arm(current, store) /\ Excuse(current, store)
    /\ UNCHANGED holder

\* what update does after a patch of the schedule or of enabled
Refreshed(job) ==
    IF job.enabled THEN [job EXCEPT !.next = NextRun(job, now)]
    ELSE [job EXCEPT !.next = None, !.running = None]

\* what it does after any other patch
Repaired(job) ==
    IF job.enabled /\ job.next = None THEN [job EXCEPT !.next = NextRun(job, now)] ELSE job

(* update; job is what becomes of j. *)
Update(j, job) ==
    /\ Operation
    /\ LET store == [mem[current] EXCEPT ![j] = job] IN
       Save(current, store) /\ Arm(current, store) /\ Excuse(current, store)
    /\ UNCHANGED <<fresh, holder>>

UpdateOf(j) ==
    /\ mem[current] # NoStore /\ mem[current][j] # NoJob
    /\ \/ \E on \in BOOLEAN : Update(j, Refreshed([mem[current][j] EXCEPT !.enabled = on]))
       \/ \E schedule \in Specs : Update(j, Refreshed([mem[current][j] EXCEPT !.spec = schedule]))
       \/ Update(j, Repaired(mem[current][j]))

(* remove *)
Remove(j) ==
    /\ Operation
    /\ mem[current][j] # NoJob
    /\ LET store == [mem[current] EXCEPT ![j] = NoJob] IN
       Save(current, store) /\ Arm(current, store)
    /\ UNCHANGED <<fresh, holder, excused>>

(* list and status: nothing is saved that the maintenance did not change *)
Read ==
    /\ Operation
    /\ LET store == Maintained(mem[current]) IN
       /\ store # mem[current]
       /\ Save(current, store) /\ Excuse(current, store)
    /\ UNCHANGED <<fresh, timer, holder>>

(* [mutant] run does not ask whether the job runs already *)
RunBeginAgain(j, forced) ==
    /\ Operation
    /\ mem[current][j] # NoJob /\ (forced \/ (mem[current][j].enabled /\ IsDue(mem[current][j])))
    /\ mem' = [mem EXCEPT ![current] = Marked(mem[current], {j})]
    /\ holder' = [svc |-> current, job |-> j, kind |-> "run", rest |-> {}]
    /\ UNCHANGED <<disk, fresh, timer, excused>>

(* run, to the start of the execution; forced or when due *)
RunBegin(j, forced) ==
    /\ Operation
    /\ LET job == mem[current][j] IN
       /\ job # NoJob /\ job.running = None
       /\ forced \/ (job.enabled /\ IsDue(job))
    /\ mem' = [mem EXCEPT ![current] = Marked(mem[current], {j})]
    /\ holder' = [svc |-> current, job |-> j, kind |-> "run", rest |-> {}]
    /\ UNCHANGED <<disk, fresh, timer, excused>>

-----------------------------------------------------------------------------
(* start, and the executions inside the lock.                              *)

(* The end of start() and of run(): recompute, save, arm, leave the lock. *)
Conclude(s, store) ==
    LET final == WithNextRuns(store) IN
    /\ Save(s, final) /\ Arm(s, final) /\ Excuse(s, final)
    /\ holder' = None
    /\ life' = [life EXCEPT ![s] = "on"]

ExecuteMissed(s, store, missed) ==
    \E j \in missed :
        /\ mem' = [mem EXCEPT ![s] = Marked(store, {j})]
        /\ holder' = [svc |-> s, job |-> j, kind |-> "start", rest |-> missed \ {j}]
        /\ life' = [life EXCEPT ![s] = "starting"]
        /\ UNCHANGED <<disk, timer, excused>>

(* start: the markers of an earlier process *)
Unmark(store) ==
    [j \in Jobs |-> IF store[j] = NoJob THEN NoJob ELSE [store[j] EXCEPT !.running = None]]

(* start: clear the markers, run what was missed, but not what was running. *)
Start(s) ==
    /\ Granted(s, "start")
    /\ LET cleared == Unmark(disk)
           missed == {j \in Runnable(cleared) :
                        /\ disk[j].running = None
                        /\ ~(disk[j].spec.kind = "at" /\ disk[j].last # None)}
       IN  \/ /\ missed = {}
              /\ Save(s, WithNextRuns(cleared))
              /\ Arm(s, WithNextRuns(cleared))
              /\ life' = [life EXCEPT ![s] = "on"]
              /\ UNCHANGED <<holder, excused>>
           \/ ExecuteMissed(s, cleared, missed)
    /\ UNCHANGED <<now, fresh, current, phase, entry, ops, incidents, faulty>>

(* executeJob ends inside the lock. *)
ExecutionEnds(status) ==
    /\ holder # None
    /\ LET s == holder.svc
           store == [mem[s] EXCEPT ![holder.job] = Applied(@, status, now)]
       IN  \/ holder.rest # {} /\ ExecuteMissed(s, store, holder.rest)
           \/ holder.rest = {} /\ Conclude(s, store)
    /\ UNCHANGED <<now, fresh, current, phase, entry, queue, ops, incidents, faulty>>

-----------------------------------------------------------------------------
(* A reload stops the current service and starts the next one. *)
Replace ==
    /\ current < MaxServices /\ Incident
    /\ Requests(current + 1, "start")
    /\ timer' = [timer EXCEPT ![current] = None]
    /\ life' = [life EXCEPT ![current + 1] = "new"]
    /\ current' = current + 1
    /\ UNCHANGED <<now, disk, fresh, mem, phase, entry, holder, ops, faulty, excused>>

(* The process ends and is started again. *)
Crash ==
    /\ Incident /\ Booted
    /\ UNCHANGED <<now, disk, fresh, ops>>

Tick ==
    /\ now < MaxTime /\ now' = now + 1
    /\ UNCHANGED <<disk, fresh, mem, timer, life, current, phase, entry, holder, queue, ops, incidents, faulty, excused>>

Internal(s) ==
    \/ TimerFires(s) \/ TickMark(s) \/ TickApply(s) \/ TickFinish(s) \/ Start(s)
    \/ \E j \in Jobs : StartDue(s, j)
    \/ \E j \in Jobs, status \in Outcomes : EndDue(s, j, status)

Command ==
    \/ \E j \in Jobs : \/ \E schedule \in Specs : Add(j, schedule)
                       \/ UpdateOf(j)
                       \/ Remove(j)
                       \/ \E forced \in BOOLEAN : RunBegin(j, forced)
    \/ Read

Next ==
    \/ \E s \in Services : Internal(s)
    \/ \E status \in Outcomes : ExecutionEnds(status)
    \/ Command \/ Replace \/ Crash \/ Tick

(* A service goes on: its timer fires, it is let into the lock (which only
   a bounded number of operations and the executions of others hold), jobs
   end.  Users owe nothing. *)
Fairness ==
    /\ \A s \in Services : WF_vars(Internal(s))
    /\ WF_vars(\E status \in Outcomes : ExecutionEnds(status))

Spec == Init /\ [][Next]_vars /\ Fairness

-----------------------------------------------------------------------------
(* The state of the store, of the services and of the lock. *)
TypeOK ==
    /\ now \in Times /\ disk \in Store /\ fresh \subseteq Jobs
    /\ mem \in [Services -> Store \cup {NoStore}]
    /\ timer \in [Services -> Maybe(Nat)]
    /\ life \in [Services -> {"none", "new", "starting", "on"}]
    /\ current \in Services
    /\ phase \in [Services -> {"idle", "mark", "run", "apply", "finish"}]
    /\ entry \in [Services -> [Jobs -> Entry]]
    /\ holder \in Maybe(Execution)
    /\ queue \in Seq(Request)
    /\ ops \in 0 .. MaxOps /\ incidents \in 0 .. MaxIncidents /\ faulty \in BOOLEAN
    /\ excused \in [Services -> SUBSET Jobs]


(* A service does not execute a job twice at a time: not by run() while a  *)
(* tick has it, nor by a tick while run() has it.  The marker decides, so  *)
(* a job whose marker was cleared under its execution (by disabling it, or *)
(* as stuck) is excused (ops.ts 205-209, timer.ts isRunnableJob).          *)
NoOverlap ==
    (holder # None /\ entry[holder.svc][holder.job].step = "running") =>
        holder.job \in excused[holder.svc]

(* The scheduler does not go to sleep on a job: outside of its ticks and   *)
(* executions the current service has a timer, and the timer fires no      *)
(* later than any of its enabled jobs is due ("silently killing the        *)
(* scheduler", timer.ts onTimer).                                          *)
WakesInTime ==
    (life[current] = "on" /\ phase[current] = "idle" /\ (LockFree \/ holder.svc # current)) =>
        \A j \in Present(mem[current]) :
            (mem[current][j].enabled /\ mem[current][j].next # None) =>
                timer[current] # None /\ timer[current] <= Greater(mem[current][j].next, now)

(* A marker on disk keeps a job from running, for two hours if nobody      *)
(* clears it; while no save failed and no second service shared the store, *)
(* it belongs to a job of a tick in progress or to an earlier process whose *)
(* markers start() is about to clear (ops.ts 40-52, timer.ts onTimer).     *)
MarkerIsOwned ==
    (~faulty /\ current = 1) => \A j \in Present(disk) :
        disk[j].running # None =>
            \E s \in Services : entry[s][j].step # "none" \/ life[s] \in {"new", "starting"}

PastDue(job) == job # NoJob /\ job.enabled /\ job.running = None /\ IsDue(job)

\* a step moves the next run of a job that is due past the run it has not had
Skipped(j) ==
    /\ PastDue(disk[j])
    /\ disk'[j] # NoJob /\ disk'[j].enabled
    /\ (disk'[j].next = None \/ disk'[j].next > now)

(* A job that is due and does not run stays due until it has run: only its *)
(* own result, an update of it and the full recompute of add, run and      *)
(* start move its next run on; ticks and reads never do ("recomputing      *)
(* would cause it to be silently skipped", jobs.ts                         *)
(* recomputeNextRunsForMaintenance), in a process with one service.  A job *)
(* that ran without its marker and whose result could not be saved is      *)
(* excused: the next save of another operation moves it on.                *)
DueJobsKept ==
    [][\A j \in Jobs : (Skipped(j) /\ current = 1) =>
         \/ j \in excused[1]
         \/ \E s \in Services : entry[s][j].step # "none" /\ entry'[s][j].step = "none"
         \/ holder # None /\ holder' = None
         \/ \E s \in Services : life[s] = "new" /\ life'[s] = "on"
         \/ fresh' # fresh
         \/ UpdateOf(j)]_vars

(* A job that is due runs, or is changed or removed, however ticks,        *)
(* operations, reloads, failing saves and a crash interleave (onTimer,     *)
(* armTimer and start).                                                    *)
DueJobsRun == \A j \in Jobs : PastDue(disk[j]) ~> ~PastDue(disk[j])

(* The markers do what they are for: they keep a job from running twice,   *)
(* and none stays behind to keep it from running at all (timer.ts,         *)
(* ops.ts).                                                                *)
MarkersHold == TypeOK /\ NoOverlap /\ MarkerIsOwned

=============================================================================
