------------------------- MODULE CronServiceProofs -------------------------
(* What the cron service keeps, for any number of jobs, services and       *)
(* operations: its markers mean what they say, its timer is early enough   *)
(* and due jobs are not moved past the run they have not had.              *)
EXTENDS CronService, FiniteSetTheorems, SequenceTheorems, TLAPS

(* Only a service that has started has jobs in memory, ticks and a timer.  *)
Lifecycle ==
    \A s \in Services :
        /\ mem[s] # NoStore <=> life[s] \in {"starting", "on"}
        /\ life[s] # "on" =>
              /\ phase[s] = "idle" /\ timer[s] = None
              /\ \A j \in Jobs : entry[s][j].step = "none"
        /\ s > current => life[s] = "none"
        /\ s = current => life[s] # "none"

(* Each request waits for the lock once, and its service waits for it.     *)
QueueSound ==
    /\ \A i, k \in 1 .. Len(queue) : queue[i] = queue[k] => i = k
    /\ \A i \in 1 .. Len(queue) :
          LET s == queue[i].svc IN
          /\ queue[i].for = "start" => life[s] = "new"
          /\ queue[i].for \in {"mark", "apply"} => phase[s] = queue[i].for

(* The entries of a tick, by its phase.                                    *)
EntriesSound ==
    \A s \in Services :
        /\ phase[s] \notin {"run", "apply"} => \A j \in Jobs : entry[s][j].step = "none"
        /\ phase[s] = "apply" => \A j \in Jobs : entry[s][j].step \in {"none", "done"}
        /\ \A j \in Jobs : entry[s][j].step = "done" =>
              entry[s][j].status \in Outcomes /\ entry[s][j].endedAt \in Times

(* The execution inside the lock is of a job of its service, and so are    *)
(* those that follow.                                                      *)
HolderSound ==
    holder # None =>
        LET s == holder.svc IN
        /\ life[s] = IF holder.kind = "start" THEN "starting" ELSE "on"
        /\ mem[s] # NoStore /\ mem[s][holder.job] # NoJob
        /\ holder.job \notin holder.rest /\ \A j \in holder.rest : mem[s][j] # NoJob
        /\ holder.kind = "run" => holder.rest = {}

(* An id that was not given out is nowhere.                                *)
FreshSound ==
    \A j \in fresh :
        /\ disk[j] = NoJob
        /\ \A s \in Services : entry[s][j].step = "none" /\ (mem[s] # NoStore => mem[s][j] = NoJob)

(* An enabled job has a next run, unless it was a one-shot that ran.       *)
Planned(job) ==
    (job # NoJob /\ job.enabled /\ job.next = None) => job.spec.kind = "at" /\ job.last = "ok"
NextKnown ==
    \A j \in Jobs :
        /\ Planned(disk[j])
        /\ \A s \in Services : mem[s] # NoStore => Planned(mem[s][j])

Marker(job) == job # NoJob /\ job.running # None

(* A job in a tick has its marker in memory, or is excused; so is the job  *)
(* of an execution inside the lock that the tick has as well.              *)
MemoryMarked ==
    /\ \A s \in Services, j \in Jobs :
          (entry[s][j].step # "none" /\ mem[s] # NoStore) =>
              mem[s][j] = NoJob \/ Marker(mem[s][j]) \/ j \in excused[s]
    /\ (holder # None /\ entry[holder.svc][holder.job].step # "none") =>
          holder.job \in excused[holder.svc]

(* With one service, the same on disk.                                     *)
DiskMarked ==
    current = 1 => \A j \in Jobs :
        entry[1][j].step # "none" =>
            disk[j] = NoJob \/ Marker(disk[j]) \/ j \in excused[1]

(* With one service and no failed save, there is no marker without its job *)
(* in the tick or in the lock.                                             *)
MarkersUsed ==
    (current = 1 /\ ~faulty /\ mem[1] # NoStore) => \A j \in Jobs :
        /\ (life[1] = "on" /\ Marker(disk[j])) => entry[1][j].step # "none"
        /\ Marker(mem[1][j]) =>
              \/ entry[1][j].step # "none"
              \/ holder # None /\ holder.job = j

(* With one service, memory and disk agree on the next run of a job that   *)
(* has no marker.                                                          *)
Agree ==
    (current = 1 /\ life[1] = "on") => \A j \in Jobs :
        (disk[j] # NoJob /\ disk[j].enabled /\ disk[j].running = None) =>
            \/ mem[1][j] = NoJob \/ ~mem[1][j].enabled
            \/ mem[1][j].next = disk[j].next
            \/ j \in excused[1]

Inv == /\ TypeOK /\ Lifecycle /\ QueueSound /\ EntriesSound /\ HolderSound
       /\ FreshSound /\ NextKnown /\ MemoryMarked /\ DiskMarked /\ MarkersUsed /\ Agree
       /\ WakesInTime

-----------------------------------------------------------------------------
(* The operators on jobs and stores.                                       *)

LEMMA LeastExists ==
  ASSUME NEW S \in SUBSET Nat, S # {}
  PROVE  Least(S) \in S /\ \A n \in S : Least(S) <= n
  <1> DEFINE T == {0 .. n : n \in S}
  <1>1. T # {} /\ T \subseteq FiniteSubsetsOf(Nat)
    <2>1. \A n \in S : 0 .. n \subseteq Nat /\ IsFiniteSet(0 .. n)
      BY FS_Interval
    <2> QED BY <2>1 DEF FiniteSubsetsOf
  <1>2. IsWellFoundedOn(StrictSubsetOrdering(Nat), FiniteSubsetsOf(Nat))
    BY FS_StrictSubsetOrderingWellFounded
  <1> HIDE DEF T
  <1>3. \E x \in T : \A y \in T : ~(<<y, x>> \in StrictSubsetOrdering(Nat))
    BY <1>1, <1>2, WFMin
  <1>4. PICK m \in S : \A n \in S : ~(<<0 .. n, 0 .. m>> \in StrictSubsetOrdering(Nat))
    BY <1>3 DEF T
  <1>5. ASSUME NEW n \in S, n < m
        PROVE  FALSE
    <2>1. 0 .. n \subseteq 0 .. m /\ 0 .. n # 0 .. m /\ 0 .. n \subseteq Nat /\ 0 .. m \subseteq Nat
      <3>1. m \in 0 .. m /\ m \notin 0 .. n
        BY <1>5
      <3> QED BY <3>1, <1>5
    <2>2. <<0 .. n, 0 .. m>> \in StrictSubsetOrdering(Nat)
      BY <2>1, Zenon DEF StrictSubsetOrdering
    <2> QED BY <2>2, <1>4
  <1>6. \E k \in S : \A n \in S : k <= n
    BY <1>4, <1>5
  <1> QED BY <1>6 DEF Least

LEMMA PeriodsType ==
  ASSUME NEW t \in Nat
  PROVE  NextEvery(t) \in Nat /\ NextCron(t) \in Nat
  <1>1. Period \in Nat /\ Period > 0
    BY BoundsAssumption
  <1>2. (t + Period - 1) \div Period \in Int /\ t \div Period \in Nat
    BY <1>1
  <1>3. \A n \in Nat : Period * n \in Nat
    BY <1>1
  <1> QED BY <1>2, <1>3 DEF NextEvery, NextCron

LEMMA NextRunKnown ==
  ASSUME NEW job \in Job, NEW t \in Nat
  PROVE  /\ NextRun(job, t) \in Maybe(Nat)
         /\ job.enabled =>
              (NextRun(job, t) = None <=> job.spec.kind = "at" /\ job.last = "ok")
         /\ ~job.enabled => NextRun(job, t) = None
  <1>1. NextEvery(t) \in Nat /\ NextCron(t) \in Nat
    BY PeriodsType
  <1>2. job.spec.kind \in {"at", "every", "cron"} /\ job.spec.at \in Nat
    BY DEF Job, Schedule, Kinds
  <1>3. None \notin Nat
    BY NoneAssumption
  <1> QED BY <1>1, <1>2, <1>3 DEF NextRun, Maybe

(* What the recomputation does to a job.                                   *)
LEMMA RecomputedJob ==
  ASSUME NEW store \in Store, NEW chosen, NEW j \in Jobs, now \in Nat
  PROVE  LET new == Recomputed(store, chosen)[j] IN
         /\ store[j] = NoJob <=> new = NoJob
         /\ store[j] # NoJob =>
              /\ new \in Job
              /\ new.enabled = store[j].enabled /\ new.spec = store[j].spec /\ new.last = store[j].last
              /\ new.running \in {store[j].running, None}
              /\ ~new.enabled => new.next = None
              /\ (new.enabled /\ j \notin chosen) => new.next = store[j].next
              /\ (new.enabled /\ j \in chosen) =>
                    (new.next = None => store[j].spec.kind = "at" /\ store[j].last = "ok")
              /\ (new.enabled /\ store[j].spec.kind = "at" /\ store[j].last = "ok" /\ j \in chosen) =>
                    new.next = None
  <1> DEFINE old == store[j]
             job == Normalized(old)
             new == Recomputed(store, chosen)[j]
  <1>1. CASE old = NoJob
    BY <1>1 DEF Recomputed
  <1>2. CASE old # NoJob
    <2>1. old \in Job
      BY <1>2 DEF Store
    <2>2. /\ job \in Job
          /\ job.enabled = old.enabled /\ job.spec = old.spec /\ job.last = old.last
          /\ job.running \in {old.running, None}
          /\ ~job.enabled => job.next = None
          /\ job.enabled => job.next = old.next
      BY <2>1 DEF Normalized, Job, Maybe
    <2>3. new = IF job.enabled /\ j \in chosen THEN [job EXCEPT !.next = NextRun(job, now)] ELSE job
      BY <1>2 DEF Recomputed
    <2> HIDE DEF job, new, old
    <2>4. CASE job.enabled /\ j \in chosen
      <3>1. /\ NextRun(job, now) \in Maybe(Nat)
            /\ NextRun(job, now) = None <=> job.spec.kind = "at" /\ job.last = "ok"
        BY <2>2, <2>4, NextRunKnown
      <3>2. /\ new \in Job
            /\ new.enabled = job.enabled /\ new.spec = job.spec /\ new.last = job.last
            /\ new.running = job.running /\ new.next = NextRun(job, now)
        BY <2>2, <2>3, <2>4, <3>1 DEF Job
      <3>3. new # NoJob
        BY <3>2, NoneAssumption
      <3> QED BY <1>2, <2>2, <2>4, <3>1, <3>2, <3>3 DEF old, new
    <2>5. CASE ~(job.enabled /\ j \in chosen)
      <3>1. new = job
        BY <2>3, <2>5
      <3>2. new # NoJob
        BY <3>1, <2>2, NoneAssumption
      <3> QED BY <1>2, <2>2, <2>5, <3>1, <3>2 DEF old, new
    <2> QED BY <2>4, <2>5
  <1> QED BY <1>1, <1>2

LEMMA RecomputedType ==
  ASSUME NEW store \in Store, NEW chosen, now \in Nat
  PROVE  Recomputed(store, chosen) \in Store
  <1>1. \A j \in Jobs : Recomputed(store, chosen)[j] \in Job \cup {NoJob}
    BY RecomputedJob
  <1>2. Recomputed(store, chosen) = [j \in Jobs |-> Recomputed(store, chosen)[j]]
    BY DEF Recomputed
  <1> QED BY <1>1, <1>2 DEF Store

(* A store that the others follow from: typed, its enabled jobs planned.   *)
Sane(store) == store \in Store /\ \A j \in Jobs : Planned(store[j])

LEMMA RecomputedSane ==
  ASSUME NEW store, Sane(store), NEW chosen, now \in Nat
  PROVE  LET new == Recomputed(store, chosen) IN
         /\ Sane(new)
         /\ \A j \in Jobs : /\ new[j] = NoJob <=> store[j] = NoJob
                            /\ Marker(new[j]) => Marker(store[j])
                            /\ new[j] # NoJob => new[j].enabled = store[j].enabled
  <1>1. Recomputed(store, chosen) \in Store
    BY RecomputedType DEF Sane
  <1>2. ASSUME NEW j \in Jobs
        PROVE  LET new == Recomputed(store, chosen) IN
               /\ Planned(new[j])
               /\ new[j] = NoJob <=> store[j] = NoJob
               /\ Marker(new[j]) => Marker(store[j])
               /\ new[j] # NoJob => new[j].enabled = store[j].enabled
    <2>1. store \in Store /\ Planned(store[j])
      BY DEF Sane
    <2> QED BY <2>1, RecomputedJob DEF Planned, Marker
  <1> QED BY <1>1, <1>2 DEF Sane

LEMMA WithNextRunsSane ==
  ASSUME NEW store, Sane(store), now \in Nat
  PROVE  LET new == WithNextRuns(store) IN
         /\ Sane(new)
         /\ \A j \in Jobs : /\ new[j] = NoJob <=> store[j] = NoJob
                            /\ Marker(new[j]) => Marker(store[j])
  BY RecomputedSane DEF WithNextRuns

(* The maintenance leaves the next run of an enabled job alone.            *)
LEMMA MaintainedSane ==
  ASSUME NEW store, Sane(store), now \in Nat
  PROVE  LET new == Maintained(store) IN
         /\ Sane(new)
         /\ \A j \in Jobs : /\ new[j] = NoJob <=> store[j] = NoJob
                            /\ Marker(new[j]) => Marker(store[j])
                            /\ new[j] # NoJob =>
                                  /\ new[j].enabled = store[j].enabled
                                  /\ new[j].enabled => new[j].next = store[j].next
                                  /\ ~new[j].enabled => new[j].next = None
  <1>1. ASSUME NEW j \in Jobs, Maintained(store)[j] # NoJob
        PROVE  /\ Maintained(store)[j].enabled => Maintained(store)[j].next = store[j].next
               /\ ~Maintained(store)[j].enabled => Maintained(store)[j].next = None
    <2>1. store \in Store /\ Planned(store[j])
      BY DEF Sane
    <2>2. store[j] # NoJob
      BY <1>1, <2>1, RecomputedJob DEF Maintained
    <2>3. j \in Missing(store) <=> store[j].next = None
      BY <2>2 DEF Missing, Present
    <2> QED BY <2>1, <2>2, <2>3, RecomputedJob DEF Maintained, Planned
  <1> QED BY <1>1, RecomputedSane DEF Maintained

(* What the result of an execution does to its job.                        *)
LEMMA AppliedJob ==
  ASSUME NEW job \in Job, NEW status \in Outcomes, NEW endedAt \in Times
  PROVE  LET new == Applied(job, status, endedAt) IN
         /\ new \in Job \cup {NoJob}
         /\ ~Marker(new)
         /\ Planned(new)
  <1> DEFINE errors == IF status # "error" THEN 0
                       ELSE IF job.errors < MaxErrors THEN job.errors + 1 ELSE MaxErrors
             done == [job EXCEPT !.running = None, !.last = status, !.errors = errors]
             natural == NextRun(done, endedAt)
             next == CASE ~job.enabled -> None
                       [] job.enabled /\ status = "error" -> Greater(natural, endedAt + Backoff[errors])
                       [] job.enabled /\ status # "error" /\ job.spec.kind = "cron" ->
                             Greater(natural, endedAt + MinRefireGap)
                       [] OTHER -> natural
  <1>1. endedAt \in Nat /\ status \in Status /\ MinRefireGap \in Nat
    BY BoundsAssumption DEF Times
  <1>2. MaxErrors \in Nat \ {0} /\ \A e \in 1 .. MaxErrors : Backoff[e] \in Nat
    <2>1. Backoff \in Seq(Nat) /\ Backoff # <<>>
      BY ScheduleAssumption
    <2>2. Len(Backoff) \in Nat \ {0}
      BY <2>1, EmptySeq
    <2> QED BY <2>1, <2>2, ElementOfSeq DEF MaxErrors
  <1>3. errors \in 0 .. MaxErrors /\ (status = "error" => errors \in 1 .. MaxErrors)
    BY <1>2 DEF Job
  <1> HIDE DEF errors
  <1>4. /\ done \in Job
        /\ done.enabled = job.enabled /\ done.spec = job.spec /\ done.running = None
        /\ done.last = status
    BY <1>1, <1>3 DEF Job, Maybe
  <1>5. CASE job.spec.kind # "at"
    <2> HIDE DEF done
    <2>1. job.enabled => natural \in Nat
      BY <1>1, <1>4, <1>5, NextRunKnown DEF Maybe
    <2>2. job.enabled => next \in Nat
      <3> HIDE DEF natural
      <3>1. status = "error" => Backoff[errors] \in Nat
        BY <1>2, <1>3
      <3> QED BY <1>1, <2>1, <3>1 DEF Greater
    <2>3. ~job.enabled => next = None
      OBVIOUS
    <2>4. Applied(job, status, endedAt) = [done EXCEPT !.next = next]
      BY <1>5 DEF Applied, done, errors
    <2> HIDE DEF next
    <2>5. next \in Maybe(Nat) /\ (job.enabled => next # None) /\ job.enabled \in BOOLEAN
      BY <2>2, <2>3, NoneAssumption DEF Maybe, Job
    <2>6. [done EXCEPT !.next = next] \in Job
      BY <1>4, <2>5 DEF Job
    <2>7. LET new == [done EXCEPT !.next = next] IN
          new.running = None /\ new.enabled = job.enabled /\ new.next = next
      BY <1>4 DEF Job
    <2> QED BY <2>4, <2>5, <2>6, <2>7 DEF Marker, Planned
  <1>6. CASE job.spec.kind = "at"
    <2> HIDE DEF done
    <2>1. Applied(job, status, endedAt) \in {NoJob, [done EXCEPT !.enabled = FALSE, !.next = None]}
      BY <1>6 DEF Applied, done, errors
    <2>2. /\ [done EXCEPT !.enabled = FALSE, !.next = None] \in Job
          /\ [done EXCEPT !.enabled = FALSE, !.next = None].running = None
          /\ ~[done EXCEPT !.enabled = FALSE, !.next = None].enabled
      BY <1>4 DEF Job, Maybe
    <2> QED BY <2>1, <2>2 DEF Marker, Planned
  <1> QED BY <1>5, <1>6

(* The timer is set, and early enough.                                     *)
LEMMA ArmedInTime ==
  ASSUME NEW store \in Store, now \in Times
  PROVE  /\ Armed(store) \in Maybe(Nat)
         /\ \A j \in Present(store) : (store[j].enabled /\ store[j].next # None) =>
               Armed(store) # None /\ Armed(store) <= Greater(store[j].next, now)
  <1>1. now \in Nat /\ MaxTimerDelay \in Nat /\ MaxTime \in Nat /\ None \notin Nat
    BY BoundsAssumption, NoneAssumption DEF Times
  <1>2. NextWakes(store) \in SUBSET Nat
    <2>1. \A j \in Present(store) : store[j].next \in Maybe(Nat)
      BY DEF Present, Store, Job
    <2> QED BY <2>1 DEF NextWakes, Maybe
  <1>3. CASE NextWakes(store) = {}
    BY <1>3 DEF NextWakes, Armed, Maybe
  <1>4. CASE NextWakes(store) # {}
    <2> DEFINE first == Least(NextWakes(store))
               times == {Greater(first, now), now + MaxTimerDelay, MaxTime}
    <2>1. first \in Nat /\ \A n \in NextWakes(store) : first <= n
      BY <1>2, <1>4, LeastExists
    <2>2. times \in SUBSET Nat /\ times # {}
      BY <1>1, <2>1 DEF Greater
    <2>3. Armed(store) = Least(times)
      BY <1>4 DEF Armed
    <2>4. Least(times) \in times /\ Least(times) <= Greater(first, now)
      BY <2>2, LeastExists
    <2>5. Least(times) \in Nat
      BY <2>2, <2>4
    <2> HIDE DEF times, first
    <2>6. ASSUME NEW j \in Present(store), store[j].enabled, store[j].next # None
          PROVE  Armed(store) <= Greater(store[j].next, now)
      <3>1. store[j].next \in NextWakes(store)
        BY <2>6 DEF NextWakes
      <3>2. store[j].next \in Nat /\ first <= store[j].next
        BY <3>1, <1>2, <2>1
      <3> QED BY <1>1, <2>1, <2>3, <2>4, <2>5, <3>2 DEF Greater
    <2> QED BY <1>1, <2>3, <2>5, <2>6 DEF Maybe
  <1> QED BY <1>3, <1>4

LEMMA CreatedJob ==
  ASSUME NEW spec \in Schedule, NEW t \in Nat
  PROVE  /\ Created(spec, t) \in Job /\ Planned(Created(spec, t)) /\ ~Marker(Created(spec, t))
  <1> DEFINE job == [ spec |-> spec, enabled |-> TRUE, next |-> None, running |-> None,
                      last |-> None, errors |-> 0 ]
  <1>1. MaxErrors \in Nat
    <2>1. Backoff \in Seq(Nat)
      BY ScheduleAssumption
    <2> QED BY <2>1, LenProperties DEF MaxErrors
  <1>2. job \in Job /\ job.enabled /\ job.running = None
    BY <1>1 DEF Job, Maybe
  <1>3. Created(spec, t) = [job EXCEPT !.next = NextRun(job, t)]
    BY DEF Created
  <1> HIDE DEF job
  <1>4. /\ NextRun(job, t) \in Maybe(Nat)
        /\ NextRun(job, t) = None => job.spec.kind = "at" /\ job.last = "ok"
    BY <1>2, NextRunKnown
  <1> QED BY <1>2, <1>3, <1>4 DEF Job, Planned, Marker

LEMMA RefreshedJob ==
  ASSUME NEW job \in Job, now \in Nat
  PROVE  /\ Refreshed(job) \in Job /\ Planned(Refreshed(job))
         /\ Marker(Refreshed(job)) => job.running # None
  <1>1. CASE job.enabled
    <2>1. /\ NextRun(job, now) \in Maybe(Nat)
          /\ NextRun(job, now) = None => job.spec.kind = "at" /\ job.last = "ok"
      BY <1>1, NextRunKnown
    <2> QED BY <1>1, <2>1 DEF Refreshed, Job, Planned, Marker
  <1>2. CASE ~job.enabled
    BY <1>2 DEF Refreshed, Job, Planned, Marker, Maybe
  <1> QED BY <1>1, <1>2

LEMMA RepairedJob ==
  ASSUME NEW job \in Job, now \in Nat
  PROVE  /\ Repaired(job) \in Job /\ Planned(Repaired(job))
         /\ Marker(Repaired(job)) => job.running # None
  <1>1. job.enabled =>
          /\ NextRun(job, now) \in Maybe(Nat)
          /\ NextRun(job, now) = None => job.spec.kind = "at" /\ job.last = "ok"
    BY NextRunKnown
  <1> QED BY <1>1 DEF Repaired, Job, Planned, Marker

(* The marker of the jobs in S is set.                                     *)
LEMMA MarkedSane ==
  ASSUME NEW store, Sane(store), NEW S \in SUBSET Present(store), now \in Nat
  PROVE  LET new == Marked(store, S) IN
         /\ Sane(new)
         /\ \A j \in Jobs :
              /\ new[j] = NoJob <=> store[j] = NoJob
              /\ j \in S => Marker(new[j])
              /\ j \notin S => new[j] = store[j]
              /\ new[j] # NoJob => new[j].enabled = store[j].enabled /\ new[j].next = store[j].next
  <1>1. now # None
    BY NoneAssumption
  <1>2. ASSUME NEW j \in Jobs
        PROVE  LET new == Marked(store, S) IN
               /\ new[j] \in Job \cup {NoJob}
               /\ Planned(new[j])
               /\ new[j] = NoJob <=> store[j] = NoJob
               /\ j \in S => Marker(new[j])
               /\ j \notin S => new[j] = store[j]
               /\ new[j] # NoJob => new[j].enabled = store[j].enabled /\ new[j].next = store[j].next
    <2>1. store[j] \in Job \cup {NoJob} /\ Planned(store[j])
      BY DEF Sane, Store
    <2>2. CASE j \in S
      <3>1. store[j] \in Job /\ store[j] # NoJob
        BY <2>1, <2>2 DEF Present
      <3>2. Marked(store, S)[j] = [store[j] EXCEPT !.running = now]
        BY <2>2 DEF Marked
      <3>3. /\ Marked(store, S)[j] \in Job
            /\ Marked(store, S)[j].running = now
            /\ Marked(store, S)[j].enabled = store[j].enabled
            /\ Marked(store, S)[j].next = store[j].next
            /\ Marked(store, S)[j].spec = store[j].spec
            /\ Marked(store, S)[j].last = store[j].last
        BY <3>1, <3>2 DEF Job, Maybe
      <3> QED BY <1>1, <2>1, <2>2, <3>1, <3>3, NoneAssumption DEF Planned, Marker
    <2>3. CASE j \notin S
      <3>1. Marked(store, S)[j] = store[j]
        BY <2>3 DEF Marked
      <3> QED BY <2>1, <2>3, <3>1
    <2> QED BY <2>2, <2>3
  <1>3. Marked(store, S) \in Store
    BY <1>2 DEF Store, Marked
  <1> QED BY <1>2, <1>3 DEF Sane

LEMMA UnmarkSane ==
  ASSUME NEW store, Sane(store)
  PROVE  LET new == Unmark(store) IN
         /\ Sane(new)
         /\ \A j \in Jobs : (new[j] = NoJob <=> store[j] = NoJob) /\ ~Marker(new[j])
  <1>1. ASSUME NEW j \in Jobs
        PROVE  LET new == Unmark(store) IN
               /\ new[j] \in Job \cup {NoJob}
               /\ Planned(new[j])
               /\ new[j] = NoJob <=> store[j] = NoJob
               /\ ~Marker(new[j])
    <2>1. store[j] \in Job \cup {NoJob} /\ Planned(store[j])
      BY DEF Sane, Store
    <2>2. CASE store[j] = NoJob
      BY <2>2 DEF Unmark, Marker, Planned
    <2>3. CASE store[j] # NoJob
      <3>1. Unmark(store)[j] = [store[j] EXCEPT !.running = None]
        BY <2>3 DEF Unmark
      <3>2. /\ Unmark(store)[j] \in Job
            /\ Unmark(store)[j].running = None
            /\ Unmark(store)[j].enabled = store[j].enabled
            /\ Unmark(store)[j].next = store[j].next
            /\ Unmark(store)[j].spec = store[j].spec
            /\ Unmark(store)[j].last = store[j].last
        BY <2>1, <2>3, <3>1 DEF Job, Maybe
      <3> QED BY <2>1, <2>3, <3>2, NoneAssumption DEF Planned, Marker
    <2> QED BY <2>2, <2>3
  <1>2. Unmark(store) \in Store
    BY <1>1 DEF Store, Unmark
  <1> QED BY <1>1, <1>2 DEF Sane

-----------------------------------------------------------------------------
(* What the invariant says of one service.                                 *)
Started(s) == life[s] \in {"starting", "on"}

(* An enabled job of the store finds the timer set in time.                *)
InTime(store, t) ==
    \A j \in Present(store) : (store[j].enabled /\ store[j].next # None) =>
        t # None /\ t <= Greater(store[j].next, now)

(* The jobs in the tick of s keep their marker in store, or are excused.   *)
Covered(s, store, spared) ==
    \A j \in Jobs : entry[s][j].step # "none" =>
        store[j] = NoJob \/ Marker(store[j]) \/ j \in spared

LEMMA Sanity ==
  ASSUME Inv
  PROVE  /\ now \in Nat /\ now \in Times /\ Sane(disk)
         /\ \A s \in Services : Started(s) =>
               Sane(mem[s]) /\ s <= current /\ Covered(s, mem[s], excused[s])
         /\ \A s \in Services : s \in Nat \ {0}
         /\ 1 \in Services /\ current \in Services
  <1>1. /\ now \in Times /\ disk \in Store /\ mem \in [Services -> Store \cup {NoStore}]
        /\ current \in Services /\ life \in [Services -> {"none", "new", "starting", "on"}]
    BY DEF Inv, TypeOK
  <1>2. now \in Nat /\ 1 \in Services /\ \A s \in Services : s \in Nat \ {0}
    BY <1>1, BoundsAssumption DEF Times, Services
  <1>3. ASSUME NEW s \in Services, Started(s)
        PROVE  Sane(mem[s]) /\ s <= current /\ Covered(s, mem[s], excused[s])
    <2>1. mem[s] # NoStore /\ ~(s > current)
      BY <1>3 DEF Started, Inv, Lifecycle
    <2>2. Sane(mem[s])
      BY <1>1, <2>1 DEF Sane, Inv, NextKnown
    <2>3. Covered(s, mem[s], excused[s])
      BY <2>1 DEF Covered, Inv, MemoryMarked
    <2> QED BY <1>1, <1>2, <2>1, <2>2, <2>3
  <1>4. Sane(disk)
    BY <1>1 DEF Sane, Inv, NextKnown
  <1> QED BY <1>1, <1>2, <1>3, <1>4

LEMMA ExcuseCovers ==
  ASSUME Inv, NEW s \in Services, Started(s), NEW store, Excuse(s, store),
         \A j \in Jobs : mem[s][j] = NoJob => store[j] = NoJob \/ entry[s][j].step = "none"
  PROVE  /\ Covered(s, store, excused'[s])
         /\ excused' \in [Services -> SUBSET Jobs]
         /\ \A t \in Services : excused[t] \subseteq excused'[t]
  <1>1. excused \in [Services -> SUBSET Jobs]
    BY DEF Inv, TypeOK
  <1>2. /\ excused' = [excused EXCEPT ![s] = excused[s] \cup Unmarked(s, store)]
        /\ Unmarked(s, store) \subseteq Jobs
    BY DEF Excuse, Unmarked
  <1>3. excused'[s] = excused[s] \cup Unmarked(s, store)
    BY <1>1, <1>2
  <1>4. Covered(s, mem[s], excused[s])
    BY Sanity
  <1>5. Covered(s, store, excused'[s])
    BY <1>3, <1>4 DEF Covered, Unmarked, Marker
  <1> QED BY <1>1, <1>2, <1>3, <1>5

(* An operation, or the end of an execution inside the lock, saves store.  *)
LEMMA SavedInv ==
  ASSUME Inv, NEW s \in Services, Started(s), holder = None \/ holder.svc = s,
         NEW store, Sane(store),
         mem' = [mem EXCEPT ![s] = store], disk' = store,
         holder' = None, life' = [life EXCEPT ![s] = "on"], ops' \in 0 .. MaxOps,
         UNCHANGED <<now, current, phase, entry, queue, incidents, faulty>>,
         fresh' \subseteq fresh, \A j \in fresh' : store[j] = NoJob,
         Covered(s, store, excused'[s]),
         excused' \in [Services -> SUBSET Jobs],
         \A t \in Services : excused[t] \subseteq excused'[t],
         \A j \in Jobs : Marker(store[j]) =>
             Marker(mem[s][j]) /\ (holder # None => j # holder.job),
         timer' \in [Services -> Maybe(Nat)],
         \A t \in Services : t # s => timer'[t] = timer[t],
         (s = current /\ phase[s] = "idle") => InTime(store, timer'[s])
  PROVE  Inv'
  <1>1. store \in Store /\ store # NoStore
    BY NoneAssumption DEF Sane
  <1>2. /\ mem \in [Services -> Store \cup {NoStore}]
        /\ life \in [Services -> {"none", "new", "starting", "on"}]
        /\ mem[s] # NoStore /\ life[s] # "none" /\ life[s] # "new"
        /\ mem'[s] = store /\ life'[s] = "on"
        /\ \A t \in Services : t # s => mem'[t] = mem[t] /\ life'[t] = life[t]
    BY DEF Inv, TypeOK, Lifecycle, Started
  <1>3. current = 1 => s = 1
    BY Sanity
  <1>4. TypeOK'
    BY <1>1 DEF Inv, TypeOK, Maybe
  <1>5. Lifecycle'
    BY <1>1, <1>2 DEF Inv, Lifecycle
  <1>6. QueueSound'
    <2>1. ASSUME NEW i \in 1 .. Len(queue)
          PROVE  queue[i].svc \in Services
      <3>1. queue \in Seq(Request)
        BY DEF Inv, TypeOK
      <3>2. queue[i] \in Request
        BY <3>1, ElementOfSeq
      <3> QED BY <3>2 DEF Request
    <2> QED BY <1>2, <2>1 DEF Inv, QueueSound
  <1>7. EntriesSound'
    BY DEF Inv, EntriesSound, Times
  <1>8. HolderSound'
    BY DEF HolderSound
  <1>9. FreshSound'
    BY <1>2 DEF Inv, FreshSound
  <1>10. NextKnown'
    BY <1>2 DEF Inv, NextKnown, Sane, Planned
  <1>11. MemoryMarked'
    <2>1. ASSUME NEW t \in Services, NEW j \in Jobs, entry[t][j].step # "none", mem'[t] # NoStore
          PROVE  mem'[t][j] = NoJob \/ Marker(mem'[t][j]) \/ j \in excused'[t]
      <3>1. CASE t = s
        BY <2>1, <3>1, <1>2 DEF Covered
      <3>2. CASE t # s
        BY <2>1, <3>2, <1>2 DEF Inv, MemoryMarked
      <3> QED BY <3>1, <3>2
    <2> QED BY <2>1 DEF MemoryMarked, Marker
  <1>12. DiskMarked'
    BY <1>3 DEF DiskMarked, Covered, Marker
  <1>13. MarkersUsed'
    BY <1>1, <1>2, <1>3 DEF Inv, MarkersUsed, Marker
  <1>14. Agree'
    BY <1>2, <1>3 DEF Agree
  <1>15. WakesInTime'
    <2>1. CASE s = current
      BY <2>1, <1>2 DEF WakesInTime, InTime, Greater, Present
    <2>2. CASE s # current
      <3>1. current \in Services
        BY Sanity
      <3> QED BY <2>2, <3>1, <1>2 DEF Inv, WakesInTime, Greater, Present, LockFree
    <2> QED BY <2>1, <2>2
  <1> QED BY <1>4, <1>5, <1>6, <1>7, <1>8, <1>9, <1>10, <1>11, <1>12, <1>13, <1>14, <1>15 DEF Inv

LEMMA ArmIsInTime ==
  ASSUME Inv, NEW s \in Services, NEW store, Sane(store), Arm(s, store)
  PROVE  /\ timer' \in [Services -> Maybe(Nat)]
         /\ \A t \in Services : t # s => timer'[t] = timer[t]
         /\ InTime(store, timer'[s])
  <1>1. timer \in [Services -> Maybe(Nat)] /\ now \in Times
    BY DEF Inv, TypeOK
  <1>2. /\ Armed(store) \in Maybe(Nat)
        /\ \A j \in Present(store) : (store[j].enabled /\ store[j].next # None) =>
              Armed(store) # None /\ Armed(store) <= Greater(store[j].next, now)
    BY <1>1, ArmedInTime DEF Sane
  <1>3. timer' = [timer EXCEPT ![s] = Armed(store)]
    BY DEF Arm
  <1> QED BY <1>1, <1>2, <1>3 DEF InTime

(* What an operation starts from.                                          *)
LEMMA OperationKnown ==
  ASSUME Inv, Operation
  PROVE  /\ current \in Services /\ Started(current) /\ holder = None
         /\ life[current] = "on" /\ life' = [life EXCEPT ![current] = "on"]
         /\ ops' \in 0 .. MaxOps
         /\ UNCHANGED <<now, current, phase, entry, queue, incidents, faulty>>
  <1>1. /\ ops \in 0 .. MaxOps /\ current \in Services
        /\ life \in [Services -> {"none", "new", "starting", "on"}]
    BY DEF Inv, TypeOK
  <1>2. ops' = ops + 1 /\ ops < MaxOps /\ life' = life /\ life[current] = "on"
    BY DEF Operation
  <1>3. life' = [life EXCEPT ![current] = "on"]
    BY <1>1, <1>2
  <1>4. ops' \in 0 .. MaxOps
    BY <1>1, <1>2, BoundsAssumption
  <1> QED BY <1>1, <1>2, <1>3, <1>4 DEF Operation, LockFree, Started

(* One job of the store in memory is replaced.                             *)
LEMMA ReplacedSane ==
  ASSUME NEW old, Sane(old), NEW j \in Jobs, NEW job \in Job \cup {NoJob}, Planned(job)
  PROVE  LET store == [old EXCEPT ![j] = job] IN
         Sane(store) /\ store[j] = job /\ \A i \in Jobs : i # j => store[i] = old[i]
  <1>1. old \in Store /\ \A i \in Jobs : Planned(old[i])
    BY DEF Sane
  <1>2. /\ [old EXCEPT ![j] = job] \in Store
        /\ [old EXCEPT ![j] = job][j] = job
        /\ \A i \in Jobs : i # j => [old EXCEPT ![j] = job][i] = old[i]
    BY <1>1 DEF Store
  <1> QED BY <1>1, <1>2 DEF Sane

LEMMA AddInv ==
  ASSUME Inv, NEW j \in Jobs, NEW schedule \in Specs, Add(j, schedule)
  PROVE  Inv'
  <1> DEFINE old == mem[current]
             added == [old EXCEPT ![j] = Created(schedule, now)]
             store == WithNextRuns(added)
  <1>1. /\ current \in Services /\ Started(current) /\ holder = None
        /\ life' = [life EXCEPT ![current] = "on"] /\ ops' \in 0 .. MaxOps
        /\ UNCHANGED <<now, current, phase, entry, queue, incidents, faulty>>
    BY OperationKnown DEF Add
  <1>2. Sane(old) /\ now \in Nat
    BY <1>1, Sanity
  <1>3. /\ j \in fresh /\ fresh' = fresh \ {j} /\ old[j] = NoJob /\ entry[current][j].step = "none"
        /\ \A i \in fresh : old[i] = NoJob
    <2>1. mem[current] # NoStore
      BY <1>1 DEF Inv, Lifecycle, Started
    <2> QED BY <1>1, <2>1 DEF Add, Inv, FreshSound
  <1>4. /\ Created(schedule, now) \in Job /\ Planned(Created(schedule, now))
        /\ ~Marker(Created(schedule, now))
    BY <1>2, CreatedJob, ScheduleAssumption
  <1>5. /\ Sane(added) /\ added[j] = Created(schedule, now)
        /\ \A i \in Jobs : i # j => added[i] = old[i]
    BY <1>2, <1>4, ReplacedSane
  <1>6. Save(current, store) /\ Arm(current, store) /\ Excuse(current, store) /\ UNCHANGED holder
    BY DEF Add
  <1> HIDE DEF added
  <1>7. Sane(store) /\ \A i \in Jobs : /\ store[i] = NoJob <=> added[i] = NoJob
                                       /\ Marker(store[i]) => Marker(added[i])
    BY <1>2, <1>5, WithNextRunsSane
  <1> HIDE DEF store, old
  <1>8. \A i \in Jobs : /\ old[i] = NoJob => store[i] = NoJob \/ entry[current][i].step = "none"
                        /\ Marker(store[i]) => Marker(old[i])
    BY <1>3, <1>4, <1>5, <1>7
  <1>9. \A i \in fresh' : store[i] = NoJob
    <2>1. fresh \subseteq Jobs
      BY DEF Inv, TypeOK
    <2> QED BY <1>3, <1>5, <1>7, <2>1
  <1>10. /\ Covered(current, store, excused'[current])
         /\ excused' \in [Services -> SUBSET Jobs]
         /\ \A t \in Services : excused[t] \subseteq excused'[t]
    BY <1>1, <1>6, <1>8, ExcuseCovers DEF old
  <1>11. /\ timer' \in [Services -> Maybe(Nat)]
         /\ \A t \in Services : t # current => timer'[t] = timer[t]
         /\ InTime(store, timer'[current])
    BY <1>1, <1>6, <1>7, ArmIsInTime
  <1>12. mem' = [mem EXCEPT ![current] = store] /\ disk' = store /\ holder' = None
    BY <1>1, <1>6 DEF Save
  <1>13. fresh' \subseteq fresh
    BY <1>3
  <1> QED BY <1>1, <1>7, <1>8, <1>9, <1>10, <1>11, <1>12, <1>13, SavedInv DEF old

LEMMA UpdateInv ==
  ASSUME Inv, NEW j \in Jobs, mem[current][j] # NoJob, NEW job \in Job, Planned(job),
         Marker(job) => mem[current][j].running # None, Update(j, job)
  PROVE  Inv'
  <1> DEFINE old == mem[current]
             store == [old EXCEPT ![j] = job]
  <1>1. /\ current \in Services /\ Started(current) /\ holder = None
        /\ life' = [life EXCEPT ![current] = "on"] /\ ops' \in 0 .. MaxOps
        /\ UNCHANGED <<now, current, phase, entry, queue, incidents, faulty>>
    BY OperationKnown DEF Update
  <1>2. Sane(old)
    BY <1>1, Sanity
  <1>3. /\ Save(current, store) /\ Arm(current, store) /\ Excuse(current, store)
        /\ UNCHANGED <<fresh, holder>>
    BY DEF Update
  <1>4. Sane(store) /\ store[j] = job /\ \A i \in Jobs : i # j => store[i] = old[i]
    BY <1>2, ReplacedSane
  <1> HIDE DEF store
  <1>5. \A i \in Jobs : /\ old[i] = NoJob => store[i] = NoJob \/ entry[current][i].step = "none"
                        /\ Marker(store[i]) => Marker(old[i])
    BY <1>4 DEF Marker
  <1>6. \A i \in fresh' : store[i] = NoJob
    <2>1. fresh \subseteq Jobs /\ \A i \in fresh : old[i] = NoJob
      BY <1>1 DEF Inv, TypeOK, FreshSound, Lifecycle, Started
    <2> QED BY <1>3, <1>4, <2>1
  <1> HIDE DEF old
  <1>7. /\ Covered(current, store, excused'[current])
        /\ excused' \in [Services -> SUBSET Jobs]
        /\ \A t \in Services : excused[t] \subseteq excused'[t]
    BY <1>1, <1>3, <1>5, ExcuseCovers DEF old
  <1>8. /\ timer' \in [Services -> Maybe(Nat)]
        /\ \A t \in Services : t # current => timer'[t] = timer[t]
        /\ InTime(store, timer'[current])
    BY <1>1, <1>3, <1>4, ArmIsInTime
  <1>9. /\ mem' = [mem EXCEPT ![current] = store] /\ disk' = store /\ holder' = None
        /\ fresh' \subseteq fresh
    BY <1>1, <1>3 DEF Save
  <1> QED BY <1>1, <1>4, <1>5, <1>6, <1>7, <1>8, <1>9, SavedInv DEF old

LEMMA UpdateOfInv ==
  ASSUME Inv, NEW j \in Jobs, UpdateOf(j)
  PROVE  Inv'
  <1> DEFINE old == mem[current][j]
  <1>1. old # NoJob /\ mem[current] # NoStore /\ now \in Nat /\ current \in Services
    BY Sanity DEF UpdateOf
  <1>2. old \in Job
    BY <1>1, Sanity DEF Inv, TypeOK, Store
  <1>3. ASSUME NEW on \in BOOLEAN, Update(j, Refreshed([old EXCEPT !.enabled = on]))
        PROVE  Inv'
    <2> DEFINE job == [old EXCEPT !.enabled = on]
    <2>1. job \in Job /\ job.running = old.running
      BY <1>2 DEF Job
    <2> HIDE DEF job
    <2>2. /\ Refreshed(job) \in Job /\ Planned(Refreshed(job))
          /\ Marker(Refreshed(job)) => job.running # None
      BY <1>1, <2>1, RefreshedJob
    <2> QED BY <1>1, <1>3, <2>1, <2>2, UpdateInv DEF job
  <1>4. ASSUME NEW schedule \in Specs, Update(j, Refreshed([old EXCEPT !.spec = schedule]))
        PROVE  Inv'
    <2> DEFINE job == [old EXCEPT !.spec = schedule]
    <2>1. job \in Job /\ job.running = old.running
      BY <1>2, ScheduleAssumption DEF Job
    <2> HIDE DEF job
    <2>2. /\ Refreshed(job) \in Job /\ Planned(Refreshed(job))
          /\ Marker(Refreshed(job)) => job.running # None
      BY <1>1, <2>1, RefreshedJob
    <2> QED BY <1>1, <1>4, <2>1, <2>2, UpdateInv DEF job
  <1>5. ASSUME Update(j, Repaired(old))
        PROVE  Inv'
    <2>1. /\ Repaired(old) \in Job /\ Planned(Repaired(old))
          /\ Marker(Repaired(old)) => old.running # None
      BY <1>1, <1>2, RepairedJob
    <2> QED BY <1>1, <1>5, <2>1, UpdateInv
  <1> QED BY <1>3, <1>4, <1>5 DEF UpdateOf

LEMMA RemoveInv ==
  ASSUME Inv, NEW j \in Jobs, Remove(j)
  PROVE  Inv'
  <1> DEFINE old == mem[current]
             store == [old EXCEPT ![j] = NoJob]
  <1>1. /\ current \in Services /\ Started(current) /\ holder = None
        /\ life' = [life EXCEPT ![current] = "on"] /\ ops' \in 0 .. MaxOps
        /\ UNCHANGED <<now, current, phase, entry, queue, incidents, faulty>>
    BY OperationKnown DEF Remove
  <1>2. Sane(old) /\ Covered(current, old, excused[current])
    BY <1>1, Sanity
  <1>3. Save(current, store) /\ Arm(current, store) /\ UNCHANGED <<fresh, holder, excused>>
    BY DEF Remove
  <1>4. Sane(store) /\ store[j] = NoJob /\ \A i \in Jobs : i # j => store[i] = old[i]
    <2>1. Planned(NoJob)
      BY DEF Planned
    <2> QED BY <1>2, <2>1, ReplacedSane
  <1> HIDE DEF store
  <1>5. \A i \in Jobs : Marker(store[i]) => Marker(old[i])
    BY <1>4 DEF Marker
  <1>6. \A i \in fresh' : store[i] = NoJob
    <2>1. fresh \subseteq Jobs /\ \A i \in fresh : old[i] = NoJob
      BY <1>1 DEF Inv, TypeOK, FreshSound, Lifecycle, Started
    <2> QED BY <1>3, <1>4, <2>1
  <1> HIDE DEF old
  <1>7. Covered(current, store, excused'[current])
    BY <1>2, <1>3, <1>4 DEF Covered
  <1>8. excused' \in [Services -> SUBSET Jobs] /\ \A t \in Services : excused[t] \subseteq excused'[t]
    BY <1>3 DEF Inv, TypeOK
  <1>9. /\ timer' \in [Services -> Maybe(Nat)]
        /\ \A t \in Services : t # current => timer'[t] = timer[t]
        /\ InTime(store, timer'[current])
    BY <1>1, <1>3, <1>4, ArmIsInTime
  <1>10. /\ mem' = [mem EXCEPT ![current] = store] /\ disk' = store /\ holder' = None
         /\ fresh' \subseteq fresh
    BY <1>1, <1>3 DEF Save
  <1> QED BY <1>1, <1>4, <1>5, <1>6, <1>7, <1>8, <1>9, <1>10, SavedInv DEF old

(* A read arms no timer, but it does not bring a next run nearer either.   *)
LEMMA ReadInv ==
  ASSUME Inv, Read
  PROVE  Inv'
  <1> DEFINE old == mem[current]
             store == Maintained(old)
  <1>1. /\ current \in Services /\ Started(current) /\ holder = None /\ life[current] = "on"
        /\ life' = [life EXCEPT ![current] = "on"] /\ ops' \in 0 .. MaxOps
        /\ UNCHANGED <<now, current, phase, entry, queue, incidents, faulty>>
    BY OperationKnown DEF Read
  <1>2. Sane(old) /\ now \in Nat
    BY <1>1, Sanity
  <1>3. Save(current, store) /\ Excuse(current, store) /\ UNCHANGED <<fresh, timer, holder>>
    BY DEF Read
  <1>4. /\ Sane(store)
        /\ \A j \in Jobs : /\ store[j] = NoJob <=> old[j] = NoJob
                           /\ Marker(store[j]) => Marker(old[j])
                           /\ store[j] # NoJob =>
                                 /\ store[j].enabled = old[j].enabled
                                 /\ store[j].enabled => store[j].next = old[j].next
                                 /\ ~store[j].enabled => store[j].next = None
    BY <1>2, MaintainedSane
  <1> HIDE DEF store
  <1>5. \A i \in Jobs : /\ old[i] = NoJob => store[i] = NoJob \/ entry[current][i].step = "none"
                        /\ Marker(store[i]) => Marker(old[i])
    BY <1>4
  <1>6. \A i \in fresh' : store[i] = NoJob
    <2>1. fresh \subseteq Jobs /\ \A i \in fresh : old[i] = NoJob
      BY <1>1 DEF Inv, TypeOK, FreshSound, Lifecycle, Started
    <2> QED BY <1>3, <1>4, <2>1
  <1>7. phase[current] = "idle" => InTime(store, timer'[current])
    <2>1. phase[current] = "idle" => InTime(old, timer[current])
      BY <1>1 DEF Inv, WakesInTime, InTime, LockFree
    <2> QED BY <1>3, <1>4, <2>1 DEF InTime, Present
  <1> HIDE DEF old
  <1>8. /\ Covered(current, store, excused'[current])
        /\ excused' \in [Services -> SUBSET Jobs]
        /\ \A t \in Services : excused[t] \subseteq excused'[t]
    BY <1>1, <1>3, <1>5, ExcuseCovers DEF old
  <1>9. /\ timer' \in [Services -> Maybe(Nat)]
        /\ \A t \in Services : t # current => timer'[t] = timer[t]
    BY <1>3 DEF Inv, TypeOK
  <1>10. /\ mem' = [mem EXCEPT ![current] = store] /\ disk' = store /\ holder' = None
         /\ fresh' \subseteq fresh
    BY <1>1, <1>3 DEF Save
  <1> QED BY <1>1, <1>4, <1>5, <1>6, <1>7, <1>8, <1>9, <1>10, SavedInv DEF old

-----------------------------------------------------------------------------
(* The queue of the lock.                                                  *)
LEMMA GrantedKnown ==
  ASSUME Inv, NEW s \in Services, NEW what \in {"start", "mark", "apply"}, Granted(s, what)
  PROVE  /\ holder = None
         /\ what = "start" => life[s] = "new"
         /\ what # "start" => phase[s] = what /\ life[s] = "on"
         /\ queue' \in Seq(Request)
         /\ \A i, k \in 1 .. Len(queue') : queue'[i] = queue'[k] => i = k
         /\ \A i \in 1 .. Len(queue') :
               /\ queue'[i] # [svc |-> s, for |-> what] /\ queue'[i] \in Request
               /\ queue'[i].for = "start" => life[queue'[i].svc] = "new"
               /\ queue'[i].for # "start" => phase[queue'[i].svc] = queue'[i].for
  <1>1. /\ queue \in Seq(Request) /\ queue # <<>> /\ queue' = Tail(queue)
        /\ Head(queue) = [svc |-> s, for |-> what] /\ holder = None
    BY DEF Inv, TypeOK, Granted, LockFree, Request
  <1>2. /\ queue' \in Seq(Request) /\ Len(queue') = Len(queue) - 1
        /\ \A i \in 1 .. Len(queue') : queue'[i] = queue[i + 1]
    BY <1>1, HeadTailProperties
  <1>3. /\ Len(queue) \in Nat /\ Len(queue) > 0 /\ queue[1] = [svc |-> s, for |-> what]
        /\ \A i \in 1 .. Len(queue) : queue[i] \in Request
    BY <1>1, ElementOfSeq, LenProperties, EmptySeq
  <1>4. /\ \A i, k \in 1 .. Len(queue) : queue[i] = queue[k] => i = k
        /\ \A i \in 1 .. Len(queue) :
              /\ queue[i].for = "start" => life[queue[i].svc] = "new"
              /\ queue[i].for \in {"mark", "apply"} => phase[queue[i].svc] = queue[i].for
    BY DEF Inv, QueueSound
  <1>5. 1 \in 1 .. Len(queue) /\ \A i \in 1 .. Len(queue') : i + 1 \in 1 .. Len(queue) /\ i + 1 # 1
    BY <1>2, <1>3
  <1>6. /\ what = "start" => life[s] = "new"
        /\ what # "start" => phase[s] = what
    BY <1>3, <1>4, <1>5
  <1>7. what # "start" => life[s] = "on"
    BY <1>6 DEF Inv, Lifecycle
  <1>8. ASSUME NEW i \in 1 .. Len(queue')
        PROVE  /\ queue'[i] # [svc |-> s, for |-> what] /\ queue'[i] \in Request
               /\ queue'[i].for = "start" => life[queue'[i].svc] = "new"
               /\ queue'[i].for # "start" => phase[queue'[i].svc] = queue'[i].for
    <2>1. queue'[i] = queue[i + 1] /\ queue[i + 1] \in Request /\ queue[i + 1] # queue[1]
      BY <1>2, <1>3, <1>4, <1>5
    <2> QED BY <2>1, <1>3, <1>4, <1>5 DEF Request
  <1>9. \A i, k \in 1 .. Len(queue') : queue'[i] = queue'[k] => i = k
    <2> SUFFICES ASSUME NEW i \in 1 .. Len(queue'), NEW k \in 1 .. Len(queue'), queue'[i] = queue'[k]
                 PROVE  i = k
      OBVIOUS
    <2>1. i + 1 = k + 1
      BY <1>2, <1>4, <1>5
    <2> QED BY <2>1
  <1> QED BY <1>1, <1>2, <1>6, <1>7, <1>8, <1>9

LEMMA RequestedKnown ==
  ASSUME Inv, NEW s \in Services, NEW what \in {"start", "mark", "apply"}, Requests(s, what),
         \A i \in 1 .. Len(queue) : queue[i] # [svc |-> s, for |-> what]
  PROVE  /\ queue' \in Seq(Request)
         /\ \A i, k \in 1 .. Len(queue') : queue'[i] = queue'[k] => i = k
         /\ \A i \in 1 .. Len(queue') :
               \/ queue'[i] = [svc |-> s, for |-> what]
               \/ /\ queue'[i] \in Request
                  /\ queue'[i].for = "start" => life[queue'[i].svc] = "new"
                  /\ queue'[i].for # "start" => phase[queue'[i].svc] = queue'[i].for
  <1> DEFINE r == [svc |-> s, for |-> what]
  <1>1. queue \in Seq(Request) /\ r \in Request /\ queue' = Append(queue, r)
    BY DEF Inv, TypeOK, Request, Requests
  <1>2. /\ queue' \in Seq(Request) /\ Len(queue') = Len(queue) + 1 /\ Len(queue) \in Nat
        /\ \A i \in 1 .. Len(queue) : queue'[i] = queue[i]
        /\ queue'[Len(queue) + 1] = r
    BY <1>1, AppendProperties, LenProperties
  <1>3. \A i \in 1 .. Len(queue) : queue[i] \in Request /\ queue[i] # r
    BY <1>1, ElementOfSeq
  <1> HIDE DEF r
  <1>4. /\ \A i, k \in 1 .. Len(queue) : queue[i] = queue[k] => i = k
        /\ \A i \in 1 .. Len(queue) :
              /\ queue[i].for = "start" => life[queue[i].svc] = "new"
              /\ queue[i].for \in {"mark", "apply"} => phase[queue[i].svc] = queue[i].for
    BY DEF Inv, QueueSound
  <1>5. \A i \in 1 .. Len(queue') : i \in 1 .. Len(queue) \/ i = Len(queue) + 1
    BY <1>2
  <1>6. \A i, k \in 1 .. Len(queue') : queue'[i] = queue'[k] => i = k
    BY <1>2, <1>3, <1>4, <1>5
  <1>7. \A i \in 1 .. Len(queue) : queue[i].for \in {"start", "mark", "apply"}
    BY <1>3 DEF Request
  <1>8. \A i \in 1 .. Len(queue') :
            \/ queue'[i] = r
            \/ /\ queue'[i] \in Request
               /\ queue'[i].for = "start" => life[queue'[i].svc] = "new"
               /\ queue'[i].for # "start" => phase[queue'[i].svc] = queue'[i].for
    BY <1>2, <1>3, <1>4, <1>5, <1>7
  <1> QED BY <1>2, <1>6, <1>8 DEF r

(* A request in the queue is one that its service waits with.              *)
LEMMA QueueKnown ==
  ASSUME Inv, NEW i \in 1 .. Len(queue)
  PROVE  /\ queue[i] \in Request
         /\ queue[i].for = "start" => life[queue[i].svc] = "new"
         /\ queue[i].for # "start" => phase[queue[i].svc] = queue[i].for
  <1>1. queue \in Seq(Request)
    BY DEF Inv, TypeOK, Request
  <1>2. queue[i] \in Request
    BY <1>1, ElementOfSeq
  <1> QED BY <1>2 DEF Inv, QueueSound, Request

LEMMA HolderKnown ==
  ASSUME Inv, holder # None
  PROVE  /\ holder.svc \in Services /\ holder.job \in Jobs /\ holder.rest \subseteq Jobs
         /\ holder.kind \in {"run", "start"}
         /\ Started(holder.svc)
         /\ life[holder.svc] = IF holder.kind = "start" THEN "starting" ELSE "on"
         /\ mem[holder.svc][holder.job] # NoJob
         /\ holder.job \notin holder.rest /\ \A j \in holder.rest : mem[holder.svc][j] # NoJob
         /\ holder.kind = "run" => holder.rest = {}
  <1>1. holder \in Execution
    BY DEF Inv, TypeOK, Maybe
  <1> QED BY <1>1 DEF Inv, HolderSound, Started, Execution

LEMMA RunBeginInv ==
  ASSUME Inv, NEW j \in Jobs, NEW forced \in BOOLEAN, RunBegin(j, forced)
  PROVE  Inv'
  <1> DEFINE old == mem[current]
             store == Marked(old, {j})
  <1>1. /\ current \in Services /\ Started(current) /\ holder = None /\ life[current] = "on"
        /\ life' = life /\ ops' \in 0 .. MaxOps
        /\ UNCHANGED <<now, current, phase, entry, queue, incidents, faulty>>
    BY OperationKnown DEF RunBegin, Operation
  <1>2. Sane(old) /\ now \in Nat /\ Covered(current, old, excused[current])
    BY <1>1, Sanity
  <1>3. /\ old[j] # NoJob /\ old[j].running = None
        /\ mem' = [mem EXCEPT ![current] = store]
        /\ holder' = [svc |-> current, job |-> j, kind |-> "run", rest |-> {}]
        /\ UNCHANGED <<disk, fresh, timer, excused>>
    BY DEF RunBegin
  <1>4. {j} \in SUBSET Present(old)
    BY <1>3 DEF Present
  <1>5. /\ Sane(store)
        /\ \A i \in Jobs :
              /\ store[i] = NoJob <=> old[i] = NoJob
              /\ i = j => Marker(store[i])
              /\ i # j => store[i] = old[i]
              /\ store[i] # NoJob => store[i].enabled = old[i].enabled /\ store[i].next = old[i].next
    BY <1>2, <1>4, MarkedSane
  <1> HIDE DEF store
  <1>6. store \in Store /\ store # NoStore /\ mem[current] # NoStore
    BY <1>1, <1>5, NoneAssumption DEF Sane, Inv, Lifecycle, Started
  <1>7. mem'[current] = store /\ \A t \in Services : t # current => mem'[t] = mem[t]
    BY <1>1, <1>3 DEF Inv, TypeOK
  <1>8. /\ holder' \in Maybe(Execution)
        /\ holder'.svc = current /\ holder'.job = j /\ holder'.kind = "run" /\ holder'.rest = {}
        /\ holder' # None
    BY <1>1, <1>3, NoneAssumption DEF Maybe, Execution
  <1>10. entry[current][j].step # "none" => j \in excused[current]
    BY <1>2, <1>3 DEF Covered, Marker
  <1>11. TypeOK'
    BY <1>1, <1>3, <1>6, <1>8 DEF Inv, TypeOK, Maybe
  <1>12. Lifecycle'
    BY <1>1, <1>3, <1>6, <1>7 DEF Inv, Lifecycle
  <1>13. QueueSound' /\ EntriesSound'
    BY <1>1 DEF Inv, QueueSound, EntriesSound, Times
  <1>14. HolderSound'
    BY <1>1, <1>3, <1>5, <1>6, <1>7, <1>8 DEF HolderSound
  <1>15. FreshSound' /\ NextKnown'
    BY <1>1, <1>3, <1>5, <1>6, <1>7 DEF Inv, FreshSound, NextKnown, Sane, Planned, TypeOK
  <1>16. MemoryMarked'
    <2>1. ASSUME NEW t \in Services, NEW i \in Jobs, entry[t][i].step # "none", mem'[t] # NoStore
          PROVE  mem'[t][i] = NoJob \/ Marker(mem'[t][i]) \/ i \in excused'[t]
      BY <2>1, <1>2, <1>3, <1>5, <1>7 DEF Covered, Inv, MemoryMarked
    <2> QED BY <1>1, <1>3, <1>8, <1>10, <2>1 DEF MemoryMarked, Marker
  <1>17. DiskMarked'
    BY <1>1, <1>3 DEF Inv, DiskMarked, Marker
  <1>18. MarkersUsed'
    BY <1>1, <1>3, <1>5, <1>6, <1>7, <1>8 DEF Inv, MarkersUsed, Marker
  <1>19. Agree'
    BY <1>1, <1>3, <1>5, <1>7 DEF Inv, Agree
  <1>20. WakesInTime'
    BY <1>1, <1>8 DEF WakesInTime, LockFree
  <1> QED BY <1>11, <1>12, <1>13, <1>14, <1>15, <1>16, <1>17, <1>18, <1>19, <1>20 DEF Inv

(* start() begins to execute a missed job.                                 *)
LEMMA ExecuteMissedInv ==
  ASSUME Inv, NEW s \in Services, life[s] \in {"new", "starting"},
         holder = None \/ holder.svc = s,
         NEW store, Sane(store), NEW missed \in SUBSET Present(store),
         ExecuteMissed(s, store, missed),
         UNCHANGED <<now, fresh, current, phase, entry, ops, incidents, faulty>>,
         \A i \in fresh : store[i] = NoJob,
         \A i \in Jobs : Marker(store[i]) =>
             life[s] = "starting" /\ Marker(mem[s][i]) /\ (holder # None => i # holder.job),
         queue' \in Seq(Request), QueueSound'
  PROVE  Inv'
  <1>1. PICK j \in missed :
          /\ mem' = [mem EXCEPT ![s] = Marked(store, {j})]
          /\ holder' = [svc |-> s, job |-> j, kind |-> "start", rest |-> missed \ {j}]
          /\ life' = [life EXCEPT ![s] = "starting"]
          /\ UNCHANGED <<disk, timer, excused>>
    BY DEF ExecuteMissed
  <1> DEFINE new == Marked(store, {j})
  <1>2. /\ j \in Jobs /\ missed \subseteq Jobs /\ {j} \in SUBSET Present(store) /\ now \in Nat
        /\ \A i \in missed : store[i] # NoJob
    BY Sanity DEF Present
  <1>3. /\ Sane(new)
        /\ \A i \in Jobs :
              /\ new[i] = NoJob <=> store[i] = NoJob
              /\ i = j => Marker(new[i])
              /\ i # j => new[i] = store[i]
    BY <1>2, MarkedSane
  <1> HIDE DEF new
  <1>4. new \in Store /\ new # NoStore
    BY <1>3, NoneAssumption DEF Sane
  <1>5. /\ mem \in [Services -> Store \cup {NoStore}]
        /\ life \in [Services -> {"none", "new", "starting", "on"}]
        /\ phase[s] = "idle" /\ timer[s] = None /\ \A i \in Jobs : entry[s][i].step = "none"
    BY DEF Inv, TypeOK, Lifecycle
  <1>6. /\ mem'[s] = new /\ life'[s] = "starting"
        /\ \A t \in Services : t # s => mem'[t] = mem[t] /\ life'[t] = life[t]
    BY <1>1, <1>5 DEF new
  <1>7. /\ holder' \in Execution /\ holder' # None
        /\ holder'.svc = s /\ holder'.job = j /\ holder'.kind = "start" /\ holder'.rest = missed \ {j}
    BY <1>1, <1>2, NoneAssumption DEF Execution
  <1>8. TypeOK'
    BY <1>1, <1>4, <1>5, <1>7 DEF Inv, TypeOK, Maybe, new
  <1>9. Lifecycle'
    BY <1>1, <1>4, <1>5, <1>6 DEF Inv, Lifecycle
  <1>10. EntriesSound'
    BY DEF Inv, EntriesSound, Times
  <1>11. HolderSound'
    BY <1>2, <1>3, <1>4, <1>6, <1>7 DEF HolderSound
  <1>12. FreshSound' /\ NextKnown'
    <2>1. \A i \in Jobs : Planned(new[i])
      BY <1>3 DEF Sane
    <2>2. \A i \in fresh : new[i] = NoJob
      BY <1>3 DEF Inv, TypeOK
    <2>3. FreshSound'
      BY <1>1, <1>6, <2>2 DEF Inv, FreshSound
    <2>4. NextKnown'
      BY <1>1, <1>6, <2>1 DEF Inv, NextKnown, Planned
    <2> QED BY <2>3, <2>4
  <1>13. MemoryMarked'
    <2>1. ASSUME NEW t \in Services, NEW i \in Jobs, entry[t][i].step # "none", mem'[t] # NoStore
          PROVE  mem'[t][i] = NoJob \/ Marker(mem'[t][i]) \/ i \in excused'[t]
      BY <2>1, <1>1, <1>5, <1>6 DEF Inv, MemoryMarked
    <2> QED BY <1>1, <1>2, <1>5, <1>7, <2>1 DEF MemoryMarked, Marker
  <1>14. DiskMarked'
    BY <1>1 DEF Inv, DiskMarked, Marker
  <1>15. MarkersUsed'
    <2>1. ASSUME current = 1, ~faulty, NEW i \in Jobs, s = 1, Marker(store[i])
          PROVE  FALSE
      <3>1. mem[1] # NoStore /\ \/ entry[1][i].step # "none"
                                \/ holder # None /\ holder.job = i
        BY <2>1, <1>5 DEF Inv, MarkersUsed, Lifecycle
      <3> QED BY <2>1, <3>1, <1>5
    <2>2. CASE s = 1
      BY <2>1, <2>2, <1>1, <1>3, <1>6, <1>7 DEF MarkersUsed, Marker
    <2>3. CASE s # 1 /\ current = 1
      <3>1. s > 1
        BY <2>3, Sanity
      <3>2. life[s] = "none"
        BY <2>3, <3>1 DEF Inv, Lifecycle
      <3> QED BY <3>2
    <2>4. CASE current # 1
      BY <2>4 DEF MarkersUsed
    <2> QED BY <2>2, <2>3, <2>4
  <1>16. Agree'
    <2>1. 1 \in Services
      BY Sanity
    <2> QED BY <2>1, <1>1, <1>6 DEF Inv, Agree
  <1>17. WakesInTime'
    <2>1. current \in Services
      BY Sanity
    <2>2. CASE s = current
      BY <2>2, <1>6 DEF WakesInTime
    <2>3. CASE s # current
      BY <2>1, <2>3, <1>1, <1>6 DEF Inv, WakesInTime, Greater, Present, LockFree
    <2> QED BY <2>2, <2>3
  <1> QED BY <1>8, <1>9, <1>10, <1>11, <1>12, <1>13, <1>14, <1>15, <1>16, <1>17 DEF Inv

LEMMA ExecutionEndsInv ==
  ASSUME Inv, NEW status \in Outcomes, ExecutionEnds(status)
  PROVE  Inv'
  <1> DEFINE s == holder.svc
             d == holder.job
             old == mem[s]
             store == [old EXCEPT ![d] = Applied(old[d], status, now)]
  <1>1. /\ holder # None
        /\ \/ holder.rest # {} /\ ExecuteMissed(s, store, holder.rest)
           \/ holder.rest = {} /\ Conclude(s, store)
        /\ UNCHANGED <<now, fresh, current, phase, entry, queue, ops, incidents, faulty>>
    BY DEF ExecutionEnds
  <1>2. /\ s \in Services /\ d \in Jobs /\ holder.rest \subseteq Jobs /\ Started(s)
        /\ life[s] = IF holder.kind = "start" THEN "starting" ELSE "on"
        /\ holder.kind \in {"run", "start"}
        /\ holder.kind = "run" => holder.rest = {}
        /\ old[d] # NoJob /\ d \notin holder.rest /\ \A j \in holder.rest : old[j] # NoJob
    BY <1>1, HolderKnown
  <1>3. Sane(old) /\ now \in Nat /\ now \in Times /\ mem[s] # NoStore
    BY <1>2, Sanity DEF Inv, Lifecycle, Started
  <1>4. old[d] \in Job
    BY <1>2, <1>3 DEF Sane, Store
  <1>5. /\ Applied(old[d], status, now) \in Job \cup {NoJob}
        /\ ~Marker(Applied(old[d], status, now)) /\ Planned(Applied(old[d], status, now))
    BY <1>3, <1>4, AppliedJob
  <1>6. /\ Sane(store) /\ store[d] = Applied(old[d], status, now)
        /\ \A i \in Jobs : i # d => store[i] = old[i]
    BY <1>2, <1>3, <1>5, ReplacedSane
  <1>7. \A i \in fresh : old[i] = NoJob
    BY <1>2, <1>3 DEF Inv, FreshSound
  <1>8. fresh \subseteq Jobs
    BY DEF Inv, TypeOK
  <1> HIDE DEF store
  <1>9. /\ \A i \in fresh : store[i] = NoJob
        /\ \A i \in Jobs : Marker(store[i]) => Marker(old[i]) /\ i # d
        /\ \A i \in Jobs : old[i] = NoJob => store[i] = NoJob
    BY <1>2, <1>5, <1>6, <1>7, <1>8
  <1>10. CASE holder.rest # {} /\ ExecuteMissed(s, store, holder.rest)
    <2>1. life[s] = "starting"
      BY <1>2, <1>10
    <2>2. holder.rest \in SUBSET Present(store)
      BY <1>2, <1>6 DEF Present
    <2>3. queue' \in Seq(Request)
      BY <1>1 DEF Inv, TypeOK
    <2>4. QueueSound'
      <3>1. life' = [life EXCEPT ![s] = "starting"] /\ life \in [Services -> {"none", "new", "starting", "on"}]
        BY <1>10 DEF ExecuteMissed, Inv, TypeOK
      <3>2. life' = life
        BY <3>1, <2>1, <1>2
      <3> QED BY <3>2, <1>1 DEF Inv, QueueSound
    <2> HIDE DEF s, d, old
    <2> QED BY <1>1, <1>2, <1>6, <1>9, <1>10, <2>1, <2>2, <2>3, <2>4, ExecuteMissedInv DEF s, d, old
  <1>11. CASE holder.rest = {} /\ Conclude(s, store)
    <2> DEFINE final == WithNextRuns(store)
    <2>1. /\ Save(s, final) /\ Arm(s, final) /\ Excuse(s, final)
          /\ holder' = None /\ life' = [life EXCEPT ![s] = "on"]
      BY <1>11 DEF Conclude
    <2>2. Sane(final) /\ \A i \in Jobs : /\ final[i] = NoJob <=> store[i] = NoJob
                                         /\ Marker(final[i]) => Marker(store[i])
      BY <1>3, <1>6, WithNextRunsSane
    <2> HIDE DEF final
    <2>3. /\ \A i \in fresh' : final[i] = NoJob
          /\ \A i \in Jobs : Marker(final[i]) => Marker(old[i]) /\ i # d
          /\ \A i \in Jobs : old[i] = NoJob => final[i] = NoJob \/ entry[s][i].step = "none"
      BY <1>1, <1>8, <1>9, <2>2
    <2>4. ops' \in 0 .. MaxOps /\ fresh' \subseteq fresh
      BY <1>1 DEF Inv, TypeOK
    <2> HIDE DEF s, d, old
    <2>5. /\ Covered(s, final, excused'[s])
          /\ excused' \in [Services -> SUBSET Jobs]
          /\ \A t \in Services : excused[t] \subseteq excused'[t]
      BY <1>2, <2>1, <2>3, ExcuseCovers DEF old
    <2>6. /\ timer' \in [Services -> Maybe(Nat)]
          /\ \A t \in Services : t # s => timer'[t] = timer[t]
          /\ InTime(final, timer'[s])
      BY <1>2, <2>1, <2>2, ArmIsInTime
    <2>7. mem' = [mem EXCEPT ![s] = final] /\ disk' = final
      BY <2>1 DEF Save
    <2> QED BY <1>1, <1>2, <2>1, <2>2, <2>3, <2>4, <2>5, <2>6, <2>7, SavedInv DEF s, d, old
  <1> QED BY <1>1, <1>10, <1>11

LEMMA StartInv ==
  ASSUME Inv, NEW s \in Services, Start(s)
  PROVE  Inv'
  <1> DEFINE cleared == Unmark(disk)
             missed == {j \in Runnable(cleared) :
                          /\ disk[j].running = None
                          /\ ~(disk[j].spec.kind = "at" /\ disk[j].last # None)}
             store == WithNextRuns(cleared)
  <1>1. Granted(s, "start") /\ UNCHANGED <<now, fresh, current, phase, entry, ops, incidents, faulty>>
    BY DEF Start
  <1>2. /\ holder = None /\ life[s] = "new" /\ queue' \in Seq(Request)
        /\ \A i, k \in 1 .. Len(queue') : queue'[i] = queue'[k] => i = k
        /\ \A i \in 1 .. Len(queue') :
              /\ queue'[i] # [svc |-> s, for |-> "start"] /\ queue'[i] \in Request
              /\ queue'[i].for = "start" => life[queue'[i].svc] = "new"
              /\ queue'[i].for # "start" => phase[queue'[i].svc] = queue'[i].for
    BY <1>1, GrantedKnown
  <1>3. Sane(disk) /\ now \in Nat /\ now \in Times
    BY Sanity
  <1>4. Sane(cleared) /\ \A j \in Jobs : (cleared[j] = NoJob <=> disk[j] = NoJob) /\ ~Marker(cleared[j])
    BY <1>3, UnmarkSane
  <1>5. fresh \subseteq Jobs /\ \A i \in fresh : cleared[i] = NoJob
    BY <1>4 DEF Inv, TypeOK, FreshSound
  <1>6. /\ life \in [Services -> {"none", "new", "starting", "on"}]
        /\ mem \in [Services -> Store \cup {NoStore}]
        /\ phase[s] = "idle" /\ timer[s] = None /\ \A i \in Jobs : entry[s][i].step = "none"
    BY <1>2 DEF Inv, TypeOK, Lifecycle
  <1>7. ASSUME NEW how \in {"starting", "on"}, life' = [life EXCEPT ![s] = how]
        PROVE  QueueSound'
    <2>1. \A i \in 1 .. Len(queue') : queue'[i].for = "start" => queue'[i].svc # s
      BY <1>2 DEF Request
    <2>2. \A i \in 1 .. Len(queue') : queue'[i].svc \in Services
      BY <1>2 DEF Request
    <2> QED BY <1>1, <1>2, <1>6, <1>7, <2>1, <2>2 DEF QueueSound
  <1> HIDE DEF cleared, missed, store
  <1>8. CASE ExecuteMissed(s, cleared, missed)
    <2>1. missed \in SUBSET Present(cleared)
      BY DEF missed, Runnable
    <2>2. QueueSound'
      BY <1>7, <1>8 DEF ExecuteMissed
    <2> QED BY <1>1, <1>2, <1>4, <1>5, <1>8, <2>1, <2>2, ExecuteMissedInv
  <1>9. CASE /\ Save(s, store) /\ Arm(s, store) /\ life' = [life EXCEPT ![s] = "on"]
             /\ UNCHANGED <<holder, excused>>
    <2>1. Sane(store) /\ \A j \in Jobs : (store[j] = NoJob <=> cleared[j] = NoJob) /\ ~Marker(store[j])
      BY <1>3, <1>4, WithNextRunsSane DEF store
    <2>2. store \in Store /\ store # NoStore
      BY <2>1, NoneAssumption DEF Sane
    <2>3. /\ timer' \in [Services -> Maybe(Nat)]
          /\ \A t \in Services : t # s => timer'[t] = timer[t]
          /\ InTime(store, timer'[s])
      BY <1>9, <2>1, ArmIsInTime
    <2>4. mem' = [mem EXCEPT ![s] = store] /\ disk' = store
      BY <1>9 DEF Save
    <2>5. /\ mem'[s] = store /\ life'[s] = "on"
          /\ \A t \in Services : t # s => mem'[t] = mem[t] /\ life'[t] = life[t]
      BY <1>6, <1>9, <2>4
    <2>6. TypeOK'
      BY <1>1, <1>2, <1>9, <2>2, <2>3, <2>4 DEF Inv, TypeOK
    <2>7. Lifecycle'
      BY <1>1, <1>2, <2>2, <2>3, <2>5 DEF Inv, Lifecycle
    <2>8. QueueSound' /\ EntriesSound' /\ HolderSound'
      BY <1>1, <1>2, <1>7, <1>9 DEF Inv, EntriesSound, HolderSound, Times
    <2>9. FreshSound' /\ NextKnown'
      BY <1>1, <1>5, <2>1, <2>4, <2>5 DEF Inv, FreshSound, NextKnown, Sane, Planned
    <2>10. MemoryMarked'
      BY <1>1, <1>2, <1>6, <1>9, <2>5 DEF Inv, MemoryMarked, Marker
    <2>11. 1 \in Services /\ (current = 1 => s = 1)
      <3>1. ~(s > current)
        BY <1>2 DEF Inv, Lifecycle
      <3> QED BY <3>1, Sanity
    <2>12. DiskMarked'
      BY <1>1, <1>6, <1>9, <2>11 DEF DiskMarked
    <2>13. MarkersUsed'
      BY <1>1, <2>1, <2>4, <2>5, <2>11 DEF MarkersUsed, Marker
    <2>14. Agree'
      BY <1>1, <2>4, <2>5, <2>11 DEF Agree
    <2>15. WakesInTime'
      <3>1. current \in Services
        BY Sanity
      <3>2. CASE s = current
        BY <3>2, <1>1, <2>3, <2>5 DEF WakesInTime, InTime, Greater, Present
      <3>3. CASE s # current
        BY <3>1, <3>3, <1>1, <1>9, <2>3, <2>5 DEF Inv, WakesInTime, Greater, Present, LockFree
      <3> QED BY <3>2, <3>3
    <2> QED BY <2>6, <2>7, <2>8, <2>9, <2>10, <2>12, <2>13, <2>14, <2>15 DEF Inv
  <1>10. \/ ExecuteMissed(s, cleared, missed)
         \/ /\ Save(s, store) /\ Arm(s, store) /\ life' = [life EXCEPT ![s] = "on"]
            /\ UNCHANGED <<holder, excused>>
    BY DEF Start, cleared, missed, store
  <1> QED BY <1>8, <1>9, <1>10

-----------------------------------------------------------------------------
(* The tick.                                                               *)

(* A locked block of a tick: it keeps store in memory and saves it, or     *)
(* fails to; then s has these entries and goes on to stage.                *)
TickSaves(s, store, entries, stage) ==
    /\ life[s] = "on" /\ holder = None
    /\ Sane(store) /\ entries \in [Jobs -> Entry] /\ stage \in {"run", "finish"}
    /\ mem' = [mem EXCEPT ![s] = store]
    /\ phase' = [phase EXCEPT ![s] = stage]
    /\ entry' = [entry EXCEPT ![s] = entries]
    /\ UNCHANGED <<now, fresh, timer, life, current, holder, ops>>
    /\ incidents' \in 0 .. MaxIncidents /\ faulty' \in BOOLEAN /\ (faulty => faulty')
    /\ queue' \in Seq(Request) /\ QueueSound'
    /\ disk' = store \/ (disk' = disk /\ faulty')
    /\ \A i \in fresh : store[i] = NoJob
    /\ \A j \in Jobs : entries[j].step \in {"none", "waiting"}
    /\ \A j \in Jobs : entries[j].step # "none" =>
          stage = "run" /\ disk' = store /\ Marker(store[j]) /\ store[j] # NoJob
    /\ (current = 1 /\ ~faulty') => \A j \in Jobs : Marker(store[j]) => entries[j].step # "none"
    /\ excused' \in [Services -> SUBSET Jobs]
    /\ \A t \in Services : t # s => excused'[t] = excused[t]
    /\ (current = 1 /\ disk' = disk) =>
          \A j \in Jobs : (disk[j] # NoJob /\ disk[j].enabled /\ disk[j].running = None) =>
              \/ store[j] = NoJob \/ ~store[j].enabled \/ store[j].next = disk[j].next
              \/ j \in excused'[s]

LEMMA TickSavedInv ==
  ASSUME Inv, NEW s \in Services, NEW store, NEW entries, NEW stage,
         TickSaves(s, store, entries, stage)
  PROVE  Inv'
  <1> USE DEF TickSaves
  <1>1. store \in Store /\ store # NoStore
    BY NoneAssumption DEF Sane
  <1>2. /\ mem \in [Services -> Store \cup {NoStore}]
        /\ entry \in [Services -> [Jobs -> Entry]]
        /\ phase \in [Services -> {"idle", "mark", "run", "apply", "finish"}]
        /\ mem[s] # NoStore
    BY DEF Inv, TypeOK, Lifecycle
  <1>3. /\ mem'[s] = store /\ entry'[s] = entries /\ phase'[s] = stage
        /\ \A t \in Services : t # s =>
              mem'[t] = mem[t] /\ entry'[t] = entry[t] /\ phase'[t] = phase[t]
    BY <1>2
  <1>4. 1 \in Services /\ current \in Services /\ (current = 1 => s = 1)
    <2>1. s <= current
      BY Sanity DEF Started
    <2> QED BY <2>1, Sanity
  <1>5. TypeOK'
    <2>1. mem' \in [Services -> Store \cup {NoStore}]
      BY <1>1, <1>2
    <2>2. phase' \in [Services -> {"idle", "mark", "run", "apply", "finish"}]
      BY <1>2
    <2>3. entry' \in [Services -> [Jobs -> Entry]]
      BY <1>2
    <2>4. disk' \in Store
      BY <1>1 DEF Inv, TypeOK
    <2> QED BY <2>1, <2>2, <2>3, <2>4 DEF Inv, TypeOK
  <1>6. Lifecycle'
    BY <1>1, <1>2, <1>3 DEF Inv, Lifecycle
  <1>7. EntriesSound'
    <2>1. ASSUME NEW t \in Services
          PROVE  /\ phase'[t] \notin {"run", "apply"} => \A j \in Jobs : entry'[t][j].step = "none"
                 /\ phase'[t] = "apply" => \A j \in Jobs : entry'[t][j].step \in {"none", "done"}
                 /\ \A j \in Jobs : entry'[t][j].step = "done" =>
                       entry'[t][j].status \in Outcomes /\ entry'[t][j].endedAt \in Times
      BY <1>3 DEF Inv, EntriesSound
    <2> QED BY <2>1 DEF EntriesSound, Times
  <1>8. HolderSound'
    BY DEF HolderSound
  <1>9. FreshSound'
    <2>1. ASSUME NEW j \in fresh
          PROVE  /\ disk'[j] = NoJob
                 /\ \A t \in Services : entry'[t][j].step = "none" /\ (mem'[t] # NoStore => mem'[t][j] = NoJob)
      BY <1>3 DEF Inv, FreshSound, TypeOK
    <2> QED BY <2>1 DEF FreshSound
  <1>10. NextKnown'
    <2>1. \A j \in Jobs : Planned(store[j]) /\ Planned(disk[j])
      BY DEF Sane, Inv, NextKnown
    <2>2. \A j \in Jobs : Planned(disk'[j])
      BY <2>1
    <2>3. ASSUME NEW t \in Services, NEW j \in Jobs, mem'[t] # NoStore
          PROVE  Planned(mem'[t][j])
      BY <1>3, <2>1, <2>3 DEF Inv, NextKnown
    <2> QED BY <2>2, <2>3 DEF NextKnown, Planned
  <1>11. MemoryMarked'
    <2>1. ASSUME NEW t \in Services, NEW j \in Jobs, entry'[t][j].step # "none", mem'[t] # NoStore
          PROVE  mem'[t][j] = NoJob \/ Marker(mem'[t][j]) \/ j \in excused'[t]
      BY <2>1, <1>3 DEF Inv, MemoryMarked
    <2> QED BY <2>1 DEF MemoryMarked, Marker
  <1>12. DiskMarked'
    BY <1>3, <1>4 DEF DiskMarked, Marker
  <1>13. MarkersUsed'
    <2>1. ASSUME current = 1, ~faulty'
          PROVE  s = 1 /\ disk' = store /\ \A j \in Jobs : Marker(store[j]) => entries[j].step # "none"
      <3>1. s = 1
        BY <2>1, <1>4
      <3>2. disk' = store
        BY <2>1
      <3> QED BY <2>1, <3>1, <3>2
    <2> QED BY <2>1, <1>3 DEF MarkersUsed, Marker
  <1>14. Agree'
    BY <1>3, <1>4 DEF Agree
  <1>15. WakesInTime'
    <2>1. CASE s = current
      BY <2>1, <1>3 DEF WakesInTime
    <2>2. CASE s # current
      BY <2>2, <1>3, <1>4 DEF Inv, WakesInTime, Greater, Present, LockFree
    <2> QED BY <2>1, <2>2
  <1> QED BY <1>5, <1>6, <1>7, <1>8, <1>9, <1>10, <1>11, <1>12, <1>13, <1>14, <1>15 DEF Inv

LEMMA IdleEntries ==
  /\ Idle \in [Jobs -> Entry]
  /\ \A step \in {"none", "waiting", "running"} : EntryAt(step) \in Entry /\ EntryAt(step).step = step
  /\ \A j \in Jobs : Idle[j].step = "none"
  BY DEF Idle, Entry, EntryAt, Maybe

(* The queue that is left when s goes on.                                  *)
LEMMA GrantedSound ==
  ASSUME Inv, NEW s \in Services, NEW what \in {"mark", "apply"}, Granted(s, what),
         UNCHANGED life, NEW stage, phase' = [phase EXCEPT ![s] = stage]
  PROVE  queue' \in Seq(Request) /\ QueueSound'
  <1>0. what \in {"start", "mark", "apply"} /\ what # "start"
    OBVIOUS
  <1>1. /\ phase[s] = what
        /\ queue' \in Seq(Request)
        /\ \A i, k \in 1 .. Len(queue') : queue'[i] = queue'[k] => i = k
        /\ \A i \in 1 .. Len(queue') :
              /\ queue'[i] # [svc |-> s, for |-> what] /\ queue'[i] \in Request
              /\ queue'[i].for = "start" => life[queue'[i].svc] = "new"
              /\ queue'[i].for # "start" => phase[queue'[i].svc] = queue'[i].for
    BY <1>0, GrantedKnown
  <1>2. phase \in [Services -> {"idle", "mark", "run", "apply", "finish"}]
    BY DEF Inv, TypeOK
  <1>3. ASSUME NEW i \in 1 .. Len(queue'), queue'[i].for \in {"mark", "apply"}
        PROVE  phase'[queue'[i].svc] = queue'[i].for
    <2>1. queue'[i] \in Request /\ phase[queue'[i].svc] = queue'[i].for
      BY <1>1, <1>3
    <2>2. queue'[i].svc # s
      BY <1>1, <2>1 DEF Request
    <2>3. queue'[i].svc \in Services
      BY <2>1 DEF Request
    <2> QED BY <1>2, <2>1, <2>2, <2>3
  <1> QED BY <1>1, <1>3 DEF QueueSound

LEMMA SavesMayFailKnown ==
  ASSUME Inv, NEW s \in Services, NEW store, SavesMayFail(s, store)
  PROVE  /\ mem' = [mem EXCEPT ![s] = store]
         /\ disk' = store \/ (disk' = disk /\ faulty')
         /\ incidents' = incidents => disk' = store
         /\ incidents' \in 0 .. MaxIncidents /\ faulty' \in BOOLEAN /\ (faulty => faulty')
  <1>1. incidents \in 0 .. MaxIncidents /\ MaxIncidents \in Nat /\ faulty \in BOOLEAN
    BY BoundsAssumption DEF Inv, TypeOK
  <1>2. CASE Save(s, store) /\ UNCHANGED <<incidents, faulty>>
    BY <1>1, <1>2 DEF Save
  <1>3. CASE /\ Incident /\ faulty' = TRUE
             /\ mem' = [mem EXCEPT ![s] = store]
             /\ UNCHANGED disk
    BY <1>1, <1>3 DEF Incident
  <1> QED BY <1>2, <1>3 DEF SavesMayFail

LEMMA TickMarkInv ==
  ASSUME Inv, NEW s \in Services, TickMark(s)
  PROVE  Inv'
  <1> DEFINE due == Runnable(disk)
  <1>1. /\ Granted(s, "mark") /\ UNCHANGED <<now, fresh, timer, life, current, holder, ops>>
        /\ excused' = [excused EXCEPT ![s] = {}]
    BY DEF TickMark
  <1>2. holder = None /\ phase[s] = "mark" /\ life[s] = "on"
    BY <1>1, GrantedKnown
  <1>3. Sane(disk) /\ now \in Nat /\ s <= current
    BY <1>2, Sanity DEF Started
  <1>4. /\ entry \in [Services -> [Jobs -> Entry]] /\ \A j \in Jobs : entry[s][j].step = "none"
        /\ excused' \in [Services -> SUBSET Jobs]
        /\ \A t \in Services : t # s => excused'[t] = excused[t]
        /\ incidents \in 0 .. MaxIncidents /\ faulty \in BOOLEAN
        /\ fresh \subseteq Jobs /\ \A i \in fresh : disk[i] = NoJob
    <2>1. /\ entry \in [Services -> [Jobs -> Entry]]
          /\ excused \in [Services -> SUBSET Jobs]
          /\ incidents \in 0 .. MaxIncidents /\ faulty \in BOOLEAN /\ fresh \subseteq Jobs
      BY DEF Inv, TypeOK
    <2>2. \A j \in Jobs : entry[s][j].step = "none"
      BY <1>2 DEF Inv, EntriesSound
    <2>3. \A i \in fresh : disk[i] = NoJob
      BY DEF Inv, FreshSound
    <2>4. /\ excused' \in [Services -> SUBSET Jobs]
          /\ \A t \in Services : t # s => excused'[t] = excused[t]
      BY <1>1, <2>1
    <2> QED BY <2>1, <2>2, <2>3, <2>4
  <1>5. ASSUME current = 1, ~faulty, NEW j \in Jobs, Marker(disk[j])
        PROVE  FALSE
    <2>1. s = 1
      BY <1>3, <1>5, Sanity
    <2>2. mem[1] # NoStore /\ life[1] = "on"
      BY <1>2, <2>1 DEF Inv, Lifecycle
    <2> QED BY <1>4, <1>5, <2>1, <2>2 DEF Inv, MarkersUsed
  <1>6. CASE /\ Save(s, Maintained(disk)) /\ phase' = [phase EXCEPT ![s] = "finish"]
             /\ UNCHANGED <<entry, incidents, faulty>>
    <2> DEFINE store == Maintained(disk)
    <2>1. Sane(store) /\ \A j \in Jobs : /\ store[j] = NoJob <=> disk[j] = NoJob
                                         /\ Marker(store[j]) => Marker(disk[j])
      BY <1>3, MaintainedSane
    <2>2. mem' = [mem EXCEPT ![s] = store] /\ disk' = store
      BY <1>6 DEF Save
    <2> HIDE DEF store
    <2>3. entry' = [entry EXCEPT ![s] = entry[s]] /\ entry[s] \in [Jobs -> Entry]
      BY <1>4, <1>6
    <2>4. queue' \in Seq(Request) /\ QueueSound'
      BY <1>1, <1>6, GrantedSound
    <2>5. \A j \in Jobs : store[j] = disk'[j]
      BY <2>2
    <2>6. \A i \in fresh : store[i] = NoJob
      BY <1>4, <2>1
    <2>7. current = 1 /\ ~faulty' => \A j \in Jobs : Marker(store[j]) => entry[s][j].step # "none"
      BY <1>5, <1>6, <2>1
    <2>8. (current = 1 /\ disk' = disk) =>
             \A j \in Jobs : (disk[j] # NoJob /\ disk[j].enabled /\ disk[j].running = None) =>
                 \/ store[j] = NoJob \/ ~store[j].enabled \/ store[j].next = disk[j].next
                 \/ j \in excused'[s]
      BY <2>5
    <2>9. TickSaves(s, store, entry[s], "finish")
      BY <1>1, <1>2, <1>4, <1>6, <2>1, <2>2, <2>3, <2>4, <2>6, <2>7, <2>8 DEF TickSaves
    <2> QED BY <2>9, TickSavedInv
  <1>7. CASE /\ SavesMayFail(s, Marked(disk, due))
             /\ \/ /\ incidents' = incidents
                   /\ phase' = [phase EXCEPT ![s] = "run"]
                   /\ entry' = [entry EXCEPT ![s] =
                                   [j \in Jobs |-> EntryAt(IF j \in due THEN "waiting" ELSE "none")]]
                \/ /\ incidents' # incidents
                   /\ phase' = [phase EXCEPT ![s] = "finish"]
                   /\ UNCHANGED entry
    <2> DEFINE store == Marked(disk, due)
               entries == [j \in Jobs |-> EntryAt(IF j \in due THEN "waiting" ELSE "none")]
    <2>1. due \in SUBSET Present(disk)
      BY DEF Runnable
    <2>2. /\ Sane(store)
          /\ \A j \in Jobs :
                /\ store[j] = NoJob <=> disk[j] = NoJob
                /\ j \in due => Marker(store[j])
                /\ j \notin due => store[j] = disk[j]
                /\ store[j] # NoJob => store[j].enabled = disk[j].enabled /\ store[j].next = disk[j].next
      BY <1>3, <2>1, MarkedSane
    <2>3. /\ mem' = [mem EXCEPT ![s] = store]
          /\ disk' = store \/ (disk' = disk /\ faulty')
          /\ incidents' = incidents => disk' = store
          /\ incidents' \in 0 .. MaxIncidents /\ faulty' \in BOOLEAN /\ (faulty => faulty')
      BY <1>7, SavesMayFailKnown
    <2>4. /\ entries \in [Jobs -> Entry]
          /\ \A j \in Jobs : entries[j].step = IF j \in due THEN "waiting" ELSE "none"
      BY IdleEntries
    <2> HIDE DEF store, due, entries
    <2>5. \A i \in fresh : store[i] = NoJob
      BY <1>4, <2>2
    <2>6. (current = 1 /\ disk' = disk) =>
             \A j \in Jobs : (disk[j] # NoJob /\ disk[j].enabled /\ disk[j].running = None) =>
                 \/ store[j] = NoJob \/ ~store[j].enabled \/ store[j].next = disk[j].next
                 \/ j \in excused'[s]
      BY <2>2
    <2>7. CASE /\ incidents' = incidents
               /\ phase' = [phase EXCEPT ![s] = "run"] /\ entry' = [entry EXCEPT ![s] = entries]
      <3>1. queue' \in Seq(Request) /\ QueueSound'
        BY <1>1, <2>7, GrantedSound
      <3>2. current = 1 /\ ~faulty' => \A j \in Jobs : Marker(store[j]) => entries[j].step # "none"
        BY <1>5, <2>2, <2>3, <2>4
      <3>3. \A j \in Jobs : entries[j].step \in {"none", "waiting"}
        BY <2>4
      <3>4. \A j \in Jobs : entries[j].step # "none" => disk' = store /\ Marker(store[j]) /\ store[j] # NoJob
        BY <2>2, <2>3, <2>4, <2>7 DEF Marker
      <3>5. TickSaves(s, store, entries, "run")
        BY <1>1, <1>2, <1>4, <2>2, <2>3, <2>4, <2>5, <2>6, <2>7, <3>1, <3>2, <3>3, <3>4 DEF TickSaves
      <3> QED BY <3>5, TickSavedInv
    <2>8. CASE /\ incidents' # incidents
               /\ phase' = [phase EXCEPT ![s] = "finish"] /\ UNCHANGED entry
      <3>1. queue' \in Seq(Request) /\ QueueSound'
        BY <1>1, <2>8, GrantedSound
      <3>2. entry' = [entry EXCEPT ![s] = entry[s]] /\ entry[s] \in [Jobs -> Entry]
        BY <1>4, <2>8
      <3>3. faulty'
        BY <1>7, <2>8 DEF SavesMayFail
      <3>4. TickSaves(s, store, entry[s], "finish")
        BY <1>1, <1>2, <1>4, <2>2, <2>3, <2>5, <2>6, <2>8, <3>1, <3>2, <3>3 DEF TickSaves
      <3> QED BY <3>4, TickSavedInv
    <2> QED BY <1>7, <2>7, <2>8 DEF entries
  <1> QED BY <1>6, <1>7 DEF TickMark

(* The results that a tick applies.                                        *)
LEMMA AppliedSane ==
  ASSUME Inv, NEW s \in Services, Granted(s, "apply")
  PROVE  LET applied == [j \in Jobs |->
                 IF disk[j] = NoJob \/ entry[s][j].step = "none" THEN disk[j]
                 ELSE Applied(disk[j], entry[s][j].status, entry[s][j].endedAt)]
         IN  /\ Sane(applied)
             /\ \A j \in Jobs :
                   /\ disk[j] = NoJob => applied[j] = NoJob
                   /\ entry[s][j].step = "none" => applied[j] = disk[j]
                   /\ entry[s][j].step # "none" => ~Marker(applied[j])
  <1> DEFINE applied == [j \in Jobs |->
                 IF disk[j] = NoJob \/ entry[s][j].step = "none" THEN disk[j]
                 ELSE Applied(disk[j], entry[s][j].status, entry[s][j].endedAt)]
  <1>2. phase[s] = "apply"
    BY GrantedKnown
  <1>3. Sane(disk)
    BY Sanity
  <1>4. ASSUME NEW j \in Jobs
        PROVE  /\ applied[j] \in Job \cup {NoJob} /\ Planned(applied[j])
               /\ disk[j] = NoJob => applied[j] = NoJob
               /\ entry[s][j].step = "none" => applied[j] = disk[j]
               /\ entry[s][j].step # "none" => ~Marker(applied[j])
    <2>1. disk[j] \in Job \cup {NoJob} /\ Planned(disk[j])
      BY <1>3 DEF Sane, Store
    <2>2. CASE disk[j] = NoJob \/ entry[s][j].step = "none"
      <3>1. applied[j] = disk[j]
        BY <2>2
      <3> HIDE DEF applied
      <3> QED BY <2>1, <2>2, <3>1 DEF Marker
    <2>3. CASE ~(disk[j] = NoJob \/ entry[s][j].step = "none")
      <3>1. entry[s][j].status \in Outcomes /\ entry[s][j].endedAt \in Times
        <4>1. entry[s][j].step = "done"
          BY <1>2, <2>3 DEF Inv, EntriesSound
        <4> QED BY <4>1 DEF Inv, EntriesSound
      <3>2. applied[j] = Applied(disk[j], entry[s][j].status, entry[s][j].endedAt)
        BY <2>3
      <3> HIDE DEF applied
      <3> QED BY <2>1, <2>3, <3>1, <3>2, AppliedJob
    <2> QED BY <2>2, <2>3
  <1>5. Sane(applied)
    <2>1. applied \in Store
      BY <1>4 DEF Store
    <2> QED BY <1>4, <2>1 DEF Sane
  <1> QED BY <1>4, <1>5

LEMMA TickApplyInv ==
  ASSUME Inv, NEW s \in Services, TickApply(s)
  PROVE  Inv'
  <1> DEFINE applied == [j \in Jobs |->
                 IF disk[j] = NoJob \/ entry[s][j].step = "none" THEN disk[j]
                 ELSE Applied(disk[j], entry[s][j].status, entry[s][j].endedAt)]
             store == Maintained(applied)
  <1>1. /\ Granted(s, "apply") /\ SavesMayFail(s, store)
        /\ phase' = [phase EXCEPT ![s] = "finish"] /\ entry' = [entry EXCEPT ![s] = Idle]
        /\ UNCHANGED <<now, fresh, timer, life, current, holder, ops, excused>>
    BY DEF TickApply
  <1>2. holder = None /\ phase[s] = "apply" /\ life[s] = "on"
    BY <1>1, GrantedKnown
  <1>3. Sane(disk) /\ now \in Nat /\ s <= current
    BY <1>2, Sanity DEF Started
  <1>4. /\ Sane(applied)
        /\ \A j \in Jobs :
               /\ disk[j] = NoJob => applied[j] = NoJob
               /\ entry[s][j].step = "none" => applied[j] = disk[j]
               /\ entry[s][j].step # "none" => ~Marker(applied[j])
    BY <1>1, AppliedSane
  <1> HIDE DEF applied
  <1>6. /\ Sane(store)
        /\ \A j \in Jobs : /\ store[j] = NoJob <=> applied[j] = NoJob
                           /\ Marker(store[j]) => Marker(applied[j])
                           /\ store[j] # NoJob =>
                                 /\ store[j].enabled = applied[j].enabled
                                 /\ store[j].enabled => store[j].next = applied[j].next
    BY <1>3, <1>4, MaintainedSane
  <1> HIDE DEF store
  <1>7. /\ mem' = [mem EXCEPT ![s] = store]
        /\ disk' = store \/ (disk' = disk /\ faulty')
        /\ incidents' \in 0 .. MaxIncidents /\ faulty' \in BOOLEAN /\ (faulty => faulty')
    BY <1>1, SavesMayFailKnown
  <1>8. queue' \in Seq(Request) /\ QueueSound'
    BY <1>1, GrantedSound
  <1>9. /\ fresh \subseteq Jobs /\ \A i \in fresh : disk[i] = NoJob
        /\ excused' \in [Services -> SUBSET Jobs] /\ excused' = excused
    BY <1>1 DEF Inv, TypeOK, FreshSound
  <1>10. \A i \in fresh : store[i] = NoJob
    BY <1>4, <1>6, <1>9
  <1>11. current = 1 => s = 1
    BY <1>3, Sanity
  <1>12. ASSUME current = 1, ~faulty', NEW j \in Jobs, Marker(store[j])
         PROVE  FALSE
    <2>1. entry[s][j].step = "none" /\ Marker(disk[j])
      BY <1>4, <1>6, <1>12
    <2>2. mem[1] # NoStore /\ life[1] = "on" /\ s = 1 /\ ~faulty
      BY <1>2, <1>7, <1>11, <1>12 DEF Inv, Lifecycle
    <2> QED BY <1>12, <2>1, <2>2 DEF Inv, MarkersUsed
  <1>13. ASSUME current = 1, NEW j \in Jobs, disk[j] # NoJob, disk[j].enabled, disk[j].running = None
         PROVE  \/ store[j] = NoJob \/ ~store[j].enabled \/ store[j].next = disk[j].next
                \/ j \in excused'[s]
    <2>1. CASE entry[s][j].step = "none"
      BY <1>4, <1>6, <2>1
    <2>2. CASE entry[s][j].step # "none"
      BY <1>9, <1>11, <1>13, <2>2 DEF Inv, DiskMarked, Marker
    <2> QED BY <2>1, <2>2
  <1>14. TickSaves(s, store, Idle, "finish")
    BY <1>1, <1>2, <1>6, <1>7, <1>8, <1>9, <1>10, <1>12, <1>13, IdleEntries DEF TickSaves
  <1> QED BY <1>14, TickSavedInv

(* A job in a tick that goes on: in memory its marker may be set again, no *)
(* more.                                                                   *)
LEMMA EntryStepInv ==
  ASSUME Inv, NEW s \in Services, NEW j \in Jobs, entry[s][j].step \in {"waiting", "running"},
         NEW e \in Entry, e.step \in {"running", "done"},
         e.step = "done" => e.status \in Outcomes /\ e.endedAt \in Times,
         entry' = [entry EXCEPT ![s][j] = e],
         mem' = mem \/ (mem[s][j] # NoJob /\ mem' = [mem EXCEPT ![s] = Marked(mem[s], {j})]),
         \/ UNCHANGED phase
         \/ /\ phase' = [phase EXCEPT ![s] = "apply"]
            /\ \A i \in Jobs : entry'[s][i].step \in {"none", "done"},
         queue' \in Seq(Request), QueueSound',
         UNCHANGED <<now, disk, fresh, timer, life, current, holder, ops, incidents, faulty, excused>>
  PROVE  Inv'
  <1>1. /\ mem \in [Services -> Store \cup {NoStore}]
        /\ entry \in [Services -> [Jobs -> Entry]]
        /\ phase \in [Services -> {"idle", "mark", "run", "apply", "finish"}]
        /\ fresh \subseteq Jobs
    BY DEF Inv, TypeOK
  <1>2. phase[s] = "run" /\ life[s] = "on" /\ mem[s] # NoStore /\ Started(s)
    BY <1>1 DEF Inv, EntriesSound, Lifecycle, Started
  <1>3. Sane(mem[s]) /\ now \in Nat /\ mem[s] \in Store
    BY <1>2, Sanity DEF Sane
  <1>4. /\ mem' \in [Services -> Store \cup {NoStore}]
        /\ \A t \in Services : mem'[t] = NoStore <=> mem[t] = NoStore
        /\ \A t \in Services : t # s => mem'[t] = mem[t]
        /\ Sane(mem'[s])
        /\ \A i \in Jobs :
              /\ mem'[s][i] = NoJob <=> mem[s][i] = NoJob
              /\ mem'[s][i] # NoJob =>
                    mem'[s][i].enabled = mem[s][i].enabled /\ mem'[s][i].next = mem[s][i].next
              /\ Marker(mem[s][i]) => Marker(mem'[s][i])
              /\ Marker(mem'[s][i]) => Marker(mem[s][i]) \/ i = j
    <2>1. CASE mem' = mem
      BY <1>1, <1>3, <2>1
    <2>2. CASE mem[s][j] # NoJob /\ mem' = [mem EXCEPT ![s] = Marked(mem[s], {j})]
      <3> DEFINE new == Marked(mem[s], {j})
      <3>1. {j} \in SUBSET Present(mem[s])
        BY <2>2 DEF Present
      <3>2. Sane(new) /\ \A i \in Jobs :
              /\ new[i] = NoJob <=> mem[s][i] = NoJob
              /\ i \in {j} => Marker(new[i])
              /\ i \notin {j} => new[i] = mem[s][i]
              /\ new[i] # NoJob => new[i].enabled = mem[s][i].enabled /\ new[i].next = mem[s][i].next
        BY <1>3, <3>1, MarkedSane
      <3>3. new \in Store /\ new # NoStore
        BY <3>2, NoneAssumption DEF Sane
      <3> HIDE DEF new
      <3>4. mem'[s] = new /\ \A t \in Services : t # s => mem'[t] = mem[t]
        BY <1>1, <2>2 DEF new
      <3>5. mem' \in [Services -> Store \cup {NoStore}]
        BY <1>1, <2>2, <3>3 DEF new
      <3> QED BY <1>2, <3>2, <3>3, <3>4, <3>5
    <2> QED BY <2>1, <2>2
  <1>5. /\ entry'[s][j] = e /\ \A i \in Jobs : i # j => entry'[s][i] = entry[s][i]
        /\ \A t \in Services : t # s => entry'[t] = entry[t]
        /\ \A t \in Services, i \in Jobs : entry'[t][i].step # "none" <=> entry[t][i].step # "none"
    BY <1>1
  <1>6. /\ phase' \in [Services -> {"idle", "mark", "run", "apply", "finish"}]
        /\ phase'[s] \in {"run", "apply"}
        /\ \A t \in Services : t # s => phase'[t] = phase[t]
        /\ phase'[s] = "apply" => \A i \in Jobs : entry'[s][i].step \in {"none", "done"}
    BY <1>1, <1>2
  <1>7. TypeOK'
    <2>1. entry' \in [Services -> [Jobs -> Entry]]
      BY <1>1
    <2> QED BY <1>4, <1>6, <2>1 DEF Inv, TypeOK
  <1>8. Lifecycle'
    BY <1>2, <1>4, <1>5, <1>6 DEF Inv, Lifecycle
  <1>9. EntriesSound'
    <2>1. ASSUME NEW t \in Services
          PROVE  /\ phase'[t] \notin {"run", "apply"} => \A i \in Jobs : entry'[t][i].step = "none"
                 /\ phase'[t] = "apply" => \A i \in Jobs : entry'[t][i].step \in {"none", "done"}
                 /\ \A i \in Jobs : entry'[t][i].step = "done" =>
                       entry'[t][i].status \in Outcomes /\ entry'[t][i].endedAt \in Times
      <3>1. CASE t = s
        BY <1>5, <1>6, <3>1 DEF Inv, EntriesSound
      <3>2. CASE t # s
        BY <1>5, <1>6, <3>2 DEF Inv, EntriesSound
      <3> QED BY <3>1, <3>2
    <2> QED BY <2>1 DEF EntriesSound, Times
  <1>10. HolderSound'
    <2>1. CASE holder = None
      BY <2>1 DEF HolderSound
    <2>2. CASE holder # None
      BY <2>2, <1>4, HolderKnown DEF Inv, HolderSound
    <2> QED BY <2>1, <2>2
  <1>11. FreshSound'
    BY <1>1, <1>4, <1>5 DEF Inv, FreshSound
  <1>12. NextKnown'
    <2>1. ASSUME NEW t \in Services, NEW i \in Jobs, mem'[t] # NoStore
          PROVE  Planned(mem'[t][i])
      BY <1>4, <2>1 DEF Inv, NextKnown, Sane
    <2> QED BY <2>1 DEF Inv, NextKnown, Planned
  <1>13. MemoryMarked'
    <2>1. ASSUME NEW t \in Services, NEW i \in Jobs, entry'[t][i].step # "none", mem'[t] # NoStore
          PROVE  mem'[t][i] = NoJob \/ Marker(mem'[t][i]) \/ i \in excused'[t]
      BY <1>4, <1>5, <2>1 DEF Inv, MemoryMarked
    <2>2. (holder # None /\ entry'[holder.svc][holder.job].step # "none") =>
             holder.job \in excused[holder.svc]
      BY <1>5, HolderKnown DEF Inv, MemoryMarked
    <2> QED BY <2>1, <2>2 DEF MemoryMarked, Marker
  <1>14. DiskMarked'
    <2>1. 1 \in Services
      BY Sanity
    <2> QED BY <1>5, <2>1 DEF Inv, DiskMarked, Marker
  <1>15. MarkersUsed'
    <2>1. ASSUME current = 1, ~faulty, mem'[1] # NoStore, NEW i \in Jobs
          PROVE  /\ (life[1] = "on" /\ Marker(disk[i])) => entry'[1][i].step # "none"
                 /\ Marker(mem'[1][i]) => entry'[1][i].step # "none" \/ (holder # None /\ holder.job = i)
      BY <1>4, <1>5, <2>1, Sanity DEF Inv, MarkersUsed
    <2> QED BY <2>1 DEF MarkersUsed, Marker
  <1>16. Agree'
    <2>1. 1 \in Services
      BY Sanity
    <2> QED BY <1>4, <2>1 DEF Inv, Agree
  <1>17. WakesInTime'
    <2>1. CASE s = current
      BY <1>6, <2>1 DEF WakesInTime
    <2>2. CASE s # current
      BY <1>4, <1>6, <2>2, Sanity DEF Inv, WakesInTime, Greater, Present, LockFree
    <2> QED BY <2>1, <2>2
  <1> QED BY <1>7, <1>8, <1>9, <1>10, <1>11, <1>12, <1>13, <1>14, <1>15, <1>16, <1>17 DEF Inv

(* Nothing that the queue depends on changes.                              *)
LEMMA QueueKept ==
  ASSUME Inv, UNCHANGED <<queue, life, phase>>
  PROVE  queue' \in Seq(Request) /\ QueueSound'
  BY DEF Inv, TypeOK, QueueSound

LEMMA StartDueInv ==
  ASSUME Inv, NEW s \in Services, NEW j \in Jobs, StartDue(s, j)
  PROVE  Inv'
  <1>1. queue' \in Seq(Request) /\ QueueSound'
    BY QueueKept DEF StartDue
  <1>2. EntryAt("running") \in Entry /\ EntryAt("running").step = "running"
    BY IdleEntries
  <1>3. mem' = mem \/ (mem[s][j] # NoJob /\ mem' = [mem EXCEPT ![s] = Marked(mem[s], {j})])
    BY DEF StartDue
  <1> QED BY <1>1, <1>2, <1>3, EntryStepInv DEF StartDue

(* The service asks for the lock on its way from one phase to another.     *)
LEMMA PhaseRequested ==
  ASSUME Inv, NEW s \in Services, NEW what \in {"mark", "apply"}, Requests(s, what),
         phase[s] \notin {"mark", "apply"}, phase' = [phase EXCEPT ![s] = what], UNCHANGED life
  PROVE  queue' \in Seq(Request) /\ QueueSound'
  <1>0. what \in {"start", "mark", "apply"}
    OBVIOUS
  <1>1. \A i \in 1 .. Len(queue) : queue[i] # [svc |-> s, for |-> what]
    BY QueueKnown
  <1>2. /\ queue' \in Seq(Request)
        /\ \A i, k \in 1 .. Len(queue') : queue'[i] = queue'[k] => i = k
        /\ \A i \in 1 .. Len(queue') :
              \/ queue'[i] = [svc |-> s, for |-> what]
              \/ /\ queue'[i] \in Request
                 /\ queue'[i].for = "start" => life[queue'[i].svc] = "new"
                 /\ queue'[i].for # "start" => phase[queue'[i].svc] = queue'[i].for
    BY <1>0, <1>1, RequestedKnown
  <1>3. phase \in [Services -> {"idle", "mark", "run", "apply", "finish"}]
    BY DEF Inv, TypeOK
  <1>4. ASSUME NEW i \in 1 .. Len(queue')
        PROVE  /\ queue'[i].for = "start" => life'[queue'[i].svc] = "new"
               /\ queue'[i].for \in {"mark", "apply"} => phase'[queue'[i].svc] = queue'[i].for
    <2>1. CASE queue'[i] = [svc |-> s, for |-> what]
      BY <1>3, <2>1
    <2>2. CASE /\ queue'[i] \in Request
               /\ queue'[i].for = "start" => life[queue'[i].svc] = "new"
               /\ queue'[i].for # "start" => phase[queue'[i].svc] = queue'[i].for
      BY <1>3, <2>2 DEF Request
    <2> QED BY <1>2, <2>1, <2>2
  <1> QED BY <1>2, <1>4 DEF QueueSound

LEMMA EndDueInv ==
  ASSUME Inv, NEW s \in Services, NEW j \in Jobs, NEW status \in Outcomes, EndDue(s, j, status)
  PROVE  Inv'
  <1> DEFINE e == [step |-> "done", status |-> status, endedAt |-> now]
  <1>1. /\ entry[s][j].step = "running" /\ entry' = [entry EXCEPT ![s][j] = e]
        /\ UNCHANGED <<now, disk, fresh, mem, timer, life, current, holder, ops, incidents, faulty, excused>>
    BY DEF EndDue
  <1>2. e \in Entry /\ e.step = "done" /\ e.status \in Outcomes /\ e.endedAt \in Times
    BY Sanity, BoundsAssumption DEF Entry, Maybe
  <1>3. /\ entry \in [Services -> [Jobs -> Entry]]
        /\ phase \in [Services -> {"idle", "mark", "run", "apply", "finish"}]
    BY DEF Inv, TypeOK
  <1>4. phase[s] = "run"
    BY <1>1, <1>3 DEF Inv, EntriesSound
  <1> HIDE DEF e
  <1>5. CASE /\ \A i \in Jobs \ {j} : entry[s][i].step \notin {"waiting", "running"}
             /\ phase' = [phase EXCEPT ![s] = "apply"] /\ Requests(s, "apply")
    <2>1. queue' \in Seq(Request) /\ QueueSound'
      BY <1>1, <1>4, <1>5, PhaseRequested
    <2>2. ASSUME NEW i \in Jobs
          PROVE  entry'[s][i].step \in {"none", "done"}
      <3>1. entry[s][i] \in Entry
        BY <1>3
      <3>2. CASE i = j
        BY <1>1, <1>2, <1>3, <3>2
      <3>3. CASE i # j
        BY <1>1, <1>3, <1>5, <3>1, <3>3 DEF Entry
      <3> QED BY <3>2, <3>3
    <2> QED BY <1>1, <1>2, <1>5, <2>1, <2>2, EntryStepInv
  <1>6. CASE UNCHANGED <<phase, queue>>
    <2>1. queue' \in Seq(Request) /\ QueueSound'
      BY <1>1, <1>6, QueueKept
    <2> QED BY <1>1, <1>2, <1>6, <2>1, EntryStepInv
  <1> QED BY <1>5, <1>6 DEF EndDue

(* Only the timer of s and its phase change, besides the queue.            *)
LEMMA TimerStepInv ==
  ASSUME Inv, NEW s \in Services, life[s] = "on",
         NEW stage \in {"idle", "mark"}, phase[s] \in {"idle", "finish"} \/ UNCHANGED phase,
         UNCHANGED phase \/ phase' = [phase EXCEPT ![s] = stage],
         queue' \in Seq(Request), QueueSound',
         timer' \in [Services -> Maybe(Nat)],
         \A t \in Services : t # s => timer'[t] = timer[t],
         phase'[s] = "idle" => InTime(mem[s], timer'[s]),
         UNCHANGED <<now, disk, fresh, mem, life, current, entry, holder, ops, incidents, faulty, excused>>
  PROVE  Inv'
  <1>1. phase \in [Services -> {"idle", "mark", "run", "apply", "finish"}]
    BY DEF Inv, TypeOK
  <1>2. /\ phase' \in [Services -> {"idle", "mark", "run", "apply", "finish"}]
        /\ \A t \in Services : t # s => phase'[t] = phase[t]
        /\ phase'[s] = phase[s] \/ (phase'[s] = stage /\ phase[s] \in {"idle", "finish"})
    BY <1>1
  <1>3. TypeOK'
    BY <1>2 DEF Inv, TypeOK
  <1>4. Lifecycle'
    BY <1>2 DEF Inv, Lifecycle
  <1>5. EntriesSound'
    <2>1. ASSUME NEW t \in Services
          PROVE  /\ phase'[t] \notin {"run", "apply"} => \A i \in Jobs : entry[t][i].step = "none"
                 /\ phase'[t] = "apply" => \A i \in Jobs : entry[t][i].step \in {"none", "done"}
                 /\ \A i \in Jobs : entry[t][i].step = "done" =>
                       entry[t][i].status \in Outcomes /\ entry[t][i].endedAt \in Times
      BY <1>2 DEF Inv, EntriesSound
    <2> QED BY <2>1 DEF EntriesSound, Times
  <1>6. HolderSound' /\ FreshSound' /\ NextKnown' /\ MemoryMarked' /\ DiskMarked' /\ MarkersUsed' /\ Agree'
    <2>1. HolderSound'
      BY DEF Inv, HolderSound
    <2>2. FreshSound'
      BY DEF Inv, FreshSound
    <2>3. NextKnown'
      BY DEF Inv, NextKnown, Planned
    <2>4. MemoryMarked'
      BY DEF Inv, MemoryMarked, Marker
    <2>5. DiskMarked'
      BY DEF Inv, DiskMarked, Marker
    <2>6. MarkersUsed'
      BY DEF Inv, MarkersUsed, Marker
    <2>7. Agree'
      BY DEF Inv, Agree
    <2> QED BY <2>1, <2>2, <2>3, <2>4, <2>5, <2>6, <2>7
  <1>7. WakesInTime'
    <2>1. CASE s = current
      BY <2>1 DEF WakesInTime, InTime, Greater, Present
    <2>2. CASE s # current
      BY <1>2, <2>2, Sanity DEF Inv, WakesInTime, Greater, Present, LockFree
    <2> QED BY <2>1, <2>2
  <1> QED BY <1>3, <1>4, <1>5, <1>6, <1>7 DEF Inv

LEMMA TimerFiresInv ==
  ASSUME Inv, NEW s \in Services, TimerFires(s)
  PROVE  Inv'
  <1>1. /\ timer \in [Services -> Maybe(Nat)]
        /\ phase \in [Services -> {"idle", "mark", "run", "apply", "finish"}]
        /\ life[s] = "on" /\ None \notin Nat
    <2>1. life[s] = "on"
      BY DEF TimerFires, Inv, Lifecycle
    <2> QED BY <2>1, NoneAssumption DEF Inv, TypeOK
  <1>2. UNCHANGED <<now, disk, fresh, mem, life, current, entry, holder, ops, incidents, faulty, excused>>
    BY DEF TimerFires
  <1>3. CASE /\ phase[s] # "idle"
             /\ timer' = [timer EXCEPT ![s] = Least({now + MaxTimerDelay, MaxTime})]
             /\ UNCHANGED <<phase, queue>>
    <2> DEFINE S == {now + MaxTimerDelay, MaxTime}
    <2>1. S \in SUBSET Nat /\ S # {}
      BY Sanity, BoundsAssumption
    <2>2. Least(S) \in Nat
      <3> HIDE DEF S
      <3> QED BY <2>1, LeastExists
    <2>3. timer' \in [Services -> Maybe(Nat)] /\ \A t \in Services : t # s => timer'[t] = timer[t]
      BY <1>1, <1>3, <2>2 DEF Maybe
    <2>4. queue' \in Seq(Request) /\ QueueSound'
      BY <1>2, <1>3, QueueKept
    <2> QED BY <1>1, <1>2, <1>3, <2>3, <2>4, TimerStepInv
  <1>4. CASE /\ phase[s] = "idle" /\ Requests(s, "mark")
             /\ timer' = [timer EXCEPT ![s] = None]
             /\ phase' = [phase EXCEPT ![s] = "mark"]
    <2>1. queue' \in Seq(Request) /\ QueueSound'
      BY <1>2, <1>4, PhaseRequested
    <2>2. timer' \in [Services -> Maybe(Nat)] /\ \A t \in Services : t # s => timer'[t] = timer[t]
      BY <1>1, <1>4 DEF Maybe
    <2>3. phase'[s] # "idle"
      BY <1>1, <1>4
    <2> QED BY <1>1, <1>2, <1>4, <2>1, <2>2, <2>3, TimerStepInv
  <1> QED BY <1>3, <1>4 DEF TimerFires

LEMMA TickFinishInv ==
  ASSUME Inv, NEW s \in Services, TickFinish(s)
  PROVE  Inv'
  <1>1. /\ phase[s] = "finish" /\ phase' = [phase EXCEPT ![s] = "idle"]
        /\ Arm(s, mem[s])
        /\ UNCHANGED <<now, disk, fresh, mem, life, current, entry, holder, queue, ops, incidents, faulty, excused>>
    BY DEF TickFinish
  <1>2. /\ phase \in [Services -> {"idle", "mark", "run", "apply", "finish"}]
        /\ life[s] = "on" /\ Started(s)
    BY <1>1 DEF Inv, TypeOK, Lifecycle, Started
  <1>3. Sane(mem[s])
    BY <1>2, Sanity
  <1>4. /\ timer' \in [Services -> Maybe(Nat)]
        /\ \A t \in Services : t # s => timer'[t] = timer[t]
        /\ InTime(mem[s], timer'[s])
    BY <1>1, <1>3, ArmIsInTime
  <1>5. queue' \in Seq(Request) /\ QueueSound'
    <2>1. ASSUME NEW i \in 1 .. Len(queue), queue[i].for \in {"mark", "apply"}
          PROVE  phase'[queue[i].svc] = queue[i].for
      <3>1. phase[queue[i].svc] = queue[i].for /\ queue[i].svc \in Services
        BY <2>1, QueueKnown DEF Request
      <3> QED BY <1>1, <1>2, <2>1, <3>1
    <2> QED BY <1>1, <2>1 DEF Inv, TypeOK, QueueSound
  <1> QED BY <1>1, <1>2, <1>4, <1>5, TimerStepInv

-----------------------------------------------------------------------------
(* Reloads, restarts and time.                                             *)

LEMMA ReplaceInv ==
  ASSUME Inv, Replace
  PROVE  Inv'
  <1> DEFINE n == current + 1
  <1>1. /\ current < MaxServices /\ Requests(n, "start")
        /\ timer' = [timer EXCEPT ![current] = None]
        /\ life' = [life EXCEPT ![n] = "new"]
        /\ current' = n /\ incidents < MaxIncidents /\ incidents' = incidents + 1
        /\ UNCHANGED <<now, disk, fresh, mem, phase, entry, holder, ops, faulty, excused>>
    BY DEF Replace, Incident
  <1>2. /\ timer \in [Services -> Maybe(Nat)]
        /\ life \in [Services -> {"none", "new", "starting", "on"}]
        /\ incidents \in 0 .. MaxIncidents /\ MaxIncidents \in Nat
        /\ current \in Services /\ current \in Nat \ {0} /\ n \in Services /\ n # current /\ n # 1 /\ n > current
    BY <1>1, Sanity, BoundsAssumption DEF Inv, TypeOK, Services
  <1>3. life[n] = "none"
    BY <1>2 DEF Inv, Lifecycle
  <1> HIDE DEF n
  <1>4. /\ life'[n] = "new" /\ \A t \in Services : t # n => life'[t] = life[t]
        /\ timer' \in [Services -> Maybe(Nat)]
        /\ timer'[current] = None /\ \A t \in Services : t # current => timer'[t] = timer[t]
    BY <1>1, <1>2 DEF Maybe
  <1>5. queue' \in Seq(Request) /\ QueueSound'
    <2>1. \A i \in 1 .. Len(queue) : queue[i] # [svc |-> n, for |-> "start"]
      BY <1>3, QueueKnown
    <2>2. /\ queue' \in Seq(Request)
          /\ \A i, k \in 1 .. Len(queue') : queue'[i] = queue'[k] => i = k
          /\ \A i \in 1 .. Len(queue') :
                \/ queue'[i] = [svc |-> n, for |-> "start"]
                \/ /\ queue'[i] \in Request
                   /\ queue'[i].for = "start" => life[queue'[i].svc] = "new"
                   /\ queue'[i].for # "start" => phase[queue'[i].svc] = queue'[i].for
      BY <1>1, <1>2, <2>1, RequestedKnown
    <2>3. ASSUME NEW i \in 1 .. Len(queue')
          PROVE  /\ queue'[i].for = "start" => life'[queue'[i].svc] = "new"
                 /\ queue'[i].for \in {"mark", "apply"} => phase'[queue'[i].svc] = queue'[i].for
      <3>1. CASE queue'[i] = [svc |-> n, for |-> "start"]
        BY <1>4, <3>1
      <3>2. CASE /\ queue'[i] \in Request
                 /\ queue'[i].for = "start" => life[queue'[i].svc] = "new"
                 /\ queue'[i].for # "start" => phase[queue'[i].svc] = queue'[i].for
        BY <1>1, <1>3, <1>4, <3>2 DEF Request
      <3> QED BY <2>2, <3>1, <3>2
    <2> QED BY <2>2, <2>3 DEF QueueSound
  <1>6. TypeOK'
    <2>1. life' \in [Services -> {"none", "new", "starting", "on"}]
      BY <1>1, <1>2
    <2>2. incidents' \in 0 .. MaxIncidents
      BY <1>1, <1>2
    <2> QED BY <1>1, <1>2, <1>4, <1>5, <2>1, <2>2 DEF Inv, TypeOK
  <1>7. Lifecycle'
    <2>1. ASSUME NEW t \in Services
          PROVE  /\ mem[t] # NoStore <=> life'[t] \in {"starting", "on"}
                 /\ life'[t] # "on" =>
                       /\ phase[t] = "idle" /\ timer'[t] = None
                       /\ \A j \in Jobs : entry[t][j].step = "none"
                 /\ t > n => life'[t] = "none"
                 /\ t = n => life'[t] # "none"
      <3>1. t \in Nat /\ (t > n => t > current)
        BY <1>2, Sanity DEF n
      <3>2. CASE t = n
        BY <1>2, <1>3, <1>4, <3>1, <3>2 DEF Inv, Lifecycle
      <3>3. CASE t # n
        BY <1>4, <3>1, <3>3 DEF Inv, Lifecycle
      <3> QED BY <3>2, <3>3
    <2> QED BY <1>1, <2>1 DEF Lifecycle
  <1>8. EntriesSound'
    BY <1>1 DEF Inv, EntriesSound, Times
  <1>9. HolderSound'
    <2>1. CASE holder = None
      BY <1>1, <2>1 DEF HolderSound
    <2>2. CASE holder # None
      <3>1. holder.svc # n /\ holder.svc \in Services
        BY <1>3, <2>2, HolderKnown DEF Started
      <3> QED BY <1>1, <1>4, <2>2, <3>1 DEF Inv, HolderSound
    <2> QED BY <2>1, <2>2
  <1>10. FreshSound' /\ NextKnown' /\ MemoryMarked'
    <2>1. FreshSound'
      BY <1>1 DEF Inv, FreshSound
    <2>2. NextKnown'
      BY <1>1 DEF Inv, NextKnown, Planned
    <2>3. MemoryMarked'
      BY <1>1 DEF Inv, MemoryMarked, Marker
    <2> QED BY <2>1, <2>2, <2>3
  <1>11. DiskMarked' /\ MarkersUsed' /\ Agree'
    BY <1>1, <1>2 DEF DiskMarked, MarkersUsed, Agree
  <1>12. WakesInTime'
    BY <1>1, <1>4 DEF WakesInTime
  <1> QED BY <1>5, <1>6, <1>7, <1>8, <1>9, <1>10, <1>11, <1>12 DEF Inv

(* The first service waits to start, and nothing else goes on.             *)
Waiting ==
    /\ now \in Times /\ disk \in Store /\ fresh \subseteq Jobs
    /\ ops \in 0 .. MaxOps /\ incidents \in 0 .. MaxIncidents
    /\ \A j \in Jobs : Planned(disk[j]) /\ (j \in fresh => disk[j] = NoJob)
    /\ mem = [s \in Services |-> NoStore]
    /\ timer = [s \in Services |-> None]
    /\ life = [s \in Services |-> IF s = 1 THEN "new" ELSE "none"]
    /\ current = 1
    /\ phase = [s \in Services |-> "idle"]
    /\ entry = [s \in Services |-> Idle]
    /\ holder = None
    /\ queue = <<[svc |-> 1, for |-> "start"]>>
    /\ faulty = FALSE
    /\ excused = [s \in Services |-> {}]

LEMMA WaitingInv ==
  ASSUME Waiting
  PROVE  Inv
  <1> USE DEF Waiting
  <1>1. 1 \in Services /\ \A s \in Services : s \in Nat \ {0}
    BY BoundsAssumption DEF Services
  <1>2. queue \in Seq(Request) /\ Len(queue) = 1 /\ queue[1] = [svc |-> 1, for |-> "start"]
    BY <1>1 DEF Request
  <1>3. Idle \in [Jobs -> Entry] /\ \A j \in Jobs : Idle[j].step = "none"
    BY IdleEntries
  <1>4. \A s \in Services :
          /\ mem[s] = NoStore /\ timer[s] = None /\ phase[s] = "idle" /\ entry[s] = Idle
          /\ life[s] = IF s = 1 THEN "new" ELSE "none"
    OBVIOUS
  <1>5. TypeOK
    BY <1>1, <1>2, <1>3 DEF TypeOK, Maybe
  <1>6. Lifecycle
    BY <1>1, <1>3, <1>4 DEF Lifecycle
  <1>7. QueueSound
    BY <1>1, <1>2, <1>4 DEF QueueSound
  <1>8. EntriesSound
    BY <1>3, <1>4 DEF EntriesSound
  <1>9. HolderSound
    BY DEF HolderSound
  <1>10. FreshSound
    BY <1>3, <1>4 DEF FreshSound
  <1>11. NextKnown
    BY <1>4 DEF NextKnown
  <1>12. MemoryMarked /\ DiskMarked
    BY <1>1, <1>3, <1>4 DEF MemoryMarked, DiskMarked
  <1>13. MarkersUsed /\ Agree /\ WakesInTime
    BY <1>1, <1>4 DEF MarkersUsed, Agree, WakesInTime
  <1> QED BY <1>5, <1>6, <1>7, <1>8, <1>9, <1>10, <1>11, <1>12, <1>13 DEF Inv

LEMMA InitInv == Init => Inv
  <1> SUFFICES ASSUME Init PROVE Inv
    OBVIOUS
  <1>1. ASSUME NEW j \in Jobs
        PROVE  disk[j] \in Job \cup {NoJob} /\ Planned(disk[j]) /\ (j \in fresh => disk[j] = NoJob)
    <2>1. disk[j] = IF InitialSpecs[j] = NoJob THEN NoJob ELSE Created(InitialSpecs[j], 0)
      BY DEF Init
    <2>2. CASE InitialSpecs[j] = NoJob
      BY <2>1, <2>2 DEF Planned
    <2>3. CASE InitialSpecs[j] # NoJob
      <3>1. InitialSpecs[j] \in Schedule
        BY <2>3, ScheduleAssumption
      <3> QED BY <2>1, <2>3, <3>1, CreatedJob DEF Init
    <2> QED BY <2>2, <2>3
  <1>2. disk \in Store
    BY <1>1 DEF Init, Store
  <1>3. Waiting
    BY <1>1, <1>2, BoundsAssumption DEF Init, Waiting, Times
  <1> QED BY <1>3, WaitingInv

LEMMA CrashInv ==
  ASSUME Inv, Crash
  PROVE  Inv'
  <1>1. incidents' \in 0 .. MaxIncidents
    BY BoundsAssumption DEF Inv, TypeOK, Crash, Incident
  <1>2. \A j \in Jobs : Planned(disk[j])' /\ (j \in fresh' => disk'[j] = NoJob)
    BY DEF Inv, NextKnown, FreshSound, Crash, Planned
  <1>3. Waiting'
    BY <1>1, <1>2 DEF Inv, TypeOK, Crash, Booted, Waiting, Times, Idle, EntryAt, Services
  <1> QED BY <1>3, WaitingInv, PTL

LEMMA TickInv ==
  ASSUME Inv, Tick
  PROVE  Inv'
  <1> USE DEF Tick
  <1>1. now \in Nat /\ now' = now + 1 /\ now' \in Times
    BY Sanity, BoundsAssumption DEF Times
  <1>2. TypeOK'
    BY <1>1 DEF Inv, TypeOK
  <1>3. Lifecycle' /\ QueueSound' /\ HolderSound' /\ FreshSound' /\ MemoryMarked' /\ DiskMarked'
    <2>1. Lifecycle'
      BY DEF Inv, Lifecycle
    <2>2. QueueSound'
      BY DEF Inv, QueueSound
    <2>3. HolderSound'
      BY DEF Inv, HolderSound
    <2>4. FreshSound'
      BY DEF Inv, FreshSound
    <2>5. MemoryMarked'
      BY DEF Inv, MemoryMarked, Marker
    <2>6. DiskMarked'
      BY DEF Inv, DiskMarked, Marker
    <2> QED BY <2>1, <2>2, <2>3, <2>4, <2>5, <2>6
  <1>4. EntriesSound'
    BY DEF Inv, EntriesSound, Times
  <1>5. NextKnown' /\ MarkersUsed' /\ Agree'
    <2>1. NextKnown'
      BY DEF Inv, NextKnown, Planned
    <2>2. MarkersUsed'
      BY DEF Inv, MarkersUsed, Marker
    <2>3. Agree'
      BY DEF Inv, Agree
    <2> QED BY <2>1, <2>2, <2>3
  <1>6. WakesInTime'
    <2>1. ASSUME life[current] = "on", phase[current] = "idle", LockFree \/ holder.svc # current,
                 NEW j \in Present(mem[current]),
                 mem[current][j].enabled, mem[current][j].next # None
          PROVE  timer[current] # None /\ timer[current] <= Greater(mem[current][j].next, now + 1)
      <3>1. timer[current] # None /\ timer[current] <= Greater(mem[current][j].next, now)
        BY <2>1 DEF Inv, WakesInTime
      <3>2. timer[current] \in Nat /\ mem[current][j].next \in Nat
        <4>1. current \in Services /\ Sane(mem[current])
          BY <2>1, Sanity DEF Started
        <4>2. mem[current][j] \in Job
          BY <2>1, <4>1 DEF Sane, Store, Present
        <4>3. timer[current] \in Maybe(Nat)
          BY <4>1 DEF Inv, TypeOK
        <4> QED BY <2>1, <3>1, <4>2, <4>3 DEF Job, Maybe
      <3> QED BY <1>1, <3>1, <3>2 DEF Greater
    <2> QED BY <1>1, <2>1 DEF WakesInTime, LockFree, Present
  <1> QED BY <1>2, <1>3, <1>4, <1>5, <1>6 DEF Inv

LEMMA StutterInv ==
  ASSUME Inv, UNCHANGED vars
  PROVE  Inv'
  BY DEF vars, Inv, TypeOK, Lifecycle, QueueSound, EntriesSound, HolderSound, FreshSound, NextKnown,
         MemoryMarked, DiskMarked, MarkersUsed, Agree, WakesInTime, Planned, Marker, Present, LockFree,
         Times

-----------------------------------------------------------------------------
(* The specification.                                                      *)

LEMMA InternalInv ==
  ASSUME Inv, NEW s \in Services, Internal(s)
  PROVE  Inv'
  <1>1. CASE \E j \in Jobs : StartDue(s, j)
    BY <1>1, StartDueInv
  <1>2. CASE \E j \in Jobs, status \in Outcomes : EndDue(s, j, status)
    BY <1>2, EndDueInv
  <1> QED
    BY <1>1, <1>2, TimerFiresInv, TickMarkInv, TickApplyInv, TickFinishInv, StartInv DEF Internal

LEMMA NextInv ==
  ASSUME Inv, [Next]_vars
  PROVE  Inv'
  <1>1. CASE \E s \in Services : Internal(s)
    BY <1>1, InternalInv
  <1>2. CASE \E status \in Outcomes : ExecutionEnds(status)
    BY <1>2, ExecutionEndsInv
  <1>3. CASE Command
    <2>1. CASE Read
      BY <2>1, ReadInv
    <2>2. ASSUME NEW j \in Jobs,
                 \/ \E schedule \in Specs : Add(j, schedule)
                 \/ UpdateOf(j)
                 \/ Remove(j)
                 \/ \E forced \in BOOLEAN : RunBegin(j, forced)
          PROVE  Inv'
      BY <2>2, AddInv, UpdateOfInv, RemoveInv, RunBeginInv
    <2> QED BY <1>3, <2>1, <2>2 DEF Command
  <1>4. CASE Replace \/ Crash \/ Tick
    BY <1>4, ReplaceInv, CrashInv, TickInv
  <1>5. CASE UNCHANGED vars
    BY <1>5, StutterInv
  <1> QED BY <1>1, <1>2, <1>3, <1>4, <1>5 DEF Next

THEOREM SpecInv == Spec => []Inv
  <1>1. Init => Inv
    BY InitInv
  <1>2. Inv /\ [Next]_vars => Inv'
    BY NextInv
  <1> QED BY <1>1, <1>2, PTL DEF Spec

(* A service never executes a job twice at a time, and no marker on disk   *)
(* outlives what it stands for: with the markers of the invariant, the     *)
(* execution in the lock has no entry in its own service's tick, and a     *)
(* marker belongs to an entry or to a service that has not started.        *)
THEOREM SpecMarkersHold == Spec => []MarkersHold
  <1>1. Inv => MarkersHold
    <2> SUFFICES ASSUME Inv PROVE MarkersHold
      OBVIOUS
    <2>1. NoOverlap
      BY DEF Inv, MemoryMarked, NoOverlap
    <2>2. MarkerIsOwned
      <3> SUFFICES ASSUME ~faulty, current = 1, NEW j \in Jobs, Marker(disk[j])
                   PROVE  \E s \in Services : entry[s][j].step # "none" \/ life[s] \in {"new", "starting"}
        BY DEF MarkerIsOwned, Marker, Present
      <3>1. 1 \in Services /\ life[1] \in {"none", "new", "starting", "on"} /\ life[1] # "none"
        BY Sanity DEF Inv, TypeOK, Lifecycle
      <3>2. CASE life[1] \in {"new", "starting"}
        BY <3>1, <3>2
      <3>3. CASE life[1] = "on"
        BY <3>1, <3>3 DEF Inv, Lifecycle, MarkersUsed
      <3> QED BY <3>1, <3>2, <3>3
    <2> QED BY <2>1, <2>2 DEF Inv, MarkersHold
  <1> QED BY <1>1, SpecInv, PTL

(* The scheduler never sleeps past an enabled job of the current service.  *)
THEOREM SpecWakesInTime == Spec => []WakesInTime
  <1>1. Inv => WakesInTime
    BY DEF Inv
  <1> QED BY <1>1, SpecInv, PTL

-----------------------------------------------------------------------------
(* Due jobs.                                                               *)

(* A next run that is the same as before was not moved on.                 *)
LEMMA SameNotSkipped ==
  ASSUME Inv, NEW j \in Jobs, PastDue(disk[j]), disk'[j].next = disk[j].next
  PROVE  ~Skipped(j)
  <1>1. now \in Nat /\ disk[j] \in Job /\ disk[j].next # None /\ now >= disk[j].next
    BY Sanity DEF Sane, Store, PastDue, IsDue
  <1>2. disk[j].next \in Nat
    BY <1>1 DEF Job, Maybe
  <1> QED BY <1>1, <1>2 DEF Skipped

(* A tick maintains or marks the store that it reads, and applies results. *)
LEMMA TickMarkKeeps ==
  ASSUME Inv, NEW s \in Services, TickMark(s), NEW j \in Jobs
  PROVE  ~Skipped(j)
  <1> SUFFICES ASSUME Skipped(j) PROVE FALSE
    OBVIOUS
  <1>1. /\ PastDue(disk[j]) /\ disk'[j] # NoJob /\ disk'[j].enabled
        /\ Sane(disk) /\ now \in Nat
    BY Sanity DEF Skipped
  <1>2. CASE disk' = Maintained(disk)
    <2> DEFINE store == Maintained(disk)
    <2>1. store[j] # NoJob => /\ store[j].enabled = disk[j].enabled
                              /\ store[j].enabled => store[j].next = disk[j].next
      BY <1>1, MaintainedSane
    <2> HIDE DEF store
    <2>2. disk' = store
      BY <1>2 DEF store
    <2> QED BY <1>1, <2>1, <2>2, SameNotSkipped
  <1>3. CASE disk' = Marked(disk, Runnable(disk))
    <2> DEFINE store == Marked(disk, Runnable(disk))
    <2>1. Runnable(disk) \in SUBSET Present(disk)
      BY DEF Runnable
    <2>2. store[j] # NoJob => store[j].next = disk[j].next
      BY <1>1, <2>1, MarkedSane
    <2> HIDE DEF store
    <2>3. disk' = store
      BY <1>3 DEF store
    <2> QED BY <1>1, <2>2, <2>3, SameNotSkipped
  <1>4. CASE UNCHANGED disk
    BY <1>1, <1>4, SameNotSkipped
  <1> QED BY <1>2, <1>3, <1>4 DEF TickMark, SavesMayFail, Save

LEMMA TickApplyKeeps ==
  ASSUME Inv, NEW s \in Services, TickApply(s), NEW j \in Jobs, Skipped(j)
  PROVE  entry[s][j].step # "none" /\ entry'[s][j].step = "none"
  <1> DEFINE applied == [i \in Jobs |->
                 IF disk[i] = NoJob \/ entry[s][i].step = "none" THEN disk[i]
                 ELSE Applied(disk[i], entry[s][i].status, entry[s][i].endedAt)]
             store == Maintained(applied)
  <1>1. /\ Granted(s, "apply") /\ SavesMayFail(s, store)
        /\ entry' = [entry EXCEPT ![s] = Idle]
    BY DEF TickApply
  <1>2. /\ PastDue(disk[j]) /\ disk'[j] # NoJob /\ disk'[j].enabled
        /\ Sane(disk) /\ now \in Nat
    BY Sanity DEF Skipped
  <1>3. entry'[s][j].step = "none"
    BY <1>1, IdleEntries DEF Inv, TypeOK
  <1>4. ASSUME entry[s][j].step = "none"
        PROVE  FALSE
    <2>1. Sane(applied)
      BY <1>1, AppliedSane
    <2>2. applied[j] = disk[j]
      BY <1>4
    <2> HIDE DEF applied
    <2>3. store[j] # NoJob => /\ store[j].enabled = applied[j].enabled
                              /\ store[j].enabled => store[j].next = applied[j].next
      BY <1>2, <2>1, MaintainedSane
    <2> HIDE DEF store
    <2>4. disk' = store \/ disk' = disk
      BY <1>1 DEF SavesMayFail, Save
    <2> QED BY <1>2, <2>2, <2>3, <2>4, SameNotSkipped
  <1> QED BY <1>3, <1>4

(* What an operation leaves alone in memory it does not move on on disk.   *)
LEMMA OperationKeeps ==
  ASSUME Inv, Operation, current = 1, NEW j \in Jobs, Skipped(j),
         \/ disk'[j] = mem[1][j]
         \/ disk'[j].enabled = mem[1][j].enabled /\ mem[1][j] # NoJob
            /\ (disk'[j].enabled => disk'[j].next = mem[1][j].next)
  PROVE  j \in excused[1]
  <1>1. PastDue(disk[j]) /\ disk'[j] # NoJob /\ disk'[j].enabled /\ life[1] = "on"
    BY DEF Skipped, Operation
  <1>2. mem[1][j] # NoJob /\ mem[1][j].enabled /\ disk'[j].next = mem[1][j].next
    BY <1>1
  <1>3. disk'[j].next # disk[j].next
    BY <1>1, SameNotSkipped
  <1> QED BY <1>1, <1>2, <1>3 DEF Inv, Agree, PastDue

LEMMA UpdateKeeps ==
  ASSUME Inv, current = 1, NEW i \in Jobs, UpdateOf(i), NEW j \in Jobs, j # i, Skipped(j)
  PROVE  j \in excused[1]
  <1>1. ASSUME NEW job, Update(i, job)
        PROVE  j \in excused[1]
    <2>1. Operation /\ disk' = [mem[1] EXCEPT ![i] = job]
      BY <1>1 DEF Update, Save
    <2>2. mem[1] \in Store
      BY <2>1, OperationKnown, Sanity DEF Sane
    <2>3. disk'[j] = mem[1][j]
      BY <2>1, <2>2 DEF Store
    <2> QED BY <2>1, <2>3, OperationKeeps
  <1> QED BY <1>1 DEF UpdateOf

LEMMA RemoveKeeps ==
  ASSUME Inv, current = 1, NEW i \in Jobs, Remove(i), NEW j \in Jobs, Skipped(j)
  PROVE  j \in excused[1]
  <1>1. Operation /\ disk' = [mem[1] EXCEPT ![i] = NoJob]
    BY DEF Remove, Save
  <1>2. mem[1] \in Store
    BY <1>1, OperationKnown, Sanity DEF Sane
  <1>3. CASE i = j
    BY <1>1, <1>2, <1>3 DEF Store, Skipped
  <1>4. CASE i # j
    <2>1. disk'[j] = mem[1][j]
      BY <1>1, <1>2, <1>4 DEF Store
    <2> QED BY <1>1, <2>1, OperationKeeps
  <1> QED BY <1>3, <1>4

LEMMA ReadKeeps ==
  ASSUME Inv, current = 1, Read, NEW j \in Jobs, Skipped(j)
  PROVE  j \in excused[1]
  <1> DEFINE store == Maintained(mem[1])
  <1>1. Operation /\ disk' = store
    BY DEF Read, Save
  <1>2. Sane(mem[1]) /\ now \in Nat
    BY <1>1, OperationKnown, Sanity
  <1>3. /\ store[j] = NoJob <=> mem[1][j] = NoJob
        /\ store[j] # NoJob => /\ store[j].enabled = mem[1][j].enabled
                               /\ store[j].enabled => store[j].next = mem[1][j].next
    BY <1>2, MaintainedSane
  <1> HIDE DEF store
  <1>4. store[j] # NoJob
    BY <1>1 DEF Skipped
  <1> QED BY <1>1, <1>3, <1>4, OperationKeeps

(* What may move the next run of a due job on.                             *)
Excepted(j) ==
    \/ j \in excused[1]
    \/ \E s \in Services : entry[s][j].step # "none" /\ entry'[s][j].step = "none"
    \/ holder # None /\ holder' = None
    \/ \E s \in Services : life[s] = "new" /\ life'[s] = "on"
    \/ fresh' # fresh
    \/ UpdateOf(j)

LEMMA NextKeeps ==
  ASSUME Inv, [Next]_vars, current = 1, NEW j \in Jobs, Skipped(j)
  PROVE  Excepted(j)
  <1> USE DEF Excepted
  <1>1. disk' # disk
    <2>1. PastDue(disk[j])
      BY DEF Skipped
    <2> QED BY <2>1, SameNotSkipped
  <1>2. ASSUME NEW s \in Services, Internal(s)
        PROVE  Excepted(j)
    <2>1. CASE TickMark(s)
      BY <2>1, TickMarkKeeps
    <2>2. CASE TickApply(s)
      BY <2>2, TickApplyKeeps
    <2>3. CASE Start(s)
      <3>1. life[s] = "new" /\ life \in [Services -> {"none", "new", "starting", "on"}]
        BY <2>3, GrantedKnown DEF Start, Inv, TypeOK
      <3>2. life' = [life EXCEPT ![s] = "on"]
        BY <1>1, <2>3 DEF Start, ExecuteMissed
      <3> QED BY <3>1, <3>2
    <2>4. CASE TimerFires(s) \/ TickFinish(s)
      BY <1>1, <2>4 DEF TimerFires, TickFinish
    <2>5. CASE \E i \in Jobs : StartDue(s, i) \/ \E status \in Outcomes : EndDue(s, i, status)
      BY <1>1, <2>5 DEF StartDue, EndDue
    <2> QED BY <1>2, <2>1, <2>2, <2>3, <2>4, <2>5 DEF Internal
  <1>3. ASSUME NEW status \in Outcomes, ExecutionEnds(status)
        PROVE  Excepted(j)
    BY <1>1, <1>3 DEF ExecutionEnds, ExecuteMissed, Conclude
  <1>4. CASE Command
    <2>1. CASE Read
      BY <2>1, ReadKeeps
    <2>2. ASSUME NEW i \in Jobs, NEW schedule \in Specs, Add(i, schedule)
          PROVE  Excepted(j)
      BY <2>2 DEF Add
    <2>3. ASSUME NEW i \in Jobs, UpdateOf(i)
          PROVE  Excepted(j)
      <3>1. CASE i = j
        BY <2>3, <3>1
      <3>2. CASE i # j
        BY <2>3, <3>2, UpdateKeeps
      <3> QED BY <3>1, <3>2
    <2>4. ASSUME NEW i \in Jobs, Remove(i)
          PROVE  Excepted(j)
      BY <2>4, RemoveKeeps
    <2>5. ASSUME NEW i \in Jobs, NEW forced \in BOOLEAN, RunBegin(i, forced)
          PROVE  Excepted(j)
      BY <1>1, <2>5 DEF RunBegin
    <2> QED BY <1>4, <2>1, <2>2, <2>3, <2>4, <2>5 DEF Command
  <1>5. CASE Replace \/ Crash \/ Tick \/ UNCHANGED vars
    BY <1>1, <1>5 DEF Replace, Crash, Tick, vars
  <1> QED BY <1>2, <1>3, <1>4, <1>5 DEF Next

(* No step of a process with one service moves the next run of a due job   *)
(* past the run it has not had, but the end of its execution, its own      *)
(* update and the full recomputations of add, run and start.               *)
THEOREM SpecDueJobsKept == Spec => DueJobsKept
  <1>1. Inv /\ [Next]_vars =>
            [\A j \in Jobs : (Skipped(j) /\ current = 1) =>
                \/ j \in excused[1]
                \/ \E s \in Services : entry[s][j].step # "none" /\ entry'[s][j].step = "none"
                \/ holder # None /\ holder' = None
                \/ \E s \in Services : life[s] = "new" /\ life'[s] = "on"
                \/ fresh' # fresh
                \/ UpdateOf(j)]_vars
    BY NextKeeps DEF Excepted
  <1> QED BY <1>1, SpecInv, PTL DEF Spec, DueJobsKept
=============================================================================
