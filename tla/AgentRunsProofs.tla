-------------------------- MODULE AgentRunsProofs ---------------------------
(* Theorems about AgentRuns, for every set of runs, sessions and lanes.    *)
(* The facts about one lane and its pump are those of CommandLanesProofs.  *)
EXTENDS AgentRuns, FiniteSetTheorems, SequenceTheorems, TLAPS

P == INSTANCE CommandLanesProofs WITH Commands <- Tasks

-----------------------------------------------------------------------------
(* The tasks of a run.                                                     *)
LEMMA LaneOfType == LaneOf \in [Tasks -> Lanes]
  BY RunsAssumption DEF LaneOf, Lanes, Tasks, Outer, Inner

LEMMA TwoTasks ==
    ASSUME NEW r \in Runs
    PROVE  /\ Outer(r) \in Tasks /\ Inner(r) \in Tasks
           /\ LaneOf[Outer(r)] = SessionOf[r] /\ LaneOf[Inner(r)] = GlobalOf[r]
           /\ SessionOf[r] \in Sessions /\ GlobalOf[r] \in Globals
           /\ \A q : Outer(r) # Inner(q)
           /\ \A q : Outer(r) = Outer(q) => r = q
           /\ \A q : Inner(r) = Inner(q) => r = q
           /\ Outer(r)[1] = r /\ Inner(r)[1] = r
           /\ Outer(r)[2] = "session" /\ Inner(r)[2] = "global"
  BY RunsAssumption DEF LaneOf, Tasks, Outer, Inner

LEMMA EveryTask ==
    ASSUME NEW t \in Tasks
    PROVE  \E r \in Runs : t = Outer(r) \/ t = Inner(r)
  BY DEF Tasks

LEMMA TwoLevels ==
    /\ \A l \in Lanes : l \in Sessions <=> l \notin Globals
    /\ Sessions \subseteq Lanes /\ Globals \subseteq Lanes
  BY RunsAssumption DEF Lanes

(* The two instances of the command lanes are one.                         *)
LEMMA SameCardinality == ASSUME NEW s PROVE CL!Cardinality(s) = P!Cardinality(s)
  BY DEF CL!Cardinality, P!Cardinality

LEMMA SameFinite ==
    ASSUME NEW s
    PROVE  P!IsFiniteSet(s) = IsFiniteSet(s) /\ P!Cardinality(s) = Cardinality(s)
  BY DEF P!IsFiniteSet, IsFiniteSet, P!Cardinality, Cardinality

LEMMA SameLanes ==
    /\ CL!LaneState = P!LaneState /\ CL!Status = P!Status /\ CL!Settled = P!Settled
    /\ \A s : CL!Started(s) = P!Started(s)
    /\ \A s : CL!Pumped(s) = P!Pumped(s)
    /\ \A s : CL!IdleLane(s) = P!IdleLane(s)
  BY SameCardinality
     DEF CL!LaneState, P!LaneState, CL!Status, P!Status, CL!Settled, P!Settled,
         CL!Pumped, P!Pumped, CL!StartCount, P!StartCount, CL!Started, P!Started,
         CL!IdleLane, P!IdleLane

(* An order of the turns brings each of them once.                         *)
LEMMA OrderFacts ==
    ASSUME NEW T, IsFiniteSet(T), NEW q \in SetToSeqs(T)
    PROVE  /\ q \in Seq(T)
           /\ \A i, j \in 1 .. Len(q) : q[i] = q[j] => i = j
           /\ \A t : t \in T <=> \E i \in 1 .. Len(q) : q[i] = t
  <1> DEFINE n == Cardinality(T)
  <1>1. n \in Nat
    BY FS_CardinalityType
  <1>2. /\ q \in [1 .. n -> T]
        /\ \A i, j \in 1 .. n : i # j => q[i] # q[j]
    BY DEF SetToSeqs
  <1>3. /\ IsFiniteSet(1 .. n) /\ Cardinality(1 .. n) = n
    <2> HIDE DEF n
    <2>1. n \in Int /\ 1 \in Int /\ n >= 0
      BY <1>1
    <2>2. /\ IsFiniteSet(1 .. n)
          /\ Cardinality(1 .. n) = IF 1 > n THEN 0 ELSE n - 1 + 1
      BY <2>1, FS_Interval
    <2> QED BY <2>1, <2>2
  <1>4. q \in Surjection(1 .. n, T)
    <2>1. q \in Injection(1 .. n, T)
      BY <1>2 DEF Injection, IsInjective
    <2> HIDE DEF n
    <2>2. (Cardinality(1 .. n) = Cardinality(T)) <=> q \in Surjection(1 .. n, T)
      BY <2>1, FS_Injection
    <2> QED BY <2>2, <1>3 DEF n
  <1> HIDE DEF n
  <1>5. q \in Seq(T) /\ Len(q) = n
    BY <1>1, <1>2
  <1> QED BY <1>2, <1>4, <1>5 DEF Surjection

-----------------------------------------------------------------------------
(* The strengthening of the invariants that is inductive.                  *)

(* How far a run is agrees at the two levels.                              *)
Coupled(st) ==
    \A r \in Runs :
        /\ st[Outer(r)] \in {"new", "queued", "cleared"} => st[Inner(r)] = "new"
        /\ st[Outer(r)] = "running" =>
              st[Inner(r)] \in {"queued", "running", "resolved", "rejected"}
        /\ st[Outer(r)] \in {"resolved", "rejected"} =>
              st[Inner(r)] \in {"resolved", "rejected"}

\* session lanes have one slot
Single(ls) == \A s \in Sessions : ls[s].maxConcurrent = 1

\* in a generation a session has at most one running task
OneEach(st, tg) ==
    \A q, r \in Runs :
        /\ SessionOf[q] = SessionOf[r] /\ tg[Outer(q)] = tg[Outer(r)]
        /\ st[Outer(q)] = "running" /\ st[Outer(r)] = "running"
      => q = r

\* lane states ls and promises st that may be handed to the pump
Ready(ls, st) ==
    /\ ls \in [Lanes -> P!LaneState]
    /\ st \in [Tasks -> P!Status]
    /\ taskGeneration \in [Tasks -> 0 .. MaxResets]
    /\ \A l \in Lanes : P!LaneInv(l, ls[l], st, taskGeneration)
    /\ Coupled(st) /\ Single(ls) /\ OneEach(st, taskGeneration)

Inv == Ready(lanes, status) /\ \A l \in Lanes : P!Busy(lanes[l])

-----------------------------------------------------------------------------
(* The pump of a lane with one slot starts nothing, or the first of the    *)
(* queue in a free slot.                                                   *)
StartsNone(s) == P!Started(s) = {} /\ P!Pumped(s) = s

StartsFirst(s) ==
    /\ s.activeTaskIds = {} /\ s.queue # <<>>
    /\ P!Started(s) = {Head(s.queue)}
    /\ P!Pumped(s).queue = Tail(s.queue)
    /\ P!Pumped(s).activeTaskIds = {Head(s.queue)}

LEMMA SingleSlot ==
    ASSUME NEW s \in P!LaneState, P!IsFiniteSet(s.activeTaskIds), s.maxConcurrent = 1
    PROVE  StartsNone(s) \/ StartsFirst(s)
  <1>1. CASE P!Busy(s)
    BY <1>1, P!BusyPump, LaneOfType, BoundsAssumption DEF StartsNone
  <1>2. CASE ~P!Busy(s)
    <2>1. s.activeTaskIds = {}
      BY <1>2, P!TakenSlot, LaneOfType, BoundsAssumption
    <2>2. s.queue # <<>>
      BY <1>2 DEF P!Busy
    <2> QED BY <2>1, <2>2, P!FreeSlot, LaneOfType, BoundsAssumption DEF StartsFirst
  <1> QED BY <1>1, <1>2

LEMMA GenerationKept ==
    ASSUME NEW s
    PROVE  P!Pumped(s).generation = s.generation /\ P!Pumped(s).maxConcurrent = s.maxConcurrent
  BY DEF P!Pumped

(* What a lane starts waited in it.                                        *)
LEMMA StartedWaited ==
    ASSUME NEW l, NEW s \in P!LaneState, NEW st, NEW tg, P!LaneInv(l, s, st, tg)
    PROVE  \A t \in P!Started(s) : t \in Tasks /\ LaneOf[t] = l /\ st[t] = "queued"
  <1>1. P!Started(s) \subseteq P!Entries(s)
    BY P!PumpedQueue, LaneOfType, BoundsAssumption DEF P!LaneInv, P!QueueAgrees
  <1> QED BY <1>1 DEF P!LaneInv, P!QueueAgrees

-----------------------------------------------------------------------------
(* What the pump over both levels does, beyond keeping the invariant.      *)
Arriving(ls, r) == Outer(r) \in P!Started(ls[SessionOf[r]])

Stepped(ls, st) ==
    /\ \A s \in Sessions : lanes'[s] = P!Pumped(ls[s])
    /\ \A l \in Lanes : lanes'[l].generation = ls[l].generation
    /\ \A r \in Runs :
          /\ status'[Outer(r)] = IF Arriving(ls, r) THEN "running" ELSE st[Outer(r)]
          /\ Arriving(ls, r) => /\ st[Outer(r)] = "queued" /\ st[Inner(r)] = "new"
                                /\ status'[Inner(r)] \in {"queued", "running"}
          /\ ~Arriving(ls, r) => \/ status'[Inner(r)] = st[Inner(r)]
                                 \/ st[Inner(r)] = "queued" /\ status'[Inner(r)] = "running"

(* The turns that start with their runs come once to their lane, new.      *)
LEMMA ArrivalsFacts ==
    ASSUME NEW ls, NEW st, Ready(ls, st)
    PROVE  /\ Arrivals(ls) = {r \in Runs : Arriving(ls, r)}
           /\ \A r \in Arrivals(ls) : st[Outer(r)] = "queued" /\ st[Inner(r)] = "new"
  <1>1. ASSUME NEW s \in Sessions
        PROVE  \A t \in P!Started(ls[s]) : t \in Tasks /\ LaneOf[t] = s /\ st[t] = "queued"
    BY StartedWaited, TwoLevels DEF Ready
  <1>2. ASSUME NEW r \in Runs, Arriving(ls, r) PROVE r \in Arrivals(ls)
    BY <1>2, TwoTasks, SameLanes DEF Arriving, Arrivals, StartedIn
  <1>3. ASSUME NEW r \in Arrivals(ls)
        PROVE  r \in Runs /\ Arriving(ls, r) /\ st[Outer(r)] = "queued"
    <2>1. PICK s \in Sessions : \E t \in P!Started(ls[s]) : t[1] = r
      BY SameLanes DEF Arrivals, StartedIn
    <2>2. PICK t \in P!Started(ls[s]) : t[1] = r
      BY <2>1
    <2>3. t \in Tasks /\ LaneOf[t] = s /\ st[t] = "queued"
      BY <2>2, <1>1
    <2>4. PICK q \in Runs : t = Outer(q) \/ t = Inner(q)
      BY <2>3, EveryTask
    <2>5. t = Outer(q) /\ q = r /\ s = SessionOf[r]
      BY <2>2, <2>3, <2>4, TwoTasks, TwoLevels
    <2> QED BY <2>2, <2>3, <2>5 DEF Arriving
  <1>4. \A r \in Runs : st[Outer(r)] = "queued" => st[Inner(r)] = "new"
    BY DEF Ready, Coupled
  <1> QED BY <1>2, <1>3, <1>4

LEMMA TurnsFacts ==
    ASSUME NEW ls, Arrivals(ls) \subseteq Runs,
           NEW g \in Globals, NEW q \in SetToSeqs(TurnsFor(ls, g))
    PROVE  /\ q \in Seq(Tasks)
           /\ \A i, j \in 1 .. Len(q) : q[i] = q[j] => i = j
           /\ \A t : (\E r \in Arrivals(ls) : GlobalOf[r] = g /\ t = Inner(r))
                      <=> \E i \in 1 .. Len(q) : q[i] = t
  <1> DEFINE T == TurnsFor(ls, g)
             f == [t \in T |-> t[1]]
  <1>1. \A t : t \in T <=> \E r \in Arrivals(ls) : GlobalOf[r] = g /\ t = Inner(r)
    BY DEF TurnsFor
  <1>2. T \subseteq Tasks
    BY <1>1, TwoTasks
  <1>3. f \in Injection(T, Runs)
    <2>1. f \in [T -> Runs]
      BY <1>1, TwoTasks
    <2>2. \A a, b \in T : f[a] = f[b] => a = b
      BY <1>1, TwoTasks
    <2> QED BY <2>1, <2>2 DEF Injection, IsInjective
  <1>4. IsFiniteSet(T)
    BY <1>3, RunsAssumption, FS_Injection
  <1> HIDE DEF T
  <1>5. /\ q \in Seq(T)
        /\ \A i, j \in 1 .. Len(q) : q[i] = q[j] => i = j
        /\ \A t : t \in T <=> \E i \in 1 .. Len(q) : q[i] = t
    BY <1>4, OrderFacts DEF T
  <1>6. q \in Seq(Tasks)
    BY <1>2, <1>5
  <1> QED BY <1>1, <1>5, <1>6

(* The pump takes what is ready to a state where the invariant holds.      *)
LEMMA DrainReady ==
    ASSUME NEW ls, NEW st, Ready(ls, st), Drain(ls, st)
    PROVE  Inv' /\ Stepped(ls, st)
  <1> DEFINE A == Arrivals(ls)
             st2 == [t \in Tasks |-> IF t[2] = "global" /\ t[1] \in A
                                       THEN "queued" ELSE st[t]]
  <1>1. PICK order \in Orders(ls) : CL!DrainLanes(Lanes, WithTurns(ls, order), st2)
    BY DEF Drain
  <1> DEFINE T == WithTurns(ls, order)
  <1>2. /\ A = {r \in Runs : Arriving(ls, r)}
        /\ \A r \in A : st[Outer(r)] = "queued" /\ st[Inner(r)] = "new"
    BY ArrivalsFacts
  <1>3. \A g \in Globals : order[g] \in SetToSeqs(TurnsFor(ls, g))
    BY DEF Orders
  <1>4. /\ ls \in [Lanes -> P!LaneState] /\ st \in [Tasks -> P!Status]
        /\ taskGeneration \in [Tasks -> 0 .. MaxResets]
        /\ taskGeneration \in [Tasks -> Nat]
        /\ \A l \in Lanes : P!LaneInv(l, ls[l], st, taskGeneration)
    BY BoundsAssumption DEF Ready
  <1>5. /\ st2 \in [Tasks -> P!Status]
        /\ \A r \in Runs : /\ st2[Outer(r)] = st[Outer(r)]
                           /\ st2[Inner(r)] = IF r \in A THEN "queued" ELSE st[Inner(r)]
    BY <1>4, TwoTasks DEF P!Status
  <1>6. ASSUME NEW s \in Sessions
        PROVE  T[s] = ls[s] /\ s \in Lanes
    BY TwoLevels DEF WithTurns
  <1>7. ASSUME NEW g \in Globals
        PROVE  /\ T[g] \in P!LaneState
               /\ T[g].queue = ls[g].queue \o order[g]
               /\ T[g].activeTaskIds = ls[g].activeTaskIds
               /\ T[g].maxConcurrent = ls[g].maxConcurrent
               /\ T[g].generation = ls[g].generation
               /\ g \in Lanes /\ order[g] \in Seq(Tasks)
    <2>1. g \in Lanes /\ g \notin Sessions /\ ls[g] \in P!LaneState
      BY <1>4, TwoLevels
    <2>2. T[g] = [ls[g] EXCEPT !.queue = @ \o order[g]]
      BY <2>1 DEF WithTurns
    <2>3. order[g] \in Seq(Tasks)
      BY <1>2, <1>3, TurnsFacts
    <2>4. ls[g].queue \o order[g] \in Seq(Tasks)
      BY <2>1, <2>3, ConcatProperties DEF P!LaneState
    <2> QED BY <2>1, <2>2, <2>3, <2>4 DEF P!LaneState
  <1> HIDE DEF A, st2, T
  <1>8. ASSUME NEW l \in Lanes
        PROVE  T[l] \in P!LaneState /\ P!LaneInv(l, T[l], st2, taskGeneration)
    <2>1. CASE l \in Sessions
      <3>1. \A t \in Tasks : LaneOf[t] = l => st2[t] = st[t]
        BY <2>1, <1>5, EveryTask, TwoTasks, TwoLevels
      <3> QED BY <2>1, <3>1, <1>4, <1>6, P!SameLane, LaneOfType, BoundsAssumption
    <2>2. CASE l \in Globals
      <3> DEFINE q == order[l]
      <3> HIDE DEF q
      <3>0. q \in SetToSeqs(TurnsFor(ls, l)) /\ Arrivals(ls) \subseteq Runs
        BY <2>2, <1>2, <1>3 DEF A, q
      <3>1. /\ \A i, j \in 1 .. Len(q) : q[i] = q[j] => i = j
            /\ \A t : (\E r \in A : GlobalOf[r] = l /\ t = Inner(r))
                       <=> \E i \in 1 .. Len(q) : q[i] = t
        BY <2>2, <3>0, TurnsFacts DEF A
      <3>2. ASSUME NEW i \in 1 .. Len(q) PROVE LaneOf[q[i]] = l /\ st[q[i]] = "new"
        BY <3>1, <1>2, TwoTasks
      <3>3. P!NewIn(l, q, st)
        BY <3>1, <3>2 DEF P!NewIn
      <3>4. ASSUME NEW t \in Tasks, LaneOf[t] = l
            PROVE  st2[t] = IF \E i \in 1 .. Len(q) : q[i] = t THEN "queued" ELSE st[t]
        <4>1. PICK r \in Runs : t = Outer(r) \/ t = Inner(r)
          BY EveryTask
        <4>2. t = Inner(r) /\ GlobalOf[r] = l
          BY <4>1, <3>4, <2>2, TwoTasks, TwoLevels
        <4>3. r \in A <=> \E i \in 1 .. Len(q) : q[i] = t
          BY <3>1, <4>2, TwoTasks
        <4> QED BY <4>2, <4>3, <1>5
      <3>5. P!Queues(l, q, st, st2)
        BY <3>4 DEF P!Queues
      <3>6. /\ ls[l] \in P!LaneState /\ P!LaneInv(l, ls[l], st, taskGeneration)
            /\ q \in Seq(Tasks) /\ T[l] \in P!LaneState
            /\ T[l].queue = ls[l].queue \o q
            /\ T[l].activeTaskIds = ls[l].activeTaskIds
            /\ T[l].generation = ls[l].generation
        BY <2>2, <1>4, <1>7 DEF q
      <3> QED BY <3>3, <3>5, <3>6, P!ExtendedLane, LaneOfType, BoundsAssumption
    <2> QED BY <2>1, <2>2, TwoLevels
  <1>9. /\ lanes' = [l \in Lanes |-> P!Pumped(T[l])]
        /\ status' = [t \in Tasks |-> IF t \in P!Started(T[LaneOf[t]]) THEN "running" ELSE st2[t]]
        /\ taskGeneration' = [t \in Tasks |-> IF t \in P!Started(T[LaneOf[t]])
                                THEN T[LaneOf[t]].generation ELSE taskGeneration[t]]
    <2>1. \A t \in Tasks : LaneOf[t] \in Lanes
      BY LaneOfType
    <2> QED BY <2>1, <1>1, SameLanes DEF CL!DrainLanes, T
  <1>10. /\ status' \in [Tasks -> P!Status]
         /\ taskGeneration' \in [Tasks -> 0 .. MaxResets]
         /\ taskGeneration' \in [Tasks -> Nat]
    <2>1. \A t \in Tasks : T[LaneOf[t]].generation \in 0 .. MaxResets
      BY <1>8, LaneOfType DEF P!LaneState
    <2>2. taskGeneration' \in [Tasks -> 0 .. MaxResets]
      BY <2>1, <1>4, <1>9
    <2>3. 0 .. MaxResets \subseteq Nat
      BY BoundsAssumption
    <2> QED BY <2>2, <2>3, <1>5, <1>9 DEF P!Status
  <1>11. ASSUME NEW l \in Lanes
         PROVE  /\ lanes'[l] \in P!LaneState
                /\ P!LaneInv(l, lanes'[l], status', taskGeneration')
                /\ P!Busy(lanes'[l])
                /\ lanes'[l].generation = T[l].generation
                /\ lanes'[l].maxConcurrent = T[l].maxConcurrent
    <2>1. \A t \in Tasks : LaneOf[t] = l =>
            /\ status'[t] = IF t \in P!Started(T[l]) THEN "running" ELSE st2[t]
            /\ taskGeneration'[t] = IF t \in P!Started(T[l]) THEN T[l].generation
                                                             ELSE taskGeneration[t]
      BY <1>9
    <2>2. lanes'[l] = P!Pumped(T[l])
      BY <1>9
    <2>3. /\ P!Pumped(T[l]) \in P!LaneState
          /\ P!LaneInv(l, P!Pumped(T[l]), status', taskGeneration')
          /\ P!Busy(P!Pumped(T[l]))
      BY <2>1, <1>4, <1>5, <1>8, <1>10, P!PumpedLane, LaneOfType, BoundsAssumption
    <2> QED BY <2>2, <2>3, GenerationKept
  <1>12. ASSUME NEW s \in Sessions
         PROVE  /\ lanes'[s] = P!Pumped(ls[s])
                /\ ls[s] \in P!LaneState /\ ls[s].maxConcurrent = 1
                /\ StartsNone(ls[s]) \/ StartsFirst(ls[s])
    <2>1. /\ ls[s] \in P!LaneState /\ ls[s].maxConcurrent = 1
          /\ P!IsFiniteSet(ls[s].activeTaskIds)
      BY <1>4, TwoLevels DEF Ready, Single, P!LaneInv
    <2> QED BY <2>1, <1>6, <1>9, SingleSlot
  <1>13. ASSUME NEW r \in Runs
         PROVE  /\ status'[Outer(r)] = IF Arriving(ls, r) THEN "running" ELSE st[Outer(r)]
                /\ taskGeneration'[Outer(r)] =
                      IF Arriving(ls, r) THEN ls[SessionOf[r]].generation
                                         ELSE taskGeneration[Outer(r)]
                /\ status'[Inner(r)] = "running" \/ status'[Inner(r)] = st2[Inner(r)]
                /\ status'[Inner(r)] # st2[Inner(r)] => st2[Inner(r)] = "queued"
    <2> DEFINE g == GlobalOf[r]
    <2>0. g \in Lanes /\ T[g] \in P!LaneState /\ P!LaneInv(g, T[g], st2, taskGeneration)
      BY <1>8, TwoTasks, TwoLevels
    <2> HIDE DEF g
    <2>a. \A t \in P!Started(T[g]) : st2[t] = "queued"
      BY <2>0, StartedWaited
    <2>1. \A t \in P!Started(T[GlobalOf[r]]) : st2[t] = "queued"
      BY <2>a DEF g
    <2> QED BY <2>1, <1>5, <1>6, <1>9, TwoTasks DEF Arriving
  <1>14. Stepped(ls, st)
    <2>1. \A l \in Lanes : T[l].generation = ls[l].generation
      BY <1>6, <1>7 DEF Lanes
    <2> QED BY <2>1, <1>2, <1>5, <1>11, <1>12, <1>13 DEF Stepped
  <1>15. Coupled(status')
    <2> SUFFICES ASSUME NEW r \in Runs
                 PROVE  /\ status'[Outer(r)] \in {"new", "queued", "cleared"} => status'[Inner(r)] = "new"
                        /\ status'[Outer(r)] = "running" =>
                              status'[Inner(r)] \in {"queued", "running", "resolved", "rejected"}
                        /\ status'[Outer(r)] \in {"resolved", "rejected"} =>
                              status'[Inner(r)] \in {"resolved", "rejected"}
      BY DEF Coupled
    <2> QED BY <1>14 DEF Stepped, Ready, Coupled
  <1>16. Single(lanes')
    BY <1>6, <1>11, <1>12, TwoLevels DEF Single
  <1>17. OneEach(status', taskGeneration')
    <2> SUFFICES ASSUME NEW q \in Runs, NEW r \in Runs, SessionOf[q] = SessionOf[r],
                        taskGeneration'[Outer(q)] = taskGeneration'[Outer(r)],
                        status'[Outer(q)] = "running", status'[Outer(r)] = "running"
                 PROVE  q = r
      BY DEF OneEach
    <2> DEFINE s == SessionOf[r]
    <2>1. s \in Sessions /\ s \in Lanes /\ P!LaneInv(s, ls[s], st, taskGeneration)
      BY <1>4, TwoTasks, TwoLevels
    <2>a. /\ \A a, b \in P!Started(ls[s]) : a = b
          /\ P!Started(ls[s]) # {} => ls[s].activeTaskIds = {}
      BY <2>1, <1>12 DEF StartsNone, StartsFirst
    <2>b. /\ Arriving(ls, q) <=> Outer(q) \in P!Started(ls[s])
          /\ Arriving(ls, r) <=> Outer(r) \in P!Started(ls[s])
      BY DEF Arriving
    <2>2. CASE ~Arriving(ls, q) /\ ~Arriving(ls, r)
      BY <2>2, <1>13 DEF Ready, OneEach
    <2>3. CASE Arriving(ls, q) /\ Arriving(ls, r)
      <3>1. Outer(q) = Outer(r)
        BY <2>a, <2>b, <2>3
      <3> QED BY <3>1, TwoTasks
    <2>4. \A p \in Runs : ~Arriving(ls, p) /\ SessionOf[p] = s /\ status'[Outer(p)] = "running"
                          /\ taskGeneration'[Outer(p)] = ls[s].generation
                        => Outer(p) \in ls[s].activeTaskIds
      BY <2>1, <1>13, TwoTasks DEF P!LaneInv, P!ActiveAgrees
    <2>5. Arriving(ls, q) \/ Arriving(ls, r) =>
              ls[s].activeTaskIds = {} /\ taskGeneration'[Outer(r)] = ls[s].generation
      <3>1. Arriving(ls, r) => taskGeneration'[Outer(r)] = ls[s].generation
        BY <1>13
      <3>2. Arriving(ls, q) => taskGeneration'[Outer(q)] = ls[s].generation
        BY <1>13
      <3>3. Arriving(ls, q) \/ Arriving(ls, r) => P!Started(ls[s]) # {}
        BY <2>b
      <3> HIDE DEF s
      <3> QED BY <3>1, <3>2, <3>3, <2>a
    <2> QED BY <2>2, <2>3, <2>4, <2>5
  <1>18. (lanes \in [Lanes -> P!LaneState])'
    BY <1>9, <1>11
  <1>19. Ready(lanes, status)'
    BY <1>10, <1>11, <1>15, <1>16, <1>17, <1>18 DEF Ready
  <1> QED BY <1>11, <1>14, <1>19 DEF Inv

-----------------------------------------------------------------------------
(* Every operation hands the pump lanes that are ready.                    *)
LEMMA InvFacts ==
    ASSUME Inv
    PROVE  /\ lanes \in [Lanes -> P!LaneState] /\ status \in [Tasks -> P!Status]
           /\ taskGeneration \in [Tasks -> 0 .. MaxResets]
           /\ taskGeneration \in [Tasks -> Nat]
           /\ \A l \in Lanes : /\ P!LaneInv(l, lanes[l], status, taskGeneration)
                               /\ P!Busy(lanes[l])
           /\ Coupled(status) /\ Single(lanes) /\ OneEach(status, taskGeneration)
  <1>1. 0 .. MaxResets \subseteq Nat
    BY BoundsAssumption
  <1> QED BY <1>1 DEF Inv, Ready

Joining(r) == [lanes EXCEPT ![SessionOf[r]].queue = Append(@, Outer(r))]

LEMMA JoiningReady ==
    ASSUME Inv, NEW r \in Runs, status[Outer(r)] = "new"
    PROVE  Ready(Joining(r), [status EXCEPT ![Outer(r)] = "queued"])
  <1> DEFINE s == SessionOf[r]
             q == <<Outer(r)>>
             ls == Joining(r)
             st == [status EXCEPT ![Outer(r)] = "queued"]
  <1>1. /\ s \in Sessions /\ s \in Lanes /\ Outer(r) \in Tasks /\ LaneOf[Outer(r)] = s
        /\ lanes[s] \in P!LaneState /\ lanes[s].queue \in Seq(Tasks)
    BY InvFacts, TwoTasks, TwoLevels DEF P!LaneState
  <1>2. /\ Append(lanes[s].queue, Outer(r)) \in Seq(Tasks)
        /\ Append(lanes[s].queue, Outer(r)) = lanes[s].queue \o q
    BY <1>1, AppendProperties, AppendIsConcat
  <1>3. /\ ls \in [Lanes -> P!LaneState]
        /\ \A l \in Lanes \ {s} : ls[l] = lanes[l]
        /\ ls[s].queue = lanes[s].queue \o q
        /\ ls[s].activeTaskIds = lanes[s].activeTaskIds
        /\ ls[s].generation = lanes[s].generation
        /\ ls[s].maxConcurrent = lanes[s].maxConcurrent
    BY <1>1, <1>2, InvFacts DEF Joining, P!LaneState
  <1>4. /\ st \in [Tasks -> P!Status] /\ st[Outer(r)] = "queued"
        /\ \A t \in Tasks \ {Outer(r)} : st[t] = status[t]
    BY <1>1, InvFacts DEF P!Status
  <1>5. /\ q \in Seq(Tasks) /\ Len(q) = 1 /\ q[1] = Outer(r)
        /\ \A i \in 1 .. Len(q) : i = 1
    BY <1>1
  <1> HIDE DEF ls, st, q
  <1>6. ASSUME NEW l \in Lanes
        PROVE  P!LaneInv(l, ls[l], st, taskGeneration)
    <2>1. P!LaneInv(l, lanes[l], status, taskGeneration)
      BY InvFacts
    <2>2. CASE l = s
      <3>1. P!Queues(l, q, status, st)
        BY <1>1, <1>4, <1>5 DEF P!Queues
      <3>2. P!NewIn(l, q, status)
        BY <2>2, <1>1, <1>5 DEF P!NewIn
      <3>3. /\ lanes[l] \in P!LaneState /\ ls[l] \in P!LaneState
            /\ ls[l].queue = lanes[l].queue \o q
            /\ ls[l].activeTaskIds = lanes[l].activeTaskIds
            /\ ls[l].generation = lanes[l].generation
        BY <2>2, <1>1, <1>3
      <3> QED BY <2>1, <3>1, <3>2, <3>3, <1>5, P!ExtendedLane, LaneOfType, BoundsAssumption
    <2>3. CASE l # s
      <3>1. \A t \in Tasks : LaneOf[t] = l => st[t] = status[t]
        BY <2>3, <1>1, <1>4
      <3> QED BY <2>1, <2>3, <3>1, <1>3, P!SameLane, LaneOfType, BoundsAssumption
    <2> QED BY <2>2, <2>3
  <1>7. Coupled(st)
    BY <1>4, InvFacts, TwoTasks DEF Coupled
  <1>8. Single(ls)
    BY <1>3, InvFacts, TwoLevels DEF Single
  <1>9. OneEach(st, taskGeneration)
    BY <1>4, InvFacts, TwoTasks DEF OneEach
  <1> QED BY <1>3, <1>4, <1>6, <1>7, <1>8, <1>9, InvFacts DEF Ready, ls, st

Freed(t) == [lanes EXCEPT ![LaneOf[t]].activeTaskIds = @ \ {t}]
Ended(t, outcome) == [status EXCEPT ![t] = outcome]

LEMMA EndedReady ==
    ASSUME Inv, NEW t \in Tasks, status[t] = "running",
           NEW outcome \in {"resolved", "rejected"}, Coupled(Ended(t, outcome))
    PROVE  IF taskGeneration[t] = lanes[LaneOf[t]].generation
             THEN Ready(Freed(t), Ended(t, outcome))
             ELSE Ready(lanes, Ended(t, outcome))
  <1> DEFINE l == LaneOf[t]
             ls == Freed(t)
             st == Ended(t, outcome)
  <1>1. l \in Lanes /\ lanes[l] \in P!LaneState
    BY InvFacts, LaneOfType
  <1>2. /\ st \in [Tasks -> P!Status] /\ st[t] \in P!Settled
        /\ st[t] # "running"
        /\ \A c \in Tasks \ {t} : st[c] = status[c]
    BY InvFacts DEF Ended, P!Status, P!Settled
  <1>3. OneEach(st, taskGeneration)
    BY <1>2, InvFacts, TwoTasks DEF OneEach
  <1>4. /\ ls \in [Lanes -> P!LaneState]
        /\ \A m \in Lanes \ {l} : ls[m] = lanes[m]
        /\ ls[l].queue = lanes[l].queue
        /\ ls[l].activeTaskIds = lanes[l].activeTaskIds \ {t}
        /\ ls[l].generation = lanes[l].generation
        /\ ls[l].maxConcurrent = lanes[l].maxConcurrent
    BY <1>1, InvFacts DEF Freed, P!LaneState
  <1> HIDE DEF ls, st
  <1>5. \A m \in Lanes : P!LaneInv(m, lanes[m], status, taskGeneration)
    BY InvFacts
  <1>6. ASSUME NEW m \in Lanes, m # l \/ taskGeneration[t] # lanes[m].generation
        PROVE  P!LaneInv(m, lanes[m], st, taskGeneration)
    <2>1. LaneOf[t] # m \/ taskGeneration[t] # lanes[m].generation
      BY <1>6
    <2> HIDE DEF l
    <2> QED BY <2>1, <1>2, <1>5, P!LateLane, LaneOfType, BoundsAssumption
  <1>7. CASE taskGeneration[t] = lanes[l].generation
    <2>1. P!LaneInv(l, ls[l], st, taskGeneration)
      <3> HIDE DEF l
      <3> QED BY <1>1, <1>2, <1>4, <1>5, P!FreedLane, LaneOfType, BoundsAssumption
    <2>2. \A m \in Lanes : P!LaneInv(m, ls[m], st, taskGeneration)
      BY <2>1, <1>4, <1>6
    <2>3. Single(ls)
      BY <1>4, InvFacts, TwoLevels DEF Single
    <2>4. Ready(ls, st)
      BY <2>2, <2>3, <1>2, <1>3, <1>4, InvFacts DEF Ready, st
    <2> QED BY <2>4, <1>7 DEF ls, st
  <1>8. CASE taskGeneration[t] # lanes[l].generation
    <2>1. \A m \in Lanes : P!LaneInv(m, lanes[m], st, taskGeneration)
      BY <1>6, <1>8
    <2>2. Ready(lanes, st)
      BY <2>1, <1>2, <1>3, InvFacts DEF Ready, st
    <2> QED BY <2>2, <1>8 DEF st
  <1> QED BY <1>7, <1>8

LEMMA CompleteInv ==
    ASSUME Inv, NEW t \in Tasks, NEW outcome \in {"resolved", "rejected"},
           Complete(t, outcome), Coupled(Ended(t, outcome))
    PROVE  Inv'
  <1>1. status[t] = "running"
    BY DEF Complete
  <1>2. CASE taskGeneration[t] = lanes[LaneOf[t]].generation
    <2>1. Drain(Freed(t), Ended(t, outcome))
      BY <1>2 DEF Complete, Freed, Ended
    <2> QED BY <1>1, <1>2, <2>1, EndedReady, DrainReady
  <1>3. CASE taskGeneration[t] # lanes[LaneOf[t]].generation
    <2>1. lanes' = lanes /\ taskGeneration' = taskGeneration /\ status' = Ended(t, outcome)
      BY <1>3 DEF Complete, Ended
    <2>2. Ready(lanes, Ended(t, outcome))
      BY <1>1, <1>3, EndedReady
    <2>3. Ready(lanes, status)'
      BY <2>1, <2>2 DEF Ready
    <2> QED BY <2>1, <2>3 DEF Inv
  <1> QED BY <1>2, <1>3

LEMMA TurnCoupled ==
    ASSUME Inv, NEW r \in Runs, status[Inner(r)] = "running",
           NEW outcome \in {"resolved", "rejected"}
    PROVE  Coupled(Ended(Inner(r), outcome))
  BY InvFacts, TwoTasks DEF Coupled, Ended

LEMMA RunCoupled ==
    ASSUME Inv, NEW r \in Runs, status[Outer(r)] = "running",
           status[Inner(r)] \in CL!Settled
    PROVE  /\ status[Inner(r)] \in {"resolved", "rejected"}
           /\ Coupled(Ended(Outer(r), status[Inner(r)]))
  BY InvFacts, TwoTasks DEF Coupled, Ended, CL!Settled

(* The books of a lane do not depend on its cap.                           *)
LEMMA SameBooks ==
    ASSUME NEW l, NEW s, NEW st, NEW tg, P!LaneInv(l, s, st, tg), NEW t,
           t.queue = s.queue, t.activeTaskIds = s.activeTaskIds,
           t.generation = s.generation
    PROVE  P!LaneInv(l, t, st, tg)
  BY DEF P!LaneInv, P!QueueAgrees, P!Entries, P!NoRepetition, P!ActiveAgrees,
         P!NotFromTheFuture

Recapped(g, n) == [lanes EXCEPT ![g].maxConcurrent = n]

LEMMA RecappedReady ==
    ASSUME Inv, NEW g \in Globals, NEW n \in 1 .. MaxConcurrency
    PROVE  Ready(Recapped(g, n), status)
  <1> DEFINE ls == Recapped(g, n)
  <1>1. /\ g \in Lanes /\ g \notin Sessions /\ lanes[g] \in P!LaneState
    BY InvFacts, TwoLevels
  <1>2. /\ ls \in [Lanes -> P!LaneState]
        /\ \A l \in Lanes : /\ ls[l].queue = lanes[l].queue
                            /\ ls[l].activeTaskIds = lanes[l].activeTaskIds
                            /\ ls[l].generation = lanes[l].generation
        /\ \A l \in Sessions : ls[l] = lanes[l]
    BY <1>1, InvFacts, TwoLevels DEF Recapped, P!LaneState
  <1> HIDE DEF ls
  <1>3. ASSUME NEW l \in Lanes PROVE P!LaneInv(l, ls[l], status, taskGeneration)
    BY <1>2, InvFacts, SameBooks
  <1>4. Single(ls)
    BY <1>2, InvFacts DEF Single
  <1> QED BY <1>2, <1>3, <1>4, InvFacts DEF Ready, ls

Idled == [l \in Lanes |-> CL!IdleLane(lanes[l])]

LEMMA IdledReady ==
    ASSUME Inv, \A l \in Lanes : lanes[l].generation < MaxResets
    PROVE  Ready(Idled, status)
  <1>1. ASSUME NEW l \in Lanes
        PROVE  /\ Idled[l] = P!IdleLane(lanes[l]) /\ Idled[l] \in P!LaneState
               /\ P!LaneInv(l, Idled[l], status, taskGeneration)
    <2>1. Idled[l] = P!IdleLane(lanes[l])
      BY SameLanes DEF Idled
    <2>2. lanes[l] \in P!LaneState /\ P!LaneInv(l, lanes[l], status, taskGeneration)
      BY InvFacts
    <2>3. lanes[l].generation + 1 \in 0 .. MaxResets
      BY <2>2, BoundsAssumption DEF P!LaneState
    <2>4. P!IdleLane(lanes[l]) \in P!LaneState
      BY <2>2, <2>3 DEF P!IdleLane, P!LaneState
    <2> QED BY <2>1, <2>2, <2>4, InvFacts, P!IdledLane, LaneOfType, BoundsAssumption
  <1>2. Idled \in [Lanes -> P!LaneState]
    BY <1>1 DEF Idled
  <1>3. Single(Idled)
    <2>1. \A s \in Sessions : Idled[s].maxConcurrent = lanes[s].maxConcurrent
      <3> TAKE s \in Sessions
      <3>1. Idled[s] = P!IdleLane(lanes[s])
        BY <1>1, TwoLevels
      <3> QED BY <3>1 DEF P!IdleLane
    <2> QED BY <2>1, InvFacts DEF Single
  <1> QED BY <1>1, <1>2, <1>3, InvFacts DEF Ready

(* What an interrupt clears are session tasks, whose turns have not come.  *)
Cleared(s) ==
    /\ lanes' = [lanes EXCEPT ![s].queue = <<>>]
    /\ \A r \in Runs :
          /\ status'[Outer(r)] = IF SessionOf[r] = s /\ status[Outer(r)] = "queued"
                                   THEN "cleared" ELSE status[Outer(r)]
          /\ status'[Inner(r)] = status[Inner(r)]

LEMMA ClearSessionInv ==
    ASSUME Inv, NEW s \in Sessions, ClearSession(s)
    PROVE  Inv' /\ Cleared(s)
  <1> DEFINE pending == P!Entries(lanes[s])
  <1>1. /\ lanes' = [lanes EXCEPT ![s].queue = <<>>]
        /\ status' = [t \in Tasks |-> IF t \in pending THEN "cleared" ELSE status[t]]
        /\ taskGeneration' = taskGeneration
    BY DEF ClearSession, CL!ClearLane, P!Entries
  <1>2. /\ s \in Lanes /\ lanes[s] \in P!LaneState
        /\ \A l \in Lanes : P!LaneInv(l, lanes[l], status, taskGeneration)
        /\ pending = {t \in Tasks : LaneOf[t] = s /\ status[t] = "queued"}
    BY InvFacts, TwoLevels DEF P!LaneInv, P!QueueAgrees
  <1> HIDE DEF pending
  <1>3. /\ lanes' \in [Lanes -> P!LaneState]
        /\ \A l \in Lanes \ {s} : lanes'[l] = lanes[l]
        /\ lanes'[s].queue = <<>>
        /\ lanes'[s].activeTaskIds = lanes[s].activeTaskIds
        /\ lanes'[s].generation = lanes[s].generation
        /\ lanes'[s].maxConcurrent = lanes[s].maxConcurrent
    <2>1. <<>> \in Seq(Tasks) /\ lanes \in [Lanes -> P!LaneState]
      BY InvFacts
    <2>2. [lanes[s] EXCEPT !.queue = <<>>] \in P!LaneState
      BY <2>1, <1>2 DEF P!LaneState
    <2> QED BY <1>1, <1>2, <2>1, <2>2 DEF P!LaneState
  <1>4. /\ status' \in [Tasks -> P!Status]
        /\ \A t \in Tasks : status'[t] = IF t \in pending THEN "cleared" ELSE status[t]
    BY <1>1, InvFacts DEF P!Status, P!Settled
  <1>5. ASSUME NEW l \in Lanes
        PROVE  P!LaneInv(l, lanes'[l], status', taskGeneration) /\ P!Busy(lanes'[l])
    <2>1. CASE l = s
      BY <2>1, <1>2, <1>3, <1>4, P!ClearedLane, LaneOfType, BoundsAssumption DEF pending
    <2>2. CASE l # s
      <3>1. \A t \in Tasks : LaneOf[t] = l => status'[t] = status[t]
        BY <2>2, <1>2, <1>4
      <3>2. P!LaneInv(l, lanes[l], status', taskGeneration)
        BY <3>1, <1>2, P!SameLane, LaneOfType, BoundsAssumption
      <3> QED BY <2>2, <3>2, <1>3, InvFacts
    <2> QED BY <2>1, <2>2
  <1>6. Cleared(s)
    <2> SUFFICES ASSUME NEW r \in Runs
                 PROVE  /\ status'[Outer(r)] = IF SessionOf[r] = s /\ status[Outer(r)] = "queued"
                                                 THEN "cleared" ELSE status[Outer(r)]
                        /\ status'[Inner(r)] = status[Inner(r)]
      BY <1>1 DEF Cleared
    <2>1. LaneOf[Inner(r)] # s
      BY TwoTasks, TwoLevels
    <2> QED BY <2>1, <1>2, <1>4, TwoTasks
  <1>7. Coupled(status')
    BY <1>6, InvFacts DEF Cleared, Coupled
  <1>8. Single(lanes') /\ OneEach(status', taskGeneration)
    BY <1>3, <1>6, InvFacts, TwoLevels DEF Cleared, Single, OneEach
  <1>9. Ready(lanes, status)'
    BY <1>1, <1>3, <1>4, <1>5, <1>7, <1>8, InvFacts DEF Ready
  <1> QED BY <1>5, <1>6, <1>9 DEF Inv

LEMMA InitInv == Init => Inv
  <1> SUFFICES ASSUME Init PROVE Inv
    OBVIOUS
  <1>1. /\ lanes = [l \in Lanes |-> CL!NewLaneState]
        /\ status = [t \in Tasks |-> "new"] /\ taskGeneration = [t \in Tasks |-> 0]
    BY DEF Init, CL!Init
  <1>2. P!Init
    BY <1>1 DEF P!Init, CL!NewLaneState, P!NewLaneState
  <1>3. P!Inv
    BY <1>2, P!InitInv, LaneOfType, BoundsAssumption
  <1>4. Coupled(status) /\ OneEach(status, taskGeneration)
    BY <1>1, TwoTasks DEF Coupled, OneEach
  <1>5. Single(lanes)
    BY <1>1, TwoLevels DEF Single, CL!NewLaneState
  <1> QED BY <1>3, <1>4, <1>5 DEF P!Inv, P!TypeOK, Inv, Ready

LEMMA NextInv == Inv /\ [Next]_vars => Inv'
  <1> SUFFICES ASSUME Inv, [Next]_vars PROVE Inv'
    OBVIOUS
  <1>1. ASSUME NEW r \in Runs, StartRun(r) PROVE Inv'
    <2>1. /\ status[Outer(r)] = "new"
          /\ Drain(Joining(r), [status EXCEPT ![Outer(r)] = "queued"])
      BY <1>1 DEF StartRun, Joining
    <2> QED BY <2>1, JoiningReady, DrainReady
  <1>2. ASSUME NEW r \in Runs, NEW outcome \in {"resolved", "rejected"},
               TurnEnds(r, outcome)
        PROVE  Inv'
    <2>1. Complete(Inner(r), outcome) /\ status[Inner(r)] = "running"
      BY <1>2 DEF TurnEnds, Complete
    <2> QED BY <2>1, TurnCoupled, CompleteInv, TwoTasks
  <1>3. ASSUME NEW r \in Runs, RunEnds(r) PROVE Inv'
    <2>1. /\ Complete(Outer(r), status[Inner(r)]) /\ status[Outer(r)] = "running"
          /\ status[Inner(r)] \in CL!Settled
      BY <1>3 DEF RunEnds, Complete
    <2> QED BY <2>1, RunCoupled, CompleteInv, TwoTasks
  <1>4. ASSUME NEW g \in Globals, NEW n \in 1 .. MaxConcurrency, SetConcurrency(g, n)
        PROVE  Inv'
    <2>1. Drain(Recapped(g, n), status)
      BY <1>4 DEF SetConcurrency, Recapped
    <2> QED BY <2>1, RecappedReady, DrainReady
  <1>5. ASSUME NEW s \in Sessions, ClearSession(s) PROVE Inv'
    BY <1>5, ClearSessionInv
  <1>6. ASSUME ResetAllLanes PROVE Inv'
    <2>1. Drain(Idled, status) /\ \A l \in Lanes : lanes[l].generation < MaxResets
      BY <1>6 DEF ResetAllLanes, Idled
    <2> QED BY <2>1, IdledReady, DrainReady
  <1>7. CASE UNCHANGED vars
    <2>1. Ready(lanes, status)'
      BY <1>7 DEF vars, Inv, Ready
    <2> QED BY <1>7, <2>1 DEF vars, Inv
  <1> QED BY <1>1, <1>2, <1>3, <1>4, <1>5, <1>6, <1>7 DEF Next

-----------------------------------------------------------------------------
(* The inductive invariant holds in every reachable state.                 *)
THEOREM SpecInv == Spec => []Inv
  <1> QED BY InitInv, NextInv, PTL DEF Spec

(* However runs, turns, interrupts, cap changes and resets interleave, the *)
(* two levels of lanes agree: a turn in a global lane has its run in the   *)
(* session lane, and neither level sleeps on work it has room for          *)
(* (run.ts 187-207, command-queue.ts 66-118, 193-221).                     *)
THEOREM SpecLevelsAgree == Spec => []LevelsAgree
  <1>1. Inv => LevelsAgree
    <2> SUFFICES ASSUME Inv PROVE LevelsAgree
      OBVIOUS
    <2>1. TypeOK
      BY InvFacts, SameLanes DEF TypeOK, CL!TypeOK
    <2>2. TurnsBelongToRuns
      BY InvFacts, TwoTasks DEF TurnsBelongToRuns, Coupled, P!Status, P!Settled
    <2>3. BothLevelsBusy
      BY InvFacts, SameCardinality DEF BothLevelsBusy, CL!WorkConserving, P!Busy
    <2> QED BY <2>1, <2>2, <2>3 DEF LevelsAgree
  <1> QED BY <1>1, SpecInv, PTL

(* At most one run of a session executes per lifetime of the lanes, for    *)
(* any number of runs, sessions, global lanes, caps and resets             *)
(* (docs/concepts/queue.md 20, command-queue.ts 193-202).                  *)
THEOREM SpecOneRunPerGeneration == Spec => []OneRunPerGeneration
  <1>1. Inv => OneRunPerGeneration
    <2> SUFFICES ASSUME Inv PROVE OneRunPerGeneration
      OBVIOUS
    <2>1. \A r \in Executing : r \in Runs /\ status[Outer(r)] = "running"
      BY InvFacts, TwoTasks DEF Executing, Coupled, P!Status, P!Settled
    <2> QED BY <2>1, InvFacts DEF OneRunPerGeneration, OneEach
  <1> QED BY <1>1, SpecInv, PTL

-----------------------------------------------------------------------------
(* The session lanes implement SessionLine until a reset.                  *)

(* Without a reset the active set of a session lane is its running task,   *)
(* if there is one.                                                        *)
LEMMA HolderFacts ==
    ASSUME NEW s \in Sessions, NEW lane \in P!LaneState, NEW st,
           NEW tg \in [Tasks -> Nat], P!LaneInv(s, lane, st, tg), OneEach(st, tg),
           lane.generation = 0
    PROVE  /\ \A r \in Runs : SessionOf[r] = s /\ st[Outer(r)] = "running"
                             => lane.activeTaskIds = {Outer(r)}
           /\ lane.activeTaskIds # {} =>
                 \E r \in Runs : /\ SessionOf[r] = s /\ st[Outer(r)] = "running"
                                 /\ lane.activeTaskIds = {Outer(r)}
           /\ \A i \in 1 .. Len(lane.queue) :
                 \E r \in Runs : /\ SessionOf[r] = s /\ st[Outer(r)] = "queued"
                                 /\ lane.queue[i] = Outer(r)
           /\ \A r \in Runs : SessionOf[r] = s /\ st[Outer(r)] = "queued"
                             => \E i \in 1 .. Len(lane.queue) : lane.queue[i] = Outer(r)
  <1>1. \A t \in Tasks : LaneOf[t] = s => \E r \in Runs : t = Outer(r) /\ SessionOf[r] = s
    BY EveryTask, TwoTasks, TwoLevels
  <1>2. \A t \in Tasks : LaneOf[t] = s => tg[t] = 0
    BY DEF P!LaneInv, P!NotFromTheFuture
  <1>3. lane.activeTaskIds = {t \in Tasks : LaneOf[t] = s /\ st[t] = "running"}
    BY <1>2 DEF P!LaneInv, P!ActiveAgrees
  <1>4. \A q, r \in Runs : /\ SessionOf[q] = s /\ SessionOf[r] = s
                          /\ st[Outer(q)] = "running" /\ st[Outer(r)] = "running"
                        => q = r
    BY <1>2, TwoTasks DEF OneEach
  <1>5. \A r \in Runs : SessionOf[r] = s /\ st[Outer(r)] = "running"
                      => lane.activeTaskIds = {Outer(r)}
    BY <1>1, <1>3, <1>4, TwoTasks
  <1>6. lane.activeTaskIds # {} =>
            \E r \in Runs : /\ SessionOf[r] = s /\ st[Outer(r)] = "running"
                            /\ lane.activeTaskIds = {Outer(r)}
    BY <1>1, <1>3, <1>5
  <1>7. P!Entries(lane) = {t \in Tasks : LaneOf[t] = s /\ st[t] = "queued"}
    BY DEF P!LaneInv, P!QueueAgrees
  <1>8. \A i \in 1 .. Len(lane.queue) :
            \E r \in Runs : /\ SessionOf[r] = s /\ st[Outer(r)] = "queued"
                            /\ lane.queue[i] = Outer(r)
    <2> TAKE i \in 1 .. Len(lane.queue)
    <2>1. lane.queue[i] \in P!Entries(lane)
      BY DEF P!Entries
    <2>2. /\ lane.queue[i] \in Tasks /\ LaneOf[lane.queue[i]] = s
          /\ st[lane.queue[i]] = "queued"
      BY <2>1, <1>7
    <2> QED BY <2>2, <1>1
  <1>9. ASSUME NEW r \in Runs, SessionOf[r] = s, st[Outer(r)] = "queued"
        PROVE  \E i \in 1 .. Len(lane.queue) : lane.queue[i] = Outer(r)
    <2>1. Outer(r) \in P!Entries(lane)
      BY <1>7, <1>9, TwoTasks
    <2> QED BY <2>1 DEF P!Entries
  <1> QED BY <1>5, <1>6, <1>8, <1>9

LEMMA QueueOfRuns ==
    ASSUME NEW s \in Sessions, NEW lane \in P!LaneState, NEW st,
           NEW tg \in [Tasks -> Nat], P!LaneInv(s, lane, st, tg), OneEach(st, tg),
           lane.generation = 0
    PROVE  \A i \in 1 .. Len(lane.queue) : \E r \in Runs : lane.queue[i] = Outer(r)
  <1>1. \A i \in 1 .. Len(lane.queue) :
            \E r \in Runs : /\ SessionOf[r] = s /\ st[Outer(r)] = "queued"
                            /\ lane.queue[i] = Outer(r)
    BY HolderFacts
  <1> QED BY <1>1

(* The line of a lane with a free slot, and of one with a running task.    *)
LEMMA RunsOfFacts ==
    ASSUME NEW q \in Seq(Tasks), \A i \in 1 .. Len(q) : \E r \in Runs : q[i] = Outer(r)
    PROVE  /\ RunsOf(q) \in Seq(Runs) /\ Len(RunsOf(q)) = Len(q)
           /\ \A i \in 1 .. Len(q) : RunsOf(q)[i] \in Runs /\ q[i] = Outer(RunsOf(q)[i])
  <1>1. Len(q) \in Nat
    OBVIOUS
  <1>2. \A i \in 1 .. Len(q) : q[i][1] \in Runs /\ q[i] = Outer(q[i][1])
    BY TwoTasks
  <1> QED BY <1>1, <1>2 DEF RunsOf

LEMMA FreeLine ==
    ASSUME NEW s, s.activeTaskIds = {}, s.queue \in Seq(Tasks),
           RunsOf(s.queue) \in Seq(Runs)
    PROVE  LineOf(s) = RunsOf(s.queue)
  BY ConcatEmptySeq DEF LineOf

LEMMA HeldLine ==
    ASSUME NEW s, NEW r \in Runs, s.activeTaskIds = {Outer(r)},
           RunsOf(s.queue) \in Seq(Runs)
    PROVE  /\ LineOf(s) = <<r>> \o RunsOf(s.queue)
           /\ LineOf(s) \in Seq(Runs) /\ LineOf(s) # <<>>
           /\ Head(LineOf(s)) = r /\ Tail(LineOf(s)) = RunsOf(s.queue)
           /\ Len(LineOf(s)) = Len(RunsOf(s.queue)) + 1
           /\ \A i \in 1 .. Len(RunsOf(s.queue)) : LineOf(s)[i + 1] = RunsOf(s.queue)[i]
  <1>1. {q \in Runs : Outer(q) \in s.activeTaskIds} = {r}
    BY TwoTasks
  <1>2. LineOf(s) = <<r>> \o RunsOf(s.queue)
    BY <1>1 DEF LineOf
  <1> DEFINE u == RunsOf(s.queue)
  <1>3. u \in Seq(Runs) /\ <<r>> \in Seq(Runs) /\ Len(<<r>>) = 1
    OBVIOUS
  <1> HIDE DEF u
  <1>4. /\ <<r>> \o u \in Seq(Runs)
        /\ Len(<<r>> \o u) = 1 + Len(u)
        /\ \A i \in 1 .. 1 + Len(u) : (<<r>> \o u)[i] = IF i <= 1 THEN <<r>>[i] ELSE u[i - 1]
    BY <1>3, ConcatProperties
  <1> DEFINE v == <<r>> \o u
  <1>5. /\ v \in Seq(Runs) /\ Len(v) = Len(u) + 1 /\ Len(u) \in Nat
        /\ v # <<>> /\ Head(v) = r
        /\ \A i \in 1 .. Len(u) : v[i + 1] = u[i]
    BY <1>3, <1>4
  <1> HIDE DEF v
  <1>6. Tail(v) = u
    <2>1. /\ Tail(v) \in Seq(Runs) /\ Len(Tail(v)) = Len(u)
          /\ \A i \in 1 .. Len(u) : Tail(v)[i] = u[i]
      BY <1>5, HeadTailProperties
    <2> QED BY <2>1, <1>3, SeqEqual
  <1> QED BY <1>2, <1>5, <1>6 DEF u, v

(* A pump does not change the line.                                        *)
LEMMA PumpedLine ==
    ASSUME NEW lane \in P!LaneState, lane.maxConcurrent = 1,
           P!IsFiniteSet(lane.activeTaskIds),
           \A i \in 1 .. Len(lane.queue) : \E r \in Runs : lane.queue[i] = Outer(r)
    PROVE  LineOf(P!Pumped(lane)) = LineOf(lane)
  <1> DEFINE q == lane.queue
             u == RunsOf(q)
             p == P!Pumped(lane)
  <1>1. CASE StartsNone(lane)
    BY <1>1 DEF StartsNone
  <1>2. CASE StartsFirst(lane)
    <2>1. /\ q \in Seq(Tasks) /\ q # <<>> /\ lane.activeTaskIds = {}
          /\ p.queue = Tail(q) /\ p.activeTaskIds = {Head(q)}
      BY <1>2 DEF StartsFirst, P!LaneState
    <2>2. /\ u \in Seq(Runs) /\ Len(u) = Len(q)
          /\ \A i \in 1 .. Len(q) : u[i] \in Runs /\ q[i] = Outer(u[i])
      BY <2>1, RunsOfFacts
    <2>3. LineOf(lane) = u
      BY <2>1, <2>2, FreeLine
    <2> HIDE DEF q, u, p
    <2>4. /\ Len(q) \in Nat /\ Len(q) > 0 /\ Head(q) = q[1] /\ 1 \in 1 .. Len(q)
      BY <2>1
    <2>5. /\ Tail(q) \in Seq(Tasks) /\ Len(Tail(q)) = Len(q) - 1
          /\ \A i \in 1 .. Len(q) - 1 : Tail(q)[i] = q[i + 1] /\ i + 1 \in 1 .. Len(q)
      <3>1. /\ Tail(q) \in Seq(Tasks) /\ Len(Tail(q)) = Len(q) - 1
            /\ \A i \in 1 .. Len(Tail(q)) : Tail(q)[i] = q[i + 1]
        BY <2>1, HeadTailProperties
      <3> QED BY <3>1, <2>4
    <2>6. \A i \in 1 .. Len(Tail(q)) : \E r \in Runs : Tail(q)[i] = Outer(r)
      BY <2>2, <2>5
    <2> DEFINE w == RunsOf(Tail(q))
    <2>7. /\ w \in Seq(Runs) /\ Len(w) = Len(q) - 1
          /\ \A i \in 1 .. Len(q) - 1 : Tail(q)[i] = Outer(w[i])
      BY <2>5, <2>6, RunsOfFacts
    <2>8. \A i \in 1 .. Len(q) - 1 : w[i] = u[i + 1]
      <3> TAKE i \in 1 .. Len(q) - 1
      <3>1. Outer(w[i]) = q[i + 1] /\ i + 1 \in 1 .. Len(q)
        BY <2>5, <2>7
      <3> QED BY <3>1, <2>2, TwoTasks
    <2>9. p.activeTaskIds = {Outer(u[1])} /\ u[1] \in Runs
      BY <2>1, <2>2, <2>4
    <2> HIDE DEF w
    <2>10. /\ LineOf(p) \in Seq(Runs) /\ LineOf(p) # <<>> /\ Head(LineOf(p)) = u[1]
           /\ Len(LineOf(p)) = Len(w) + 1
           /\ \A i \in 1 .. Len(w) : LineOf(p)[i + 1] = w[i]
      <3>1. w = RunsOf(p.queue)
        BY <2>1 DEF w
      <3> DEFINE r == u[1]
      <3> HIDE DEF r
      <3>2. r \in Runs /\ p.activeTaskIds = {Outer(r)} /\ RunsOf(p.queue) \in Seq(Runs)
        BY <3>1, <2>7, <2>9 DEF r
      <3> QED BY <3>1, <3>2, HeldLine DEF r
    <2>11. LineOf(p)[1] = u[1]
      BY <2>10
    <2>12. \A i \in 1 .. Len(q) : LineOf(p)[i] = u[i]
      <3> TAKE i \in 1 .. Len(q)
      <3>1. CASE i = 1
        BY <3>1, <2>11
      <3>2. CASE i # 1
        <4>1. i - 1 \in 1 .. Len(q) - 1 /\ (i - 1) + 1 = i
          BY <3>2, <2>4
        <4> QED BY <4>1, <2>7, <2>8, <2>10
      <3> QED BY <3>1, <3>2
    <2>13. Len(LineOf(p)) = Len(u)
      BY <2>2, <2>4, <2>7, <2>10
    <2>14. LineOf(p) = u
      BY <2>2, <2>10, <2>12, <2>13, SeqEqual
    <2> QED BY <2>3, <2>14 DEF p
  <1> QED BY <1>1, <1>2, SingleSlot

(* A run that comes joins the line at its end.                             *)
LEMMA JoinedLine ==
    ASSUME NEW lane, lane.queue \in Seq(Tasks),
           \A i \in 1 .. Len(lane.queue) : \E q \in Runs : lane.queue[i] = Outer(q),
           NEW r \in Runs, NEW t, t.queue = Append(lane.queue, Outer(r)),
           t.activeTaskIds = lane.activeTaskIds
    PROVE  LineOf(t) = Append(LineOf(lane), r)
  <1> DEFINE q == lane.queue
             u == RunsOf(q)
             a == Append(q, Outer(r))
             v == RunsOf(a)
             holder == {x \in Runs : Outer(x) \in lane.activeTaskIds}
             h == IF holder = {} THEN <<>> ELSE <<CHOOSE x \in holder : TRUE>>
  <1>1. LineOf(lane) = h \o u /\ LineOf(t) = h \o v
    BY DEF LineOf
  <1>2. h \in Seq(Runs)
    <2>1. holder # {} => (CHOOSE x \in holder : TRUE) \in Runs
      OBVIOUS
    <2> HIDE DEF holder
    <2> QED BY <2>1
  <1>3. /\ u \in Seq(Runs) /\ Len(u) = Len(q)
        /\ \A i \in 1 .. Len(q) : u[i] \in Runs /\ q[i] = Outer(u[i])
    BY RunsOfFacts
  <1>4. /\ a \in Seq(Tasks) /\ Len(a) = Len(q) + 1 /\ Len(q) \in Nat
        /\ \A i \in 1 .. Len(q) : a[i] = q[i]
        /\ a[Len(q) + 1] = Outer(r)
    BY TwoTasks, AppendProperties
  <1> HIDE DEF h, q, u, a
  <1>5. \A i \in 1 .. Len(a) : \E x \in Runs : a[i] = Outer(x)
    <2> TAKE i \in 1 .. Len(a)
    <2>1. i \in 1 .. Len(q) \/ i = Len(q) + 1
      BY <1>4
    <2> QED BY <2>1, <1>3, <1>4
  <1>6. /\ v \in Seq(Runs) /\ Len(v) = Len(q) + 1
        /\ \A i \in 1 .. Len(q) + 1 : v[i] \in Runs /\ a[i] = Outer(v[i])
    BY <1>4, <1>5, RunsOfFacts
  <1> HIDE DEF v
  <1>7. v = Append(u, r)
    <2>1. /\ Append(u, r) \in Seq(Runs) /\ Len(Append(u, r)) = Len(q) + 1
          /\ \A i \in 1 .. Len(q) : Append(u, r)[i] = u[i]
          /\ Append(u, r)[Len(q) + 1] = r
      BY <1>3, AppendProperties
    <2>2. \A i \in 1 .. Len(q) : v[i] = u[i]
      <3> TAKE i \in 1 .. Len(q)
      <3>1. Outer(v[i]) = Outer(u[i]) /\ v[i] \in Runs
        BY <1>3, <1>4, <1>6
      <3> QED BY <3>1, TwoTasks
    <2>3. v[Len(q) + 1] = r
      <3>1. Outer(v[Len(q) + 1]) = Outer(r)
        BY <1>4, <1>6
      <3> QED BY <3>1, TwoTasks
    <2>4. \A i \in 1 .. Len(v) : v[i] = Append(u, r)[i]
      <3> TAKE i \in 1 .. Len(v)
      <3>1. i \in 1 .. Len(q) \/ i = Len(q) + 1
        BY <1>4, <1>6
      <3> QED BY <3>1, <2>1, <2>2, <2>3
    <2> QED BY <1>6, <2>1, <2>4, SeqEqual
  <1>8. h \o Append(u, r) = Append(h \o u, r)
    <2>1. /\ <<r>> \in Seq(Runs) /\ h \o u \in Seq(Runs)
      BY <1>2, <1>3, ConcatProperties
    <2>2. Append(u, r) = u \o <<r>> /\ Append(h \o u, r) = (h \o u) \o <<r>>
      BY <1>3, <2>1, AppendIsConcat
    <2> QED BY <1>2, <1>3, <2>1, <2>2, ConcatAssociative
  <1> QED BY <1>1, <1>7, <1>8

(* Who stands in the line: the running task first, then those that wait.   *)
LEMMA LineMembers ==
    ASSUME NEW s \in Sessions, NEW lane \in P!LaneState, NEW st,
           NEW tg \in [Tasks -> Nat], P!LaneInv(s, lane, st, tg), OneEach(st, tg),
           lane.generation = 0
    PROVE  /\ LineOf(lane) \in Seq(Runs)
           /\ \A i \in 1 .. Len(LineOf(lane)) :
                 st[Outer(LineOf(lane)[i])] \in {"queued", "running"}
           /\ \A r \in Runs : SessionOf[r] = s /\ st[Outer(r)] = "running" =>
                 LineOf(lane) # <<>> /\ Head(LineOf(lane)) = r
           /\ lane.activeTaskIds # {} =>
                 /\ LineOf(lane) # <<>>
                 /\ {LineOf(lane)[i] : i \in 2 .. Len(LineOf(lane))} =
                        {r \in Runs : SessionOf[r] = s /\ st[Outer(r)] = "queued"}
  <1> DEFINE q == lane.queue
             u == RunsOf(q)
             waiting == {r \in Runs : SessionOf[r] = s /\ st[Outer(r)] = "queued"}
  <1>1. /\ \A i \in 1 .. Len(q) :
              \E r \in Runs : SessionOf[r] = s /\ st[Outer(r)] = "queued" /\ q[i] = Outer(r)
        /\ \A r \in waiting : \E i \in 1 .. Len(q) : q[i] = Outer(r)
    BY HolderFacts
  <1>2. q \in Seq(Tasks)
    BY DEF P!LaneState
  <1>3. /\ u \in Seq(Runs) /\ Len(u) = Len(q) /\ Len(q) \in Nat
        /\ \A i \in 1 .. Len(q) : u[i] \in Runs /\ q[i] = Outer(u[i])
    <2>1. \A i \in 1 .. Len(q) : \E r \in Runs : q[i] = Outer(r)
      BY <1>1
    <2> HIDE DEF q
    <2> QED BY <1>2, <2>1, RunsOfFacts DEF q
  <1>4. /\ \A i \in 1 .. Len(q) : u[i] \in waiting
        /\ \A r \in waiting : \E i \in 1 .. Len(q) : u[i] = r
    <2>1. ASSUME NEW i \in 1 .. Len(q) PROVE u[i] \in waiting
      <3>1. PICK r \in waiting : q[i] = Outer(r)
        BY <1>1
      <3>2. Outer(r) = Outer(u[i]) /\ u[i] \in Runs
        BY <3>1, <1>3
      <3>3. r = u[i]
        BY <3>2, TwoTasks
      <3> QED BY <3>3
    <2>2. ASSUME NEW r \in waiting PROVE \E i \in 1 .. Len(q) : u[i] = r
      <3>1. PICK i \in 1 .. Len(q) : q[i] = Outer(r)
        BY <1>1
      <3>2. Outer(r) = Outer(u[i]) /\ u[i] \in Runs
        BY <3>1, <1>3
      <3>3. r = u[i]
        BY <3>2, TwoTasks
      <3> QED BY <3>3
    <2> QED BY <2>1, <2>2
  <1> HIDE DEF q, u
  <1>5. CASE lane.activeTaskIds = {}
    <2>1. LineOf(lane) = u
      BY <1>2, <1>3, <1>5, FreeLine DEF q, u
    <2>2. \A r \in Runs : ~(SessionOf[r] = s /\ st[Outer(r)] = "running")
      <3> SUFFICES ASSUME NEW r \in Runs, SessionOf[r] = s, st[Outer(r)] = "running"
                   PROVE  FALSE
        OBVIOUS
      <3>1. lane.activeTaskIds = {Outer(r)}
        BY HolderFacts
      <3> QED BY <3>1, <1>5
    <2> QED BY <2>1, <2>2, <1>3, <1>4, <1>5
  <1>6. CASE lane.activeTaskIds # {}
    <2>1. PICK r \in Runs : /\ SessionOf[r] = s /\ st[Outer(r)] = "running"
                           /\ lane.activeTaskIds = {Outer(r)}
      BY <1>6, HolderFacts
    <2> DEFINE v == LineOf(lane)
    <2>2. /\ v \in Seq(Runs) /\ v # <<>> /\ Head(v) = r /\ Len(v) = Len(u) + 1
          /\ \A i \in 1 .. Len(u) : v[i + 1] = u[i]
      BY <2>1, <1>3, HeldLine DEF q, u
    <2>3. \A p \in Runs : SessionOf[p] = s /\ st[Outer(p)] = "running" => p = r
      <3> SUFFICES ASSUME NEW p \in Runs, SessionOf[p] = s, st[Outer(p)] = "running"
                   PROVE  p = r
        OBVIOUS
      <3>1. lane.activeTaskIds = {Outer(p)}
        BY HolderFacts
      <3> QED BY <3>1, <2>1, TwoTasks
    <2> HIDE DEF v
    <2>4. v[1] = r
      BY <2>2
    <2>5. \A i \in 2 .. Len(v) : i - 1 \in 1 .. Len(q) /\ v[i] = u[i - 1]
      <3> TAKE i \in 2 .. Len(v)
      <3>1. i - 1 \in 1 .. Len(q) /\ (i - 1) + 1 = i
        BY <2>2, <1>3
      <3> QED BY <3>1, <2>2, <1>3
    <2>6. \A i \in 1 .. Len(v) : i = 1 \/ i \in 2 .. Len(v)
      BY <2>2
    <2>7. \A i \in 1 .. Len(v) : st[Outer(v[i])] \in {"queued", "running"}
      BY <2>1, <2>4, <2>5, <2>6, <1>4
    <2>8. \A i \in 1 .. Len(q) : i + 1 \in 2 .. Len(v) /\ v[i + 1] = u[i]
      BY <2>2, <1>3
    <2>9. {v[i] : i \in 2 .. Len(v)} = waiting
      <3>1. \A i \in 2 .. Len(v) : v[i] \in waiting
        BY <2>5, <1>4
      <3>2. ASSUME NEW x \in waiting PROVE x \in {v[i] : i \in 2 .. Len(v)}
        <4>1. PICK i \in 1 .. Len(q) : u[i] = x
          BY <1>4
        <4> QED BY <4>1, <2>8
      <3> HIDE DEF waiting
      <3> QED BY <3>1, <3>2
    <2> QED BY <2>2, <2>3, <2>7, <2>9 DEF v
  <1> QED BY <1>5, <1>6

-----------------------------------------------------------------------------
(* The steps.                                                              *)
NewTurns == {r \in Runs : status[Inner(r)] # "running" /\ status'[Inner(r)] = "running"}

(* Turns of the runs in ended come to an end, others may come or begin.    *)
Moves(ended) ==
    /\ ended \in SUBSET Executing
    /\ \A r \in Runs :
          IF r \in ended
            THEN status'[Inner(r)] \in {"resolved", "rejected"}
            ELSE \/ status'[Inner(r)] = status[Inner(r)]
                 \/ /\ status[Inner(r)] \in {"new", "queued"}
                    /\ status'[Inner(r)] \in {"queued", "running"}

LEMMA TurnsMove ==
    ASSUME Inv', NeverReset', NEW ended, Moves(ended)
    PROVE  /\ ended \in SUBSET Executing /\ NewTurns \in SUBSET Runs
           /\ Executing' = (Executing \ ended) \cup NewTurns
           /\ SL!Begin(NewTurns)
  <1>1. /\ Executing' = (Executing \ ended) \cup NewTurns
        /\ ended \in SUBSET Executing /\ NewTurns \in SUBSET Runs
    BY DEF Executing, Moves, NewTurns
  <1>2. NewTurns \cap servedBar = {} /\ servedBar' = servedBar \cup NewTurns
    BY DEF Executing, Moves, NewTurns, servedBar
  <1>3. ASSUME NEW r \in NewTurns
        PROVE  lineBar'[SessionOf[r]] # <<>> /\ Head(lineBar'[SessionOf[r]]) = r
    <2> DEFINE s == SessionOf[r]
    <2>1. r \in Runs /\ s \in Sessions /\ s \in Lanes /\ status'[Inner(r)] = "running"
      BY TwoTasks, TwoLevels DEF NewTurns
    <2>2. /\ lanes'[s] \in P!LaneState /\ lanes'[s].generation = 0
          /\ taskGeneration' \in [Tasks -> Nat]
          /\ P!LaneInv(s, lanes'[s], status', taskGeneration')
          /\ OneEach(status', taskGeneration') /\ Coupled(status')
          /\ status' \in [Tasks -> P!Status]
      <3>1. 0 .. MaxResets \subseteq Nat
        BY BoundsAssumption
      <3> QED BY <2>1, <3>1 DEF Inv, Ready, NeverReset
    <2>3. status'[Outer(r)] = "running"
      BY <2>1, <2>2, TwoTasks DEF Coupled, P!Status, P!Settled
    <2>4. LineOf(lanes'[s]) # <<>> /\ Head(LineOf(lanes'[s])) = r
      <3> DEFINE lane == lanes'[s]
                 st == status'
                 tg == taskGeneration'
      <3>1. /\ lane \in P!LaneState /\ lane.generation = 0 /\ tg \in [Tasks -> Nat]
            /\ P!LaneInv(s, lane, st, tg) /\ OneEach(st, tg)
            /\ s \in Sessions /\ r \in Runs /\ SessionOf[r] = s /\ st[Outer(r)] = "running"
        BY <2>1, <2>2, <2>3
      <3> HIDE DEF lane, st, tg, s
      <3>2. LineOf(lane) # <<>> /\ Head(LineOf(lane)) = r
        BY <3>1, LineMembers
      <3> QED BY <3>2 DEF lane
    <2>5. lineBar'[s] = LineOf(lanes'[s])
      BY <2>1 DEF lineBar
    <2> QED BY <2>4, <2>5
  <1> QED BY <1>1, <1>2, <1>3 DEF SL!Begin

LEMMA DrainLine ==
    ASSUME NEW ls, NEW st, Ready(ls, st), Drain(ls, st), NeverReset'
    PROVE  /\ Inv' /\ Stepped(ls, st)
           /\ \A l \in Lanes : ls[l].generation = 0
           /\ \A s \in Sessions : lineBar'[s] = LineOf(ls[s])
           /\ leftBar' = {r \in Runs : st[Outer(r)] \in CL!Settled}
  <1>1. Inv' /\ Stepped(ls, st)
    BY DrainReady
  <1>2. \A l \in Lanes : ls[l].generation = 0
    BY <1>1 DEF Stepped, NeverReset
  <1>3. ASSUME NEW s \in Sessions
        PROVE  lineBar'[s] = LineOf(ls[s])
    <2> DEFINE lane == ls[s]
    <2>1. /\ lane \in P!LaneState /\ lane.generation = 0 /\ lane.maxConcurrent = 1
          /\ taskGeneration \in [Tasks -> Nat]
          /\ P!LaneInv(s, lane, st, taskGeneration) /\ OneEach(st, taskGeneration)
      <3>1. 0 .. MaxResets \subseteq Nat
        BY BoundsAssumption
      <3> QED BY <3>1, <1>2, TwoLevels DEF Ready, Single
    <2>2. lineBar'[s] = LineOf(P!Pumped(lane))
      BY <1>1 DEF lineBar, Stepped
    <2> HIDE DEF lane
    <2>3. \A i \in 1 .. Len(lane.queue) : \E r \in Runs : lane.queue[i] = Outer(r)
      BY <2>1, QueueOfRuns
    <2>4. P!IsFiniteSet(lane.activeTaskIds)
      BY <2>1 DEF P!LaneInv
    <2>5. LineOf(P!Pumped(lane)) = LineOf(lane)
      BY <2>1, <2>3, <2>4, PumpedLine
    <2> QED BY <2>2, <2>5 DEF lane
  <1>4. leftBar' = {r \in Runs : st[Outer(r)] \in CL!Settled}
    <2>1. \A r \in Runs : status'[Outer(r)] \in CL!Settled <=> st[Outer(r)] \in CL!Settled
      BY <1>1 DEF Stepped, CL!Settled
    <2> QED BY <2>1 DEF leftBar
  <1> QED BY <1>1, <1>2, <1>3, <1>4

(* In a state without resets.                                              *)
LEMMA LineFacts ==
    ASSUME Inv, \A l \in Lanes : lanes[l].generation = 0, NEW s \in Sessions
    PROVE  /\ lineBar \in [Sessions -> Seq(Runs)]
           /\ lineBar[s] = LineOf(lanes[s])
           /\ \A i \in 1 .. Len(lineBar[s]) :
                 status[Outer(lineBar[s][i])] \in {"queued", "running"}
           /\ \A r \in Runs : SessionOf[r] = s /\ status[Outer(r)] = "running" =>
                 lineBar[s] # <<>> /\ Head(lineBar[s]) = r
           /\ lanes[s].activeTaskIds # {} =>
                 /\ lineBar[s] # <<>>
                 /\ {lineBar[s][i] : i \in 2 .. Len(lineBar[s])} =
                        {r \in Runs : SessionOf[r] = s /\ status[Outer(r)] = "queued"}
  <1>1. ASSUME NEW x \in Sessions
        PROVE  /\ lanes[x] \in P!LaneState /\ lanes[x].generation = 0
               /\ P!LaneInv(x, lanes[x], status, taskGeneration)
               /\ taskGeneration \in [Tasks -> Nat] /\ OneEach(status, taskGeneration)
    BY InvFacts, TwoLevels
  <1>2. \A x \in Sessions : LineOf(lanes[x]) \in Seq(Runs)
    BY <1>1, LineMembers
  <1>3. lineBar \in [Sessions -> Seq(Runs)] /\ lineBar[s] = LineOf(lanes[s])
    BY <1>2 DEF lineBar
  <1>4. /\ \A i \in 1 .. Len(LineOf(lanes[s])) :
              status[Outer(LineOf(lanes[s])[i])] \in {"queued", "running"}
        /\ \A r \in Runs : SessionOf[r] = s /\ status[Outer(r)] = "running" =>
              LineOf(lanes[s]) # <<>> /\ Head(LineOf(lanes[s])) = r
        /\ lanes[s].activeTaskIds # {} =>
              /\ LineOf(lanes[s]) # <<>>
              /\ {LineOf(lanes[s])[i] : i \in 2 .. Len(LineOf(lanes[s]))} =
                     {r \in Runs : SessionOf[r] = s /\ status[Outer(r)] = "queued"}
    BY <1>1, LineMembers
  <1> QED BY <1>3, <1>4

(* A run that starts joins its line.                                       *)
LEMMA StartStep ==
    ASSUME Inv, NEW r \in Runs, StartRun(r), NeverReset'
    PROVE  SL!LineNext
  <1> DEFINE s == SessionOf[r]
             ls == Joining(r)
             st == [status EXCEPT ![Outer(r)] = "queued"]
  <1>1. status[Outer(r)] = "new" /\ Drain(ls, st)
    BY DEF StartRun, Joining
  <1>2. Ready(ls, st)
    BY <1>1, JoiningReady
  <1>3. /\ s \in Sessions /\ s \in Lanes /\ Outer(r) \in Tasks
        /\ lanes \in [Lanes -> P!LaneState] /\ lanes[s].queue \in Seq(Tasks)
        /\ status \in [Tasks -> P!Status]
    BY InvFacts, TwoTasks, TwoLevels DEF P!LaneState
  <1>4. /\ \A x \in Sessions \ {s} : ls[x] = lanes[x]
        /\ ls[s].queue = Append(lanes[s].queue, Outer(r))
        /\ ls[s].activeTaskIds = lanes[s].activeTaskIds
        /\ \A l \in Lanes : ls[l].generation = lanes[l].generation
    BY <1>3, TwoLevels DEF Joining, P!LaneState
  <1>5. /\ st[Outer(r)] = "queued"
        /\ \A q \in Runs : q # r => st[Outer(q)] = status[Outer(q)]
        /\ \A q \in Runs : st[Inner(q)] = status[Inner(q)]
    BY <1>3, TwoTasks
  <1> HIDE DEF ls, st, s
  <1>6. /\ Inv' /\ Stepped(ls, st)
        /\ \A l \in Lanes : ls[l].generation = 0
        /\ \A x \in Sessions : lineBar'[x] = LineOf(ls[x])
        /\ leftBar' = {q \in Runs : st[Outer(q)] \in CL!Settled}
    BY <1>1, <1>2, DrainLine
  <1>7. \A l \in Lanes : lanes[l].generation = 0
    BY <1>4, <1>6
  <1>8. /\ lineBar \in [Sessions -> Seq(Runs)]
        /\ \A x \in Sessions : lineBar[x] = LineOf(lanes[x])
        /\ \A i \in 1 .. Len(lineBar[s]) :
              status[Outer(lineBar[s][i])] \in {"queued", "running"}
    BY <1>3, <1>7, LineFacts
  <1>9. LineOf(ls[s]) = Append(LineOf(lanes[s]), r)
    <2>1. /\ lanes[s] \in P!LaneState /\ lanes[s].generation = 0
          /\ P!LaneInv(s, lanes[s], status, taskGeneration)
          /\ taskGeneration \in [Tasks -> Nat] /\ OneEach(status, taskGeneration)
      BY <1>3, <1>7, InvFacts
    <2>2. \A i \in 1 .. Len(lanes[s].queue) : \E q \in Runs : lanes[s].queue[i] = Outer(q)
      BY <1>3, <2>1, QueueOfRuns
    <2> QED BY <1>3, <1>4, <2>2, JoinedLine
  <1>10. lineBar' = [lineBar EXCEPT ![s] = Append(@, r)]
    <2>1. lineBar' = [x \in Sessions |-> LineOf(ls[x])]
      BY <1>6 DEF lineBar
    <2> QED BY <2>1, <1>3, <1>4, <1>8, <1>9
  <1>11. leftBar' = leftBar
    BY <1>1, <1>5, <1>6 DEF leftBar, CL!Settled
  <1>12. r \notin leftBar \cup SL!InLine(s)
    BY <1>1, <1>8 DEF leftBar, CL!Settled, SL!InLine
  <1>13. SL!Join(r)
    BY <1>10, <1>11, <1>12 DEF SL!Join, s
  <1>14. Moves({})
    BY <1>5, <1>6 DEF Moves, Stepped
  <1>15. /\ Executing' = (Executing \ {}) \cup NewTurns /\ SL!Begin(NewTurns)
         /\ NewTurns \in SUBSET Runs /\ {} \in SUBSET Executing
    BY <1>6, <1>14, TurnsMove
  <1> QED BY <1>13, <1>15 DEF SL!LineNext

(* What a pump does to the lines when its operation did nothing to them.   *)
LEMMA QuietDrain ==
    ASSUME NEW ls, NEW st, Ready(ls, st), Drain(ls, st), NeverReset',
           \A s \in Sessions : ls[s] = lanes[s],
           \A r \in Runs : st[Outer(r)] = status[Outer(r)]
    PROVE  Inv' /\ Stepped(ls, st) /\ lineBar' = lineBar /\ leftBar' = leftBar
  <1>1. /\ Inv' /\ Stepped(ls, st)
        /\ \A s \in Sessions : lineBar'[s] = LineOf(ls[s])
        /\ leftBar' = {r \in Runs : st[Outer(r)] \in CL!Settled}
    BY DrainLine
  <1>2. lineBar' = lineBar
    BY <1>1 DEF lineBar
  <1>3. leftBar' = leftBar
    BY <1>1 DEF leftBar
  <1> QED BY <1>1, <1>2, <1>3

(* Every step that keeps the lines is one of SessionLine.                  *)
LEMMA QuietStep ==
    ASSUME Inv', NeverReset', NEW r \in Runs, NEW ended, ended \subseteq {r}, Moves(ended),
           lineBar' = lineBar, leftBar' = leftBar
    PROVE  SL!LineNext
  <1>1. /\ ended \in SUBSET Executing /\ NewTurns \in SUBSET Runs
        /\ Executing' = (Executing \ ended) \cup NewTurns
        /\ SL!Begin(NewTurns)
    BY TurnsMove
  <1> QED BY <1>1 DEF SL!LineNext

(* Without resets a task that ends is of the present generation.           *)
LEMMA PresentTask ==
    ASSUME Inv, NEW t \in Tasks, lanes[LaneOf[t]].generation = 0
    PROVE  taskGeneration[t] = lanes[LaneOf[t]].generation
  <1> DEFINE l == LaneOf[t]
  <1>1. /\ l \in Lanes /\ P!LaneInv(l, lanes[l], status, taskGeneration)
        /\ taskGeneration[t] \in Nat /\ LaneOf[t] = l /\ lanes[l].generation = 0
    BY InvFacts, LaneOfType
  <1> HIDE DEF l
  <1>2. taskGeneration[t] <= 0
    BY <1>1 DEF P!LaneInv, P!NotFromTheFuture
  <1> QED BY <1>1, <1>2

LEMMA CompleteDrains ==
    ASSUME Inv, NEW t \in Tasks, NEW outcome, Complete(t, outcome), NeverReset',
           outcome \in {"resolved", "rejected"}, Coupled(Ended(t, outcome))
    PROVE  /\ status[t] = "running" /\ taskGeneration[t] = lanes[LaneOf[t]].generation
           /\ Drain(Freed(t), Ended(t, outcome)) /\ Ready(Freed(t), Ended(t, outcome))
  <1>1. status[t] = "running" /\ LaneOf[t] \in Lanes
    BY LaneOfType DEF Complete
  <1>2. taskGeneration[t] = lanes[LaneOf[t]].generation
    <2> SUFFICES ASSUME taskGeneration[t] # lanes[LaneOf[t]].generation PROVE FALSE
      OBVIOUS
    <2>1. lanes' = lanes
      BY DEF Complete
    <2>2. lanes[LaneOf[t]].generation = 0
      BY <1>1, <2>1 DEF NeverReset
    <2> QED BY <2>2, PresentTask
  <1>3. Drain(Freed(t), Ended(t, outcome))
    BY <1>2 DEF Complete, Freed, Ended
  <1>4. Ready(Freed(t), Ended(t, outcome))
    BY <1>1, <1>2, EndedReady
  <1> QED BY <1>1, <1>2, <1>3, <1>4

(* A turn that ends leaves the lines as they are.                          *)
LEMMA TurnStep ==
    ASSUME Inv, NEW r \in Runs, NEW outcome \in {"resolved", "rejected"},
           TurnEnds(r, outcome), NeverReset'
    PROVE  SL!LineNext
  <1> DEFINE t == Inner(r)
             ls == Freed(t)
             st == Ended(t, outcome)
  <1>1. t \in Tasks /\ LaneOf[t] \in Globals /\ Complete(t, outcome) /\ status[t] = "running"
    BY TwoTasks DEF TurnEnds, Complete
  <1>2. Coupled(st)
    BY <1>1, TurnCoupled
  <1>3. Drain(ls, st) /\ Ready(ls, st)
    BY <1>1, <1>2, CompleteDrains
  <1>4. \A s \in Sessions : ls[s] = lanes[s]
    BY <1>1, InvFacts, TwoLevels DEF Freed
  <1>5. /\ \A q \in Runs : st[Outer(q)] = status[Outer(q)]
        /\ \A q \in Runs : q # r => st[Inner(q)] = status[Inner(q)]
        /\ st[Inner(r)] = outcome
    BY <1>1, InvFacts, TwoTasks DEF Ended
  <1> HIDE DEF ls, st
  <1>6. Inv' /\ Stepped(ls, st) /\ lineBar' = lineBar /\ leftBar' = leftBar
    BY <1>3, <1>4, <1>5, QuietDrain
  <1>7. Moves({r})
    <2>1. {r} \in SUBSET Executing
      BY <1>1 DEF Executing
    <2>2. status'[Inner(r)] \in {"resolved", "rejected"}
      BY <1>5, <1>6 DEF Stepped
    <2>3. \A q \in Runs : q # r =>
              \/ status'[Inner(q)] = status[Inner(q)]
              \/ /\ status[Inner(q)] \in {"new", "queued"}
                 /\ status'[Inner(q)] \in {"queued", "running"}
      BY <1>5, <1>6 DEF Stepped
    <2> QED BY <2>1, <2>2, <2>3 DEF Moves
  <1>8. {r} \subseteq {r}
    OBVIOUS
  <1> QED BY <1>6, <1>7, <1>8, QuietStep

(* A run that ends with its turn leaves its line, of which it is the head. *)
LEMMA RunStep ==
    ASSUME Inv, NEW r \in Runs, RunEnds(r), NeverReset'
    PROVE  SL!LineNext
  <1> DEFINE t == Outer(r)
             s == SessionOf[r]
             outcome == status[Inner(r)]
             ls == Freed(t)
             st == Ended(t, outcome)
  <1>1. /\ t \in Tasks /\ LaneOf[t] = s /\ s \in Sessions /\ s \in Lanes
        /\ Complete(t, outcome) /\ status[t] = "running" /\ outcome \in CL!Settled
    BY TwoTasks, TwoLevels DEF RunEnds, Complete
  <1>2. outcome \in {"resolved", "rejected"} /\ Coupled(st)
    BY <1>1, RunCoupled
  <1>3. Drain(ls, st) /\ Ready(ls, st)
    BY <1>1, <1>2, CompleteDrains
  <1>4. /\ \A x \in Sessions \ {s} : ls[x] = lanes[x]
        /\ ls[s].queue = lanes[s].queue
        /\ ls[s].activeTaskIds = lanes[s].activeTaskIds \ {t}
        /\ \A l \in Lanes : ls[l].generation = lanes[l].generation
    BY <1>1, InvFacts, TwoLevels DEF Freed, P!LaneState
  <1>5. /\ \A q \in Runs : q # r => st[Outer(q)] = status[Outer(q)]
        /\ \A q \in Runs : st[Inner(q)] = status[Inner(q)]
        /\ st[Outer(r)] = outcome
    BY <1>1, InvFacts, TwoTasks DEF Ended
  <1> HIDE DEF ls, st, s
  <1>6. /\ Inv' /\ Stepped(ls, st)
        /\ \A l \in Lanes : ls[l].generation = 0
        /\ \A x \in Sessions : lineBar'[x] = LineOf(ls[x])
        /\ leftBar' = {q \in Runs : st[Outer(q)] \in CL!Settled}
    BY <1>3, DrainLine
  <1>7. \A l \in Lanes : lanes[l].generation = 0
    BY <1>4, <1>6
  <1>8. /\ lineBar \in [Sessions -> Seq(Runs)]
        /\ \A x \in Sessions : lineBar[x] = LineOf(lanes[x])
        /\ lineBar[s] # <<>> /\ Head(lineBar[s]) = r
    BY <1>1, <1>7, LineFacts DEF s
  <1>9. LineOf(ls[s]) = Tail(LineOf(lanes[s]))
    <2> DEFINE lane == lanes[s]
    <2>0. s \in Sessions /\ SessionOf[r] = s /\ status[Outer(r)] = "running"
      BY <1>1 DEF s
    <2>1. /\ lane \in P!LaneState /\ lane.generation = 0
          /\ P!LaneInv(s, lane, status, taskGeneration)
          /\ taskGeneration \in [Tasks -> Nat] /\ OneEach(status, taskGeneration)
          /\ lane.queue \in Seq(Tasks)
      BY <1>1, <1>7, InvFacts DEF P!LaneState
    <2> HIDE DEF lane
    <2>2. lane.activeTaskIds = {Outer(r)}
      BY <2>0, <2>1, HolderFacts
    <2>3. \A i \in 1 .. Len(lane.queue) : \E q \in Runs : lane.queue[i] = Outer(q)
      BY <2>0, <2>1, QueueOfRuns
    <2>4. RunsOf(lane.queue) \in Seq(Runs)
      BY <2>1, <2>3, RunsOfFacts
    <2>5. Tail(LineOf(lane)) = RunsOf(lane.queue)
      BY <2>2, <2>4, HeldLine
    <2>6. /\ ls[s].activeTaskIds = {} /\ ls[s].queue = lane.queue
      BY <1>4, <2>2 DEF lane
    <2>7. LineOf(ls[s]) = RunsOf(lane.queue)
      BY <2>1, <2>4, <2>6, FreeLine
    <2> QED BY <2>5, <2>7 DEF lane
  <1>10. lineBar' = [lineBar EXCEPT ![s] = Tail(@)]
    <2>1. lineBar' = [x \in Sessions |-> LineOf(ls[x])]
      BY <1>6 DEF lineBar
    <2> QED BY <2>1, <1>1, <1>4, <1>8, <1>9
  <1>11. leftBar' = leftBar \cup {r}
    BY <1>1, <1>5, <1>6 DEF leftBar
  <1>12. r \in servedBar \ Executing
    BY <1>2 DEF servedBar, Executing
  <1>13. SL!Leave(r)
    BY <1>8, <1>10, <1>11, <1>12 DEF SL!Leave, s
  <1>14. Moves({})
    BY <1>5, <1>6 DEF Moves, Stepped
  <1>15. /\ Executing' = (Executing \ {}) \cup NewTurns /\ SL!Begin(NewTurns)
         /\ NewTurns \in SUBSET Runs /\ {} \in SUBSET Executing
    BY <1>6, <1>14, TurnsMove
  <1> QED BY <1>13, <1>15 DEF SL!LineNext

(* A higher cap lets turns begin.                                          *)
LEMMA CapStep ==
    ASSUME Inv, NEW g \in Globals, NEW n \in 1 .. MaxConcurrency,
           SetConcurrency(g, n), NeverReset'
    PROVE  SL!LineNext \/ UNCHANGED SL!lineVars
  <1> DEFINE ls == Recapped(g, n)
  <1>1. Drain(ls, status) /\ Ready(ls, status)
    BY RecappedReady DEF SetConcurrency, Recapped
  <1>2. \A s \in Sessions : ls[s] = lanes[s]
    BY InvFacts, TwoLevels DEF Recapped
  <1> HIDE DEF ls
  <1>3. Inv' /\ Stepped(ls, status) /\ lineBar' = lineBar /\ leftBar' = leftBar
    BY <1>1, <1>2, QuietDrain
  <1>4. Moves({})
    BY <1>3 DEF Moves, Stepped
  <1>5. CASE NewTurns = {}
    <2>1. Executing' = (Executing \ {}) \cup NewTurns /\ SL!Begin(NewTurns)
      BY <1>3, <1>4, TurnsMove
    <2> QED BY <2>1, <1>3, <1>5 DEF SL!lineVars, SL!Begin
  <1>6. CASE NewTurns # {}
    <2>1. PICK r \in NewTurns : TRUE
      BY <1>6
    <2>2. r \in Runs /\ {} \subseteq {r}
      BY DEF NewTurns
    <2> QED BY <2>2, <1>3, <1>4, QuietStep
  <1> QED BY <1>5, <1>6

(* An interrupt turns away those behind the first, never the first.        *)
LEMMA ClearStep ==
    ASSUME Inv, NEW s \in Sessions, ClearSession(s), NeverReset'
    PROVE  SL!LineNext \/ UNCHANGED SL!lineVars
  <1>1. Inv' /\ Cleared(s)
    BY ClearSessionInv
  <1>2. /\ s \in Lanes /\ lanes \in [Lanes -> P!LaneState] /\ lanes[s] \in P!LaneState
        /\ lanes' = [lanes EXCEPT ![s].queue = <<>>]
    BY <1>1, InvFacts, TwoLevels DEF Cleared
  <1>3. /\ \A x \in Sessions \ {s} : lanes'[x] = lanes[x]
        /\ lanes'[s].queue = <<>> /\ lanes'[s].activeTaskIds = lanes[s].activeTaskIds
        /\ \A l \in Lanes : lanes'[l].generation = lanes[l].generation
    BY <1>2, TwoLevels DEF P!LaneState
  <1>4. \A l \in Lanes : lanes[l].generation = 0
    BY <1>3 DEF NeverReset
  <1>5. /\ lineBar \in [Sessions -> Seq(Runs)]
        /\ \A x \in Sessions : lineBar[x] = LineOf(lanes[x])
        /\ lanes[s].activeTaskIds # {} =>
              /\ lineBar[s] # <<>>
              /\ {lineBar[s][i] : i \in 2 .. Len(lineBar[s])} =
                     {r \in Runs : SessionOf[r] = s /\ status[Outer(r)] = "queued"}
    BY <1>4, LineFacts
  <1>6. /\ lanes[s].generation = 0 /\ P!LaneInv(s, lanes[s], status, taskGeneration)
        /\ taskGeneration \in [Tasks -> Nat] /\ OneEach(status, taskGeneration)
        /\ P!Busy(lanes[s]) /\ lanes[s].maxConcurrent = 1
    BY <1>2, <1>4, InvFacts DEF Single
  <1>7. /\ Executing' = Executing /\ servedBar' = servedBar
        /\ leftBar' = leftBar \cup {r \in Runs : SessionOf[r] = s /\ status[Outer(r)] = "queued"}
    BY <1>1 DEF Cleared, Executing, servedBar, leftBar, CL!Settled
  <1>8. CASE lanes[s].activeTaskIds = {}
    <2>1. lanes[s].queue = <<>>
      BY <1>2, <1>6, <1>8, P!FreeSlot, LaneOfType, BoundsAssumption
    <2>2. lanes' = lanes
      BY <1>2, <2>1 DEF P!LaneState
    <2>3. \A r \in Runs : ~(SessionOf[r] = s /\ status[Outer(r)] = "queued")
      <3> SUFFICES ASSUME NEW r \in Runs, SessionOf[r] = s, status[Outer(r)] = "queued"
                   PROVE  FALSE
        OBVIOUS
      <3>1. \E i \in 1 .. Len(lanes[s].queue) : lanes[s].queue[i] = Outer(r)
        BY <1>2, <1>6, HolderFacts
      <3> QED BY <3>1, <2>1
    <2>4. lineBar' = lineBar /\ leftBar' = leftBar
      BY <1>7, <2>2, <2>3 DEF lineBar
    <2> QED BY <1>7, <2>4 DEF SL!lineVars
  <1>9. CASE lanes[s].activeTaskIds # {}
    <2>1. PICK r \in Runs : /\ SessionOf[r] = s /\ status[Outer(r)] = "running"
                           /\ lanes[s].activeTaskIds = {Outer(r)}
      BY <1>2, <1>6, <1>9, HolderFacts
    <2>2. Head(lineBar[s]) = r
      BY <1>4, <2>1, LineFacts
    <2>3. LineOf(lanes'[s]) = <<r>>
      <3>1. {q \in Runs : Outer(q) \in lanes'[s].activeTaskIds} = {r}
        BY <1>3, <2>1, TwoTasks
      <3>2. RunsOf(lanes'[s].queue) = <<>>
        BY <1>3 DEF RunsOf
      <3>3. LineOf(lanes'[s]) = <<r>> \o <<>>
        BY <3>1, <3>2 DEF LineOf
      <3> QED BY <3>3
    <2>4. lineBar' = [lineBar EXCEPT ![s] = <<Head(@)>>]
      <3>1. lineBar' = [x \in Sessions |-> LineOf(lanes'[x])]
        BY DEF lineBar
      <3> QED BY <3>1, <1>3, <1>5, <2>2, <2>3
    <2>5. SL!TurnAway(s)
      BY <1>5, <1>7, <1>9, <2>4 DEF SL!TurnAway
    <2>6. Moves({})
      BY <1>1 DEF Moves, Cleared
    <2>7. NewTurns = {}
      BY <1>1 DEF NewTurns, Cleared
    <2>8. SL!Begin({}) /\ {} \in SUBSET Runs /\ {} \in SUBSET Executing
      BY <1>1, <2>6, <2>7, TurnsMove
    <2>9. Executing' = (Executing \ {}) \cup {}
      BY <1>7
    <2> QED BY <2>5, <2>8, <2>9 DEF SL!LineNext
  <1> QED BY <1>8, <1>9

(* A step that leaves no reset behind is not a reset, unless there is      *)
(* nothing to reset.                                                       *)
LEMMA ResetStep ==
    ASSUME Inv, ResetAllLanes, NeverReset'
    PROVE  UNCHANGED SL!lineVars
  <1>1. /\ Drain(Idled, status) /\ \A l \in Lanes : lanes[l].generation < MaxResets
    BY DEF ResetAllLanes, Idled
  <1>2. \A l \in Lanes : Idled[l].generation = 0
    BY <1>1, IdledReady, DrainLine
  <1>3. Lanes = {}
    <2> SUFFICES ASSUME NEW l \in Lanes PROVE FALSE
      OBVIOUS
    <2>1. lanes[l].generation \in Nat
      BY InvFacts, BoundsAssumption DEF P!LaneState
    <2>2. Idled[l].generation = lanes[l].generation + 1
      <3>1. Idled[l] = CL!IdleLane(lanes[l])
        BY DEF Idled
      <3> QED BY <3>1 DEF CL!IdleLane
    <2> QED BY <1>2, <2>1, <2>2
  <1>4. Sessions = {} /\ Runs = {}
    BY <1>3, RunsAssumption DEF Lanes
  <1> QED BY <1>4 DEF SL!lineVars, lineBar, Executing, servedBar, leftBar

LEMMA LineStep ==
    ASSUME Inv, [Next]_vars
    PROVE  (NeverReset' => SL!LineNext) \/ UNCHANGED SL!lineVars
  <1> SUFFICES ASSUME NeverReset' PROVE SL!LineNext \/ UNCHANGED SL!lineVars
    OBVIOUS
  <1>1. CASE \E r \in Runs : StartRun(r)
    BY <1>1, StartStep
  <1>2. CASE \E r \in Runs, outcome \in {"resolved", "rejected"} : TurnEnds(r, outcome)
    BY <1>2, TurnStep
  <1>3. CASE \E r \in Runs : RunEnds(r)
    BY <1>3, RunStep
  <1>4. CASE \E g \in Globals, n \in 1 .. MaxConcurrency : SetConcurrency(g, n)
    BY <1>4, CapStep
  <1>5. CASE \E s \in Sessions : ClearSession(s)
    BY <1>5, ClearStep
  <1>6. CASE ResetAllLanes
    BY <1>6, ResetStep
  <1>7. CASE UNCHANGED vars
    BY <1>7 DEF vars, SL!lineVars, lineBar, Executing, servedBar, leftBar
  <1> QED BY <1>1, <1>2, <1>3, <1>4, <1>5, <1>6, <1>7 DEF Next

LEMMA LineStart == Init => SL!LineInit
  <1> SUFFICES ASSUME Init PROVE SL!LineInit
    OBVIOUS
  <1>1. /\ lanes = [l \in Lanes |-> CL!NewLaneState]
        /\ status = [t \in Tasks |-> "new"]
    BY DEF Init, CL!Init
  <1>2. Executing = {} /\ servedBar = {} /\ leftBar = {}
    BY <1>1, TwoTasks DEF Executing, servedBar, leftBar, CL!Settled
  <1>3. ASSUME NEW s \in Sessions PROVE LineOf(lanes[s]) = <<>>
    <2>1. lanes[s].activeTaskIds = {} /\ lanes[s].queue = <<>>
      BY <1>1, TwoLevels DEF CL!NewLaneState
    <2>2. RunsOf(<<>>) = <<>>
      BY DEF RunsOf
    <2>3. LineOf(lanes[s]) = <<>> \o <<>>
      BY <2>1, <2>2 DEF LineOf
    <2> QED BY <2>3
  <1>4. lineBar = [s \in Sessions |-> <<>>]
    BY <1>3 DEF lineBar
  <1> QED BY <1>2, <1>4 DEF SL!LineInit

(* For any number of runs, sessions and global lanes: until a reset the    *)
(* two levels of lanes are a line per session, of which only the first     *)
(* executes, once, and of which an interrupt turns away only those behind  *)
(* it (run.ts 190-207, command-queue.ts 66-191).                           *)
THEOREM SpecImplementsSessionLine == Spec => ImplementsSessionLine
  <1>1. Inv /\ [Next]_vars => [NeverReset' => SL!LineNext]_(SL!lineVars)
    BY LineStep
  <1> QED BY <1>1, LineStart, SpecInv, PTL DEF Spec, ImplementsSessionLine
=============================================================================
