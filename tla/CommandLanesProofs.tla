------------------------- MODULE CommandLanesProofs -------------------------
(* Theorems about CommandLanes, for every set of lanes and commands.       *)
EXTENDS CommandLanes, FiniteSetTheorems, SequenceTheorems, FunctionTheorems, TLAPS

-----------------------------------------------------------------------------
(* The strengthening of the invariants that is inductive.  The properties  *)
(* of CommandLanes are restated for the lane states ls, promise states st  *)
(* and start generations tg that an operation hands to the pump.           *)

Entries(s) == {s.queue[i] : i \in 1 .. Len(s.queue)}

NoRepetition(s) ==
    \A i, j \in 1 .. Len(s.queue) : s.queue[i] = s.queue[j] => i = j

QueueAgrees(l, s, st) ==
    /\ Entries(s) = {c \in Commands : LaneOf[c] = l /\ st[c] = "queued"}
    /\ NoRepetition(s)

ActiveAgrees(l, s, st, tg) ==
    s.activeTaskIds = {c \in Commands : /\ LaneOf[c] = l
                                        /\ st[c] = "running"
                                        /\ tg[c] = s.generation}

\* no task was started in a generation its lane has not reached yet
NotFromTheFuture(l, s, tg) ==
    \A c \in Commands : LaneOf[c] = l => tg[c] <= s.generation

LaneInv(l, s, st, tg) ==
    /\ QueueAgrees(l, s, st)
    /\ ActiveAgrees(l, s, st, tg)
    /\ IsFiniteSet(s.activeTaskIds)
    /\ NotFromTheFuture(l, s, tg)

\* the lane is work-conserving
Busy(s) == s.queue # <<>> => Cardinality(s.activeTaskIds) >= s.maxConcurrent

Inv ==
    /\ TypeOK
    /\ \A l \in Lanes : LaneInv(l, lanes[l], status, taskGeneration)
    /\ \A l \in Lanes : Busy(lanes[l])

\* what every step does besides keeping the invariant
GoodStep == StepStaysWithinCap /\ StepKeepsOrder

\* c is somewhere before d in the queue of s
Before(s, c, d) ==
    \E i, j \in 1 .. Len(s.queue) : i < j /\ s.queue[i] = c /\ s.queue[j] = d

\* an operation hands its queues to the pump without changing their order
OrderKept(ls, st) ==
    \A c, d \in Commands :
        /\ LaneOf[c] = LaneOf[d] /\ c # d /\ status[c] = "queued"
        /\ status[d] = "new" \/ Ahead(c, d)
      => st[d] = "new" \/ Before(ls[LaneOf[c]], c, d)

-----------------------------------------------------------------------------
(* The pump starts a prefix of the queue.                                  *)
LEMMA StartCountBounds ==
    ASSUME NEW s \in LaneState, IsFiniteSet(s.activeTaskIds)
    PROVE  /\ Cardinality(s.activeTaskIds) \in Nat
           /\ StartCount(s) \in 0 .. Len(s.queue)
           /\ s.maxConcurrent \in Nat
           /\ s.queue \in Seq(Commands)
           /\ Len(s.queue) \in Nat
  <1>1. /\ s.queue \in Seq(Commands) /\ Len(s.queue) \in Nat
        /\ s.maxConcurrent \in Nat
    BY BoundsAssumption DEF LaneState
  <1>2. Cardinality(s.activeTaskIds) \in Nat
    BY FS_CardinalityType
  <1> QED
    BY <1>1, <1>2 DEF StartCount

(* The entries of a queue without repetition split into those the pump     *)
(* starts and those it leaves, which still do not repeat.                  *)
LEMMA PumpedQueue ==
    ASSUME NEW s \in LaneState, IsFiniteSet(s.activeTaskIds), NoRepetition(s)
    PROVE  /\ Pumped(s) \in LaneState
           /\ Started(s) \subseteq Entries(s)
           /\ Entries(Pumped(s)) = Entries(s) \ Started(s)
           /\ NoRepetition(Pumped(s))
           /\ Len(Pumped(s).queue) = Len(s.queue) - StartCount(s)
           /\ Pumped(s).activeTaskIds = s.activeTaskIds \cup Started(s)
           /\ Pumped(s).maxConcurrent = s.maxConcurrent
           /\ Pumped(s).generation = s.generation
  <1> DEFINE n == StartCount(s)
             q == SubSeq(s.queue, n + 1, Len(s.queue))
  <1>1. /\ n \in 0 .. Len(s.queue)
        /\ s.queue \in Seq(Commands)
        /\ Len(s.queue) \in Nat
    BY StartCountBounds
  <1>2. \A i \in 1 .. Len(s.queue) : s.queue[i] \in Commands
    BY <1>1
  <1>3. /\ q \in Seq(Commands)
        /\ Len(q) = Len(s.queue) - n
        /\ \A i \in 1 .. Len(s.queue) - n : q[i] = s.queue[n + i]
    <2> HIDE DEF n
    <2>1. \A i \in n + 1 .. Len(s.queue) : s.queue[i] \in Commands
      BY <1>1, <1>2
    <2>2. n + 1 \in Int /\ Len(s.queue) \in Int
      BY <1>1
    <2>3. /\ q \in Seq(Commands)
          /\ Len(q) = IF n + 1 <= Len(s.queue) THEN Len(s.queue) - (n + 1) + 1 ELSE 0
          /\ \A i \in 1 .. Len(s.queue) - (n + 1) + 1 : q[i] = s.queue[(n + 1) + i - 1]
      BY <2>1, <2>2, SubSeqProperties
    <2> QED BY <2>3, <1>1
  <1>4. Started(s) \subseteq Commands
    BY <1>1, <1>2 DEF Started
  <1>5. /\ Pumped(s) = [ queue |-> q, activeTaskIds |-> s.activeTaskIds \cup Started(s),
                         maxConcurrent |-> s.maxConcurrent, generation |-> s.generation ]
        /\ Pumped(s) \in LaneState
    BY <1>3, <1>4 DEF Pumped, LaneState
  <1>6. Started(s) \subseteq Entries(s)
    BY <1>1 DEF Started, Entries
  <1>0. /\ Len(Pumped(s).queue) = Len(s.queue) - StartCount(s)
        /\ Pumped(s).activeTaskIds = s.activeTaskIds \cup Started(s)
        /\ Pumped(s).maxConcurrent = s.maxConcurrent
        /\ Pumped(s).generation = s.generation
    BY <1>3 DEF Pumped
  <1> HIDE DEF n, q
  <1>7. Entries(Pumped(s)) = Entries(s) \ Started(s)
    <2>1. Entries(Pumped(s)) = {q[i] : i \in 1 .. Len(s.queue) - n}
      BY <1>5, <1>3 DEF Entries
    <2>2. \A i \in 1 .. Len(s.queue) - n : q[i] \in Entries(s) \ Started(s)
      <3> TAKE i \in 1 .. Len(s.queue) - n
      <3>1. /\ q[i] = s.queue[n + i] /\ n + i \in 1 .. Len(s.queue) /\ n + i > n
        BY <1>1, <1>3
      <3>2. \A j \in 1 .. n : s.queue[j] # q[i]
        BY <3>1, <1>1 DEF NoRepetition
      <3> QED BY <3>1, <3>2 DEF Started, Entries, n
    <2>3. ASSUME NEW c \in Entries(s) \ Started(s)
          PROVE  \E i \in 1 .. Len(s.queue) - n : c = q[i]
      <3>1. PICK k \in 1 .. Len(s.queue) : c = s.queue[k]
        BY DEF Entries
      <3>2. k > n
        BY <3>1, <1>1 DEF Started, n
      <3>3. /\ k - n \in 1 .. Len(s.queue) - n /\ n + (k - n) = k
        BY <3>2, <1>1
      <3> QED BY <3>1, <3>3, <1>3
    <2> QED BY <2>1, <2>2, <2>3
  <1>8. NoRepetition(Pumped(s))
    <2> SUFFICES ASSUME NEW i \in 1 .. Len(q), NEW j \in 1 .. Len(q), q[i] = q[j]
                 PROVE  i = j
      BY <1>5 DEF NoRepetition
    <2>1. /\ n + i \in 1 .. Len(s.queue) /\ n + j \in 1 .. Len(s.queue)
          /\ s.queue[n + i] = s.queue[n + j]
      BY <1>1, <1>3
    <2>2. n + i = n + j
      BY <2>1 DEF NoRepetition
    <2> QED BY <2>2, <1>1, <1>3
  <1> QED
    BY <1>0, <1>5, <1>6, <1>7, <1>8

(* What stays in the queue stays behind what stays before it, and is not   *)
(* started before it.                                                      *)
LEMMA PumpedOrder ==
    ASSUME NEW s \in LaneState, IsFiniteSet(s.activeTaskIds), NoRepetition(s),
           NEW c, NEW d, Before(s, c, d), c \notin Started(s)
    PROVE  d \notin Started(s) /\ Before(Pumped(s), c, d)
  <1> DEFINE n == StartCount(s)
  <1>1. /\ n \in 0 .. Len(s.queue)
        /\ s.queue \in Seq(Commands)
        /\ Len(s.queue) \in Nat
    BY StartCountBounds
  <1>2. PICK i \in 1 .. Len(s.queue), j \in 1 .. Len(s.queue) :
            i < j /\ s.queue[i] = c /\ s.queue[j] = d
    BY DEF Before
  <1>3. n < i
    BY <1>1, <1>2 DEF Started
  <1>4. d \notin Started(s)
    BY <1>1, <1>2, <1>3 DEF Started, NoRepetition
  <1> HIDE DEF n
  <1>5. /\ Len(Pumped(s).queue) = Len(s.queue) - n
        /\ \A k \in 1 .. Len(s.queue) - n : Pumped(s).queue[k] = s.queue[n + k]
    <2>1. Pumped(s).queue = SubSeq(s.queue, n + 1, Len(s.queue))
      BY DEF Pumped, n
    <2>2. \A k \in n + 1 .. Len(s.queue) : s.queue[k] \in Commands
      BY <1>1
    <2>3. n + 1 \in Int /\ Len(s.queue) \in Int
      BY <1>1
    <2>4. /\ Len(Pumped(s).queue) =
                IF n + 1 <= Len(s.queue) THEN Len(s.queue) - (n + 1) + 1 ELSE 0
          /\ \A k \in 1 .. Len(s.queue) - (n + 1) + 1 :
                Pumped(s).queue[k] = s.queue[(n + 1) + k - 1]
      BY <2>1, <2>2, <2>3, SubSeqProperties
    <2>5. /\ Len(s.queue) - (n + 1) + 1 = Len(s.queue) - n
          /\ n + 1 <= Len(s.queue) \/ Len(s.queue) - n = 0
          /\ \A k \in 1 .. Len(s.queue) - n : (n + 1) + k - 1 = n + k
      BY <1>1
    <2> QED BY <2>4, <2>5
  <1>6. /\ i - n \in 1 .. Len(s.queue) - n /\ j - n \in 1 .. Len(s.queue) - n
        /\ i - n < j - n /\ n + (i - n) = i /\ n + (j - n) = j
    BY <1>1, <1>2, <1>3
  <1>7. Pumped(s).queue[i - n] = c /\ Pumped(s).queue[j - n] = d
    BY <1>2, <1>5, <1>6
  <1> QED BY <1>4, <1>5, <1>6, <1>7 DEF Before

(* The pump starts exactly StartCount tasks, so it stops with every slot   *)
(* taken or with the queue empty, and never beyond the cap.                *)
LEMMA PumpedCount ==
    ASSUME NEW s \in LaneState, IsFiniteSet(s.activeTaskIds), NoRepetition(s),
           s.activeTaskIds \cap Started(s) = {}
    PROVE  /\ IsFiniteSet(Pumped(s).activeTaskIds)
           /\ Busy(Pumped(s))
           /\ Started(s) # {} =>
                 Cardinality(Pumped(s).activeTaskIds) <= Pumped(s).maxConcurrent
  <1> DEFINE n == StartCount(s)
             f == [i \in 1 .. n |-> s.queue[i]]
  <1>1. /\ n \in 0 .. Len(s.queue)
        /\ s.queue \in Seq(Commands)
        /\ Len(s.queue) \in Nat
        /\ Cardinality(s.activeTaskIds) \in Nat
        /\ s.maxConcurrent \in Nat
    BY StartCountBounds
  <1>2. f \in Bijection(1 .. n, Started(s))
    <2>1. f \in [1 .. n -> Started(s)]
      BY DEF Started
    <2>2. \A i, j \in 1 .. n : f[i] = f[j] => i = j
      BY <1>1 DEF NoRepetition
    <2>3. \A c \in Started(s) : \E i \in 1 .. n : f[i] = c
      BY DEF Started
    <2> QED BY <2>1, <2>2, <2>3 DEF Bijection, Injection, Surjection, IsInjective
  <1>3. /\ IsFiniteSet(1 .. n) /\ Cardinality(1 .. n) = n
    <2>1. n \in Int /\ 1 \in Int /\ n >= 0
      BY <1>1
    <2> HIDE DEF n
    <2>2. /\ IsFiniteSet(1 .. n)
          /\ Cardinality(1 .. n) = IF 1 > n THEN 0 ELSE n - 1 + 1
      BY <2>1, FS_Interval
    <2> QED BY <2>1, <2>2
  <1>4. /\ IsFiniteSet(Started(s)) /\ Cardinality(Started(s)) = n
    BY <1>2, <1>3, FS_Bijection DEF ExistsBijection
  <1>5. /\ Pumped(s).activeTaskIds = s.activeTaskIds \cup Started(s)
        /\ Len(Pumped(s).queue) = Len(s.queue) - n
        /\ Pumped(s).queue \in Seq(Commands)
        /\ Pumped(s).maxConcurrent = s.maxConcurrent
    BY PumpedQueue DEF LaneState
  <1> HIDE DEF f
  <1>6. /\ IsFiniteSet(Pumped(s).activeTaskIds)
        /\ Cardinality(Pumped(s).activeTaskIds) = Cardinality(s.activeTaskIds) + n
    <2>1. /\ IsFiniteSet(s.activeTaskIds \cup Started(s))
          /\ Cardinality(s.activeTaskIds \cup Started(s)) =
                Cardinality(s.activeTaskIds) + Cardinality(Started(s))
                  - Cardinality(s.activeTaskIds \cap Started(s))
      BY <1>4, FS_Union
    <2>2. Cardinality(s.activeTaskIds \cap Started(s)) = 0
      BY FS_EmptySet
    <2> HIDE DEF n
    <2> QED BY <2>1, <2>2, <1>1, <1>4, <1>5
  <1>7. Busy(Pumped(s))
    <2> SUFFICES ASSUME Pumped(s).queue # <<>>
                 PROVE  Cardinality(Pumped(s).activeTaskIds) >= Pumped(s).maxConcurrent
      BY DEF Busy
    <2>1. Len(Pumped(s).queue) > 0
      BY <1>5, EmptySeq
    <2> QED BY <2>1, <1>1, <1>5, <1>6 DEF StartCount
  <1>8. ASSUME Started(s) # {}
        PROVE  Cardinality(Pumped(s).activeTaskIds) <= Pumped(s).maxConcurrent
    <2>1. n > 0
      BY <1>8, <1>1 DEF Started
    <2> QED BY <2>1, <1>1, <1>5, <1>6 DEF StartCount
  <1> QED BY <1>6, <1>7, <1>8

-----------------------------------------------------------------------------
(* An operation that hands a lane in good order to the pump gets back a    *)
(* lane in good order, which is moreover work-conserving.                  *)
LEMMA PumpedLane ==
    ASSUME NEW l \in Lanes, NEW s \in LaneState,
           NEW st \in [Commands -> Status], NEW tg \in [Commands -> Nat],
           LaneInv(l, s, st, tg),
           NEW st2 \in [Commands -> Status], NEW tg2 \in [Commands -> Nat],
           \A c \in Commands : LaneOf[c] = l =>
               /\ st2[c] = IF c \in Started(s) THEN "running" ELSE st[c]
               /\ tg2[c] = IF c \in Started(s) THEN s.generation ELSE tg[c]
    PROVE  /\ Pumped(s) \in LaneState
           /\ LaneInv(l, Pumped(s), st2, tg2)
           /\ Busy(Pumped(s))
           /\ Started(s) # {} =>
                 Cardinality(Pumped(s).activeTaskIds) <= Pumped(s).maxConcurrent
  <1>1. /\ IsFiniteSet(s.activeTaskIds) /\ NoRepetition(s)
        /\ Entries(s) = {c \in Commands : LaneOf[c] = l /\ st[c] = "queued"}
        /\ s.activeTaskIds = {c \in Commands : /\ LaneOf[c] = l
                                               /\ st[c] = "running"
                                               /\ tg[c] = s.generation}
        /\ \A c \in Commands : LaneOf[c] = l => tg[c] <= s.generation
    BY DEF LaneInv, QueueAgrees, ActiveAgrees, NotFromTheFuture
  <1>2. /\ Pumped(s) \in LaneState
        /\ Started(s) \subseteq Entries(s)
        /\ Entries(Pumped(s)) = Entries(s) \ Started(s)
        /\ NoRepetition(Pumped(s))
        /\ Pumped(s).activeTaskIds = s.activeTaskIds \cup Started(s)
        /\ Pumped(s).generation = s.generation
    BY <1>1, PumpedQueue
  <1>3. s.activeTaskIds \cap Started(s) = {}
    BY <1>1, <1>2
  <1>4. /\ IsFiniteSet(Pumped(s).activeTaskIds)
        /\ Busy(Pumped(s))
        /\ Started(s) # {} =>
              Cardinality(Pumped(s).activeTaskIds) <= Pumped(s).maxConcurrent
    BY <1>1, <1>3, PumpedCount
  <1>5. QueueAgrees(l, Pumped(s), st2)
    BY <1>1, <1>2 DEF QueueAgrees
  <1>6. ActiveAgrees(l, Pumped(s), st2, tg2)
    <2>1. \A c \in Started(s) : c \in Commands /\ LaneOf[c] = l
      BY <1>1, <1>2
    <2> QED BY <1>1, <1>2, <2>1 DEF ActiveAgrees
  <1>7. NotFromTheFuture(l, Pumped(s), tg2)
    <2>1. s.generation \in Int
      BY DEF LaneState
    <2> QED BY <1>1, <1>2, <2>1 DEF NotFromTheFuture
  <1> QED
    BY <1>1, <1>2, <1>4, <1>5, <1>6, <1>7 DEF LaneInv

-----------------------------------------------------------------------------
(* What an operation may do to a lane in good order before the pump.       *)

(* Nothing, if it leaves the lane's own commands alone.                    *)
LEMMA SameLane ==
    ASSUME NEW l, NEW s, NEW st, NEW tg, NEW st2, NEW tg2, LaneInv(l, s, st, tg),
           \A c \in Commands : LaneOf[c] = l => st2[c] = st[c] /\ tg2[c] = tg[c]
    PROVE  LaneInv(l, s, st2, tg2)
  BY DEF LaneInv, QueueAgrees, ActiveAgrees, NotFromTheFuture

(* Append new commands, none twice.                                        *)
NewIn(l, q, st) ==
    /\ \A i, j \in 1 .. Len(q) : q[i] = q[j] => i = j
    /\ \A i \in 1 .. Len(q) : LaneOf[q[i]] = l /\ st[q[i]] = "new"

Queues(l, q, st, st2) ==
    \A c \in Commands : LaneOf[c] = l =>
        st2[c] = IF \E i \in 1 .. Len(q) : q[i] = c THEN "queued" ELSE st[c]

LEMMA ExtendedLane ==
    ASSUME NEW l, NEW s \in LaneState, NEW st, NEW tg, LaneInv(l, s, st, tg),
           NEW q \in Seq(Commands), NewIn(l, q, st),
           NEW t \in LaneState, t.queue = s.queue \o q,
           t.activeTaskIds = s.activeTaskIds, t.generation = s.generation,
           NEW st2, Queues(l, q, st, st2)
    PROVE  LaneInv(l, t, st2, tg)
  <1> DEFINE m == Len(s.queue)
             n == Len(q)
  <1>1. /\ s.queue \in Seq(Commands) /\ m \in Nat /\ n \in Nat
        /\ Len(t.queue) = m + n
        /\ \A i \in 1 .. m + n : t.queue[i] = IF i <= m THEN s.queue[i] ELSE q[i - m]
    BY ConcatProperties DEF LaneState
  <1>2. /\ Entries(s) = {c \in Commands : LaneOf[c] = l /\ st[c] = "queued"}
        /\ NoRepetition(s)
    BY DEF LaneInv, QueueAgrees
  <1>3. \A i \in 1 .. m : s.queue[i] \in Commands /\ LaneOf[s.queue[i]] = l /\ st[s.queue[i]] = "queued"
    BY <1>2 DEF Entries
  <1>4. /\ \A i \in 1 .. n : q[i] \in Commands /\ LaneOf[q[i]] = l /\ st[q[i]] = "new"
        /\ \A i, j \in 1 .. n : q[i] = q[j] => i = j
    BY <1>1 DEF NewIn
  <1> HIDE DEF m, n
  <1>5. \A i \in 1 .. m + n : \/ i \in 1 .. m /\ t.queue[i] = s.queue[i]
                              \/ i - m \in 1 .. n /\ t.queue[i] = q[i - m]
    BY <1>1
  <1>6. NoRepetition(t)
    <2> SUFFICES ASSUME NEW i \in 1 .. m + n, NEW j \in 1 .. m + n, t.queue[i] = t.queue[j]
                 PROVE  i = j
      BY <1>1 DEF NoRepetition
    <2>1. CASE i \in 1 .. m /\ j \in 1 .. m
      BY <2>1, <1>1, <1>2 DEF NoRepetition, m
    <2>2. CASE i - m \in 1 .. n /\ j - m \in 1 .. n
      <3>1. t.queue[i] = q[i - m] /\ t.queue[j] = q[j - m]
        BY <2>2, <1>1
      <3>2. i - m = j - m
        BY <2>2, <3>1, <1>4
      <3> QED BY <3>2, <1>1
    <2>3. CASE i \in 1 .. m /\ j - m \in 1 .. n
      <3>1. i <= m /\ ~(j <= m)
        BY <2>3, <1>1
      <3>2. t.queue[i] = s.queue[i] /\ t.queue[j] = q[j - m]
        BY <3>1, <1>1
      <3>3. st[s.queue[i]] = "queued" /\ st[q[j - m]] = "new"
        BY <2>3, <1>3, <1>4
      <3> QED BY <3>2, <3>3
    <2>4. CASE i - m \in 1 .. n /\ j \in 1 .. m
      <3>1. j <= m /\ ~(i <= m)
        BY <2>4, <1>1
      <3>2. t.queue[i] = q[i - m] /\ t.queue[j] = s.queue[j]
        BY <3>1, <1>1
      <3>3. st[s.queue[j]] = "queued" /\ st[q[i - m]] = "new"
        BY <2>4, <1>3, <1>4
      <3> QED BY <3>2, <3>3
    <2> QED BY <2>1, <2>2, <2>3, <2>4, <1>5
  <1>7. Entries(t) = Entries(s) \cup {q[i] : i \in 1 .. n}
    <2>1. Entries(t) = {t.queue[i] : i \in 1 .. m + n}
      BY <1>1 DEF Entries
    <2>2. Entries(s) = {s.queue[i] : i \in 1 .. m}
      BY DEF Entries, m
    <2>3. \A i \in 1 .. m : i \in 1 .. m + n /\ t.queue[i] = s.queue[i]
      BY <1>1
    <2>4. \A i \in 1 .. n : m + i \in 1 .. m + n /\ t.queue[m + i] = q[i]
      <3> TAKE i \in 1 .. n
      <3>1. m + i \in 1 .. m + n /\ ~(m + i <= m) /\ (m + i) - m = i
        BY <1>1
      <3> QED BY <3>1, <1>1
    <2>5. ASSUME NEW c \in Entries(t) PROVE c \in Entries(s) \cup {q[i] : i \in 1 .. n}
      <3>1. PICK i \in 1 .. m + n : c = t.queue[i]
        BY <2>1
      <3> QED BY <3>1, <2>2, <1>5
    <2>6. ASSUME NEW c \in Entries(s) PROVE c \in Entries(t)
      <3>1. PICK i \in 1 .. m : c = s.queue[i]
        BY <2>2
      <3> QED BY <3>1, <2>1, <2>3
    <2>7. ASSUME NEW i \in 1 .. n PROVE q[i] \in Entries(t)
      <3>1. m + i \in 1 .. m + n /\ q[i] = t.queue[m + i]
        BY <2>4
      <3> QED BY <3>1, <2>1
    <2> QED BY <2>5, <2>6, <2>7
  <1>8. QueueAgrees(l, t, st2)
    <2>1. \A c \in Commands : LaneOf[c] = l =>
              (st2[c] = "queued" <=> st[c] = "queued" \/ \E i \in 1 .. n : q[i] = c)
      BY DEF n, Queues
    <2>2. \A c \in Commands : (\E i \in 1 .. n : q[i] = c) => LaneOf[c] = l
      BY DEF n, NewIn
    <2> QED BY <1>2, <1>4, <1>6, <1>7, <2>1, <2>2 DEF QueueAgrees
  <1>9. ActiveAgrees(l, t, st2, tg)
    <2>1. \A c \in Commands : LaneOf[c] = l => (st2[c] = "running" <=> st[c] = "running")
      BY DEF NewIn, Queues
    <2> QED BY <2>1 DEF LaneInv, ActiveAgrees
  <1> QED BY <1>8, <1>9 DEF LaneInv, NotFromTheFuture

(* Free the slot of a task of the present generation that has settled.     *)
LEMMA FreedLane ==
    ASSUME NEW l, NEW s, NEW st, NEW tg, LaneInv(l, s, st, tg),
           NEW c, st[c] = "running", NEW t, t.queue = s.queue,
           t.activeTaskIds = s.activeTaskIds \ {c}, t.generation = s.generation,
           NEW st2, st2[c] \in Settled, \A d \in Commands \ {c} : st2[d] = st[d]
    PROVE  LaneInv(l, t, st2, tg)
  <1>0. st2[c] # "queued" /\ st2[c] # "running"
    BY DEF Settled
  <1>1. QueueAgrees(l, t, st2)
    <2>1. Entries(t) = Entries(s) /\ NoRepetition(t)
      BY DEF LaneInv, QueueAgrees, Entries, NoRepetition
    <2> QED BY <1>0, <2>1 DEF LaneInv, QueueAgrees
  <1>2. ActiveAgrees(l, t, st2, tg)
    BY <1>0 DEF LaneInv, ActiveAgrees
  <1>3. IsFiniteSet(t.activeTaskIds)
    BY FS_RemoveElement DEF LaneInv
  <1> QED BY <1>1, <1>2, <1>3 DEF LaneInv, NotFromTheFuture

(* Settle a task of an earlier generation, which is in no active set.      *)
LEMMA LateLane ==
    ASSUME NEW l, NEW s, NEW st, NEW tg, LaneInv(l, s, st, tg),
           NEW c, st[c] = "running", LaneOf[c] # l \/ tg[c] # s.generation,
           NEW st2, st2[c] \in Settled, \A d \in Commands \ {c} : st2[d] = st[d]
    PROVE  LaneInv(l, s, st2, tg)
  <1>0. st2[c] # "queued" /\ st2[c] # "running"
    BY DEF Settled
  <1> QED BY <1>0 DEF LaneInv, QueueAgrees, ActiveAgrees, NotFromTheFuture

(* Begin a new generation, in which nothing runs yet.                      *)
LEMMA IdledLane ==
    ASSUME NEW l, NEW s \in LaneState, NEW st, NEW tg \in [Commands -> Nat],
           LaneInv(l, s, st, tg)
    PROVE  LaneInv(l, IdleLane(s), st, tg)
  <1>1. /\ IdleLane(s).queue = s.queue /\ IdleLane(s).activeTaskIds = {}
        /\ IdleLane(s).generation = s.generation + 1 /\ s.generation \in Nat
    BY BoundsAssumption DEF IdleLane, LaneState
  <1>2. \A c \in Commands : LaneOf[c] = l => tg[c] < IdleLane(s).generation
    BY <1>1 DEF LaneInv, NotFromTheFuture
  <1>3. NotFromTheFuture(l, IdleLane(s), tg)
    BY <1>1, <1>2 DEF NotFromTheFuture
  <1>4. ActiveAgrees(l, IdleLane(s), st, tg)
    BY <1>1, <1>2 DEF ActiveAgrees
  <1>5. QueueAgrees(l, IdleLane(s), st)
    BY <1>1 DEF LaneInv, QueueAgrees, Entries, NoRepetition
  <1> QED BY <1>1, <1>3, <1>4, <1>5, FS_EmptySet DEF LaneInv

(* Empty the queue.                                                        *)
LEMMA ClearedLane ==
    ASSUME NEW l, NEW s, NEW st, NEW tg, LaneInv(l, s, st, tg),
           NEW t, t.queue = <<>>, t.activeTaskIds = s.activeTaskIds,
           t.generation = s.generation, NEW st2,
           \A c \in Commands : st2[c] = IF c \in Entries(s) THEN "cleared" ELSE st[c]
    PROVE  LaneInv(l, t, st2, tg) /\ Busy(t)
  <1>1. Len(t.queue) = 0
    BY EmptySeq
  <1>2. QueueAgrees(l, t, st2)
    BY <1>1 DEF LaneInv, QueueAgrees, Entries, NoRepetition
  <1> QED BY <1>2 DEF LaneInv, QueueAgrees, ActiveAgrees, NotFromTheFuture, Busy

-----------------------------------------------------------------------------
(* The pump at a lane that needs none, and at one with a single slot.      *)
LEMMA BusyPump ==
    ASSUME NEW s \in LaneState, IsFiniteSet(s.activeTaskIds), Busy(s)
    PROVE  Started(s) = {} /\ Pumped(s) = s
  <1>1. /\ s.queue \in Seq(Commands) /\ Len(s.queue) \in Nat
        /\ Cardinality(s.activeTaskIds) \in Nat /\ s.maxConcurrent \in Nat
    BY StartCountBounds
  <1>2. StartCount(s) = 0
    <2>1. CASE s.queue = <<>>
      BY <2>1, <1>1, EmptySeq DEF StartCount
    <2>2. CASE s.queue # <<>>
      BY <2>2, <1>1 DEF StartCount, Busy
    <2> QED BY <2>1, <2>2
  <1>3. Started(s) = {}
    BY <1>2 DEF Started
  <1>4. SubSeq(s.queue, 1, Len(s.queue)) = s.queue
    BY <1>1, SubSeqFull
  <1>5. Pumped(s) = [ queue |-> s.queue, activeTaskIds |-> s.activeTaskIds,
                      maxConcurrent |-> s.maxConcurrent, generation |-> s.generation ]
    BY <1>2, <1>3, <1>4 DEF Pumped
  <1> QED BY <1>3, <1>5 DEF LaneState

(* With one slot the lane is busy if a task is active.                     *)
LEMMA TakenSlot ==
    ASSUME NEW s \in LaneState, IsFiniteSet(s.activeTaskIds), s.maxConcurrent = 1,
           s.activeTaskIds # {}
    PROVE  Busy(s)
  BY FS_CardinalityType, FS_EmptySet DEF Busy

LEMMA FreeSlot ==
    ASSUME NEW s \in LaneState, s.maxConcurrent = 1, s.activeTaskIds = {}
    PROVE  /\ Busy(s) => s.queue = <<>>
           /\ s.queue # <<>> => /\ Started(s) = {Head(s.queue)}
                                /\ Pumped(s).queue = Tail(s.queue)
                                /\ Pumped(s).activeTaskIds = {Head(s.queue)}
  <1>1. Cardinality(s.activeTaskIds) = 0
    BY FS_EmptySet
  <1>2. s.queue \in Seq(Commands) /\ Len(s.queue) \in Nat
    BY DEF LaneState
  <1>3. ASSUME s.queue # <<>>
        PROVE  /\ Started(s) = {Head(s.queue)}
               /\ Pumped(s).queue = Tail(s.queue)
               /\ Pumped(s).activeTaskIds = {Head(s.queue)}
    <2>1. Len(s.queue) > 0
      BY <1>2, <1>3, EmptySeq
    <2>0. s.maxConcurrent - Cardinality(s.activeTaskIds) = 1
      BY <1>1
    <2>2. StartCount(s) = 1
      <3> DEFINE k == Len(s.queue)
      <3>1. k \in Nat /\ k > 0
        BY <1>2, <2>1
      <3> HIDE DEF k
      <3>2. (IF 1 < 0 THEN 0 ELSE IF 1 < k THEN 1 ELSE k) = 1
        BY <3>1
      <3> QED BY <2>0, <3>2 DEF StartCount, k
    <2>3. Started(s) = {s.queue[1]}
      BY <2>2 DEF Started
    <2>4. Head(s.queue) = s.queue[1]
      BY <1>2, <2>1
    <2>5. Tail(s.queue) = SubSeq(s.queue, 2, Len(s.queue))
      BY <1>2, <1>3, TailIsSubSeq
    <2> QED BY <2>2, <2>3, <2>4, <2>5 DEF Pumped
  <1> QED BY <1>1, <1>3 DEF Busy

-----------------------------------------------------------------------------
(* The same for DrainLanes: it suffices that every lane is in good order   *)
(* before the pump, and that the lanes left alone are work-conserving.     *)
LEMMA DrainLanesInv ==
    ASSUME taskGeneration \in [Commands -> 0 .. MaxResets],
           NEW L \in SUBSET Lanes, NEW ls \in [Lanes -> LaneState],
           NEW st \in [Commands -> Status],
           \A l \in Lanes : LaneInv(l, ls[l], st, taskGeneration),
           \A l \in Lanes \ L : Busy(ls[l]),
           \A c \in Commands : st[c] = "running" => status[c] = "running",
           OrderKept(ls, st),
           DrainLanes(L, ls, st)
    PROVE  Inv' /\ GoodStep
  <1>1. /\ status' \in [Commands -> Status]
        /\ taskGeneration' \in [Commands -> 0 .. MaxResets]
    <2>1. \A c \in Commands : LaneOf[c] \in Lanes /\ ls[LaneOf[c]].generation \in 0 .. MaxResets
      BY LaneOfAssumption DEF LaneState
    <2> QED BY <2>1 DEF DrainLanes, Status
  <1>2. /\ 0 .. MaxResets \subseteq Nat
        /\ taskGeneration \in [Commands -> Nat]
        /\ taskGeneration' \in [Commands -> Nat]
    BY <1>1, BoundsAssumption
  <1>3. ASSUME NEW l \in L
        PROVE  /\ lanes'[l] \in LaneState
               /\ LaneInv(l, lanes'[l], status', taskGeneration')
               /\ Busy(lanes'[l])
               /\ Started(ls[l]) # {} =>
                     Cardinality(lanes'[l].activeTaskIds) <= lanes'[l].maxConcurrent
    <2>1. lanes'[l] = Pumped(ls[l])
      BY DEF DrainLanes
    <2>2. \A c \in Commands : LaneOf[c] = l =>
            /\ status'[c] = IF c \in Started(ls[l]) THEN "running" ELSE st[c]
            /\ taskGeneration'[c] = IF c \in Started(ls[l]) THEN ls[l].generation
                                                            ELSE taskGeneration[c]
      BY DEF DrainLanes
    <2>3. l \in Lanes /\ ls[l] \in LaneState
      OBVIOUS
    <2> QED BY <1>1, <1>2, <2>1, <2>2, <2>3, PumpedLane
  <1>4. ASSUME NEW l \in Lanes \ L
        PROVE  /\ lanes'[l] \in LaneState
               /\ LaneInv(l, lanes'[l], status', taskGeneration')
               /\ Busy(lanes'[l])
    <2>1. lanes'[l] = ls[l] /\ ls[l] \in LaneState
      BY DEF DrainLanes
    <2>2. \A c \in Commands : LaneOf[c] = l =>
            status'[c] = st[c] /\ taskGeneration'[c] = taskGeneration[c]
      BY DEF DrainLanes
    <2> QED
      BY <2>1, <2>2 DEF LaneInv, QueueAgrees, ActiveAgrees, NotFromTheFuture
  <1>5. lanes' \in [Lanes -> LaneState]
    <2>1. lanes' = [l \in Lanes |-> lanes'[l]]
      BY DEF DrainLanes
    <2> QED BY <1>3, <1>4, <2>1
  <1>6. StepStaysWithinCap
    <2> SUFFICES ASSUME NEW c \in Commands, status[c] # "running", status'[c] = "running"
                 PROVE  Cardinality(lanes'[LaneOf[c]].activeTaskIds)
                            <= lanes'[LaneOf[c]].maxConcurrent
      BY DEF StepStaysWithinCap
    <2>1. LaneOf[c] \in L /\ c \in Started(ls[LaneOf[c]])
      BY DEF DrainLanes
    <2> QED BY <1>3, <2>1
  <1>7. StepKeepsOrder
    <2> SUFFICES ASSUME NEW c \in Commands, NEW d \in Commands,
                        LaneOf[c] = LaneOf[d], c # d,
                        status[c] = "queued", status'[c] = "queued",
                        status[d] = "new" \/ Ahead(c, d)
                 PROVE  /\ status'[d] # "running"
                        /\ status'[d] = "queued" => Ahead(c, d)'
      BY DEF StepKeepsOrder
    <2> DEFINE l == LaneOf[c]
    <2>1. /\ l \in Lanes /\ ls[l] \in LaneState
          /\ IsFiniteSet(ls[l].activeTaskIds) /\ NoRepetition(ls[l])
          /\ Entries(ls[l]) = {e \in Commands : LaneOf[e] = l /\ st[e] = "queued"}
      BY LaneOfAssumption DEF LaneInv, QueueAgrees
    <2>2. CASE Before(ls[l], c, d)
      <3>1. st[d] = "queued"
        BY <2>1, <2>2 DEF Before, Entries
      <3>2. CASE l \in L
        <4>1. c \notin Started(ls[l]) /\ lanes'[l] = Pumped(ls[l])
          BY <3>2 DEF DrainLanes
        <4>2. d \notin Started(ls[l]) /\ Before(lanes'[l], c, d)
          BY <2>1, <2>2, <4>1, PumpedOrder
        <4>3. status'[d] = "queued"
          BY <3>1, <4>2 DEF DrainLanes
        <4> QED BY <4>2, <4>3 DEF Before, Ahead
      <3>3. CASE l \notin L
        <4>1. lanes'[l] = ls[l] /\ status'[d] = st[d]
          BY <2>1, <3>3 DEF DrainLanes
        <4> QED BY <2>2, <3>1, <4>1 DEF Before, Ahead
      <3> QED BY <3>2, <3>3
    <2>3. CASE ~Before(ls[l], c, d)
      <3>1. st[d] = "new"
        BY <2>3 DEF OrderKept
      <3>2. d \notin Started(ls[l])
        <4>1. Started(ls[l]) \subseteq Entries(ls[l])
          BY <2>1, PumpedQueue
        <4> QED BY <2>1, <3>1, <4>1
      <3>3. status'[d] = "new"
        BY <3>1, <3>2 DEF DrainLanes
      <3> QED BY <3>3
    <2> QED BY <2>2, <2>3
  <1> QED BY <1>1, <1>3, <1>4, <1>5, <1>6, <1>7 DEF Inv, TypeOK, GoodStep

-----------------------------------------------------------------------------
(* An operation that leaves every queue alone keeps the order.             *)
LEMMA SameQueuesOrder ==
    ASSUME NEW ls, NEW st,
           \A l \in Lanes : ls[l].queue = lanes[l].queue,
           \A d \in Commands : status[d] = "new" => st[d] = "new"
    PROVE  OrderKept(ls, st)
  <1> SUFFICES ASSUME NEW c \in Commands, NEW d \in Commands, Ahead(c, d)
               PROVE  Before(ls[LaneOf[c]], c, d)
    BY DEF OrderKept
  <1>1. ls[LaneOf[c]].queue = lanes[LaneOf[c]].queue
    BY LaneOfAssumption
  <1> QED BY <1>1 DEF Ahead, Before

(* What waits behind another command is in the queue, so it is waiting.    *)
LEMMA AheadQueued ==
    ASSUME Inv, NEW c \in Commands, NEW d \in Commands, Ahead(c, d)
    PROVE  /\ status[c] = "queued" /\ status[d] = "queued"
           /\ c \in Entries(lanes[LaneOf[c]]) /\ d \in Entries(lanes[LaneOf[c]])
  <1>1. c \in Entries(lanes[LaneOf[c]]) /\ d \in Entries(lanes[LaneOf[c]])
    BY DEF Ahead, Entries
  <1>2. QueueAgrees(LaneOf[c], lanes[LaneOf[c]], status)
    BY LaneOfAssumption DEF Inv, LaneInv
  <1> QED BY <1>1, <1>2 DEF QueueAgrees

(* A step that starts and enqueues nothing keeps the order if it leaves    *)
(* the queues of the commands still waiting alone.                         *)
LEMMA NothingStarted ==
    ASSUME Inv,
           \A d \in Commands : status'[d] \in {"running", "queued"} => status'[d] = status[d],
           \A c \in Commands : status'[c] = "queued" =>
               lanes'[LaneOf[c]] = lanes[LaneOf[c]]
    PROVE  StepKeepsOrder
  <1> SUFFICES ASSUME NEW c \in Commands, NEW d \in Commands,
                      status'[c] = "queued",
                      status[d] = "new" \/ Ahead(c, d)
               PROVE  /\ status'[d] # "running"
                      /\ status'[d] = "queued" => Ahead(c, d)'
    BY DEF StepKeepsOrder
  <1>1. CASE status[d] = "new"
    BY <1>1
  <1>2. CASE Ahead(c, d)
    <2>1. status[d] = "queued"
      BY <1>2, AheadQueued
    <2>2. Ahead(c, d)'
      BY <1>2 DEF Ahead
    <2> QED BY <2>1, <2>2
  <1> QED BY <1>1, <1>2

-----------------------------------------------------------------------------
LEMMA InitInv == Init => Inv
  <1> SUFFICES ASSUME Init PROVE Inv
    OBVIOUS
  <1>1. NewLaneState \in LaneState
    BY BoundsAssumption, EmptySeq DEF NewLaneState, LaneState
  <1>2. TypeOK
    BY <1>1, BoundsAssumption DEF Init, TypeOK, Status
  <1>3. ASSUME NEW l \in Lanes
        PROVE  LaneInv(l, lanes[l], status, taskGeneration) /\ Busy(lanes[l])
    <2>1. /\ lanes[l].queue = <<>> /\ Len(lanes[l].queue) = 0
          /\ lanes[l].activeTaskIds = {} /\ lanes[l].generation = 0
      BY EmptySeq DEF Init, NewLaneState
    <2>2. \A c \in Commands : status[c] = "new" /\ taskGeneration[c] = 0
      BY DEF Init
    <2>3. QueueAgrees(l, lanes[l], status)
      BY <2>1, <2>2 DEF QueueAgrees, Entries, NoRepetition
    <2>4. ActiveAgrees(l, lanes[l], status, taskGeneration)
      BY <2>1, <2>2 DEF ActiveAgrees
    <2>5. IsFiniteSet(lanes[l].activeTaskIds)
      BY <2>1, FS_EmptySet
    <2> QED
      BY <2>1, <2>2, <2>3, <2>4, <2>5 DEF LaneInv, NotFromTheFuture, Busy
  <1> QED BY <1>2, <1>3 DEF Inv

LEMMA EnqueueInv ==
    ASSUME Inv, NEW c \in Commands, Enqueue(c)
    PROVE  Inv' /\ GoodStep
  <1> DEFINE l == LaneOf[c]
             s == lanes[l]
             ls == [lanes EXCEPT ![l].queue = Append(@, c)]
             st == [status EXCEPT ![c] = "queued"]
  <1>1. /\ l \in Lanes /\ s \in LaneState /\ s.queue \in Seq(Commands)
        /\ taskGeneration \in [Commands -> 0 .. MaxResets]
        /\ status \in [Commands -> Status]
    BY LaneOfAssumption DEF Inv, TypeOK, LaneState
  <1>2. /\ Append(s.queue, c) \in Seq(Commands)
        /\ Len(Append(s.queue, c)) = Len(s.queue) + 1
        /\ \A i \in 1 .. Len(s.queue) : Append(s.queue, c)[i] = s.queue[i]
        /\ Append(s.queue, c)[Len(s.queue) + 1] = c
        /\ Len(s.queue) \in Nat
    BY <1>1, AppendProperties
  <1>3. /\ ls[l] \in LaneState
        /\ ls[l].queue = Append(s.queue, c)
        /\ ls[l].activeTaskIds = s.activeTaskIds
        /\ ls[l].generation = s.generation
        /\ \A m \in Lanes \ {l} : ls[m] = lanes[m]
        /\ ls \in [Lanes -> LaneState]
    BY <1>1, <1>2 DEF Inv, TypeOK, LaneState
  <1>4. /\ st \in [Commands -> Status]
        /\ st[c] = "queued" /\ status[c] = "new"
        /\ \A d \in Commands \ {c} : st[d] = status[d]
    BY <1>1 DEF Enqueue, Status
  <1> HIDE DEF ls, st
  <1>6. LaneInv(l, s, status, taskGeneration)
    BY <1>1 DEF Inv
  <1>8. LaneInv(l, ls[l], st, taskGeneration)
    <2> DEFINE q == <<c>>
    <2>1. /\ q \in Seq(Commands) /\ Len(q) = 1 /\ q[1] = c
          /\ \A i \in 1 .. Len(q) : i = 1
      OBVIOUS
    <2>2. ls[l].queue = s.queue \o q
      BY <1>1, <1>3, AppendIsConcat
    <2> HIDE DEF q
    <2>3. Queues(l, q, status, st)
      BY <1>4, <2>1 DEF Queues
    <2>4. NewIn(l, q, status)
      BY <1>4, <2>1 DEF NewIn
    <2>5. /\ ls[l] \in LaneState /\ ls[l].activeTaskIds = s.activeTaskIds
          /\ ls[l].generation = s.generation /\ s \in LaneState /\ q \in Seq(Commands)
      BY <1>1, <1>3, <2>1
    <2> HIDE DEF l, s
    <2> QED BY <1>6, <2>2, <2>3, <2>4, <2>5, ExtendedLane
  <1>9. ASSUME NEW m \in Lanes \ {l}
        PROVE  LaneInv(m, ls[m], st, taskGeneration) /\ Busy(ls[m])
    BY <1>3, <1>4 DEF Inv, LaneInv, QueueAgrees, ActiveAgrees, NotFromTheFuture
  <1>10. DrainLanes({l}, ls, st)
    BY DEF Enqueue, ls, st
  <1>11. {l} \in SUBSET Lanes
    BY <1>1
  <1>12. OrderKept(ls, st)
    <2> SUFFICES ASSUME NEW a \in Commands, NEW d \in Commands,
                        LaneOf[a] = LaneOf[d], status[a] = "queued",
                        status[d] = "new" \/ Ahead(a, d), st[d] # "new"
                 PROVE  Before(ls[LaneOf[a]], a, d)
      BY DEF OrderKept
    <2>1. CASE status[d] = "new"
      <3>1. d = c /\ LaneOf[a] = l
        BY <2>1, <1>4
      <3>2. a \in Entries(s)
        BY <1>6, <3>1 DEF LaneInv, QueueAgrees
      <3>3. PICK i \in 1 .. Len(s.queue) : s.queue[i] = a
        BY <3>2 DEF Entries
      <3>4. /\ i \in 1 .. Len(ls[l].queue) /\ Len(s.queue) + 1 \in 1 .. Len(ls[l].queue)
            /\ i < Len(s.queue) + 1
            /\ ls[l].queue[i] = a /\ ls[l].queue[Len(s.queue) + 1] = d
        BY <1>2, <1>3, <3>1, <3>3
      <3> QED BY <3>1, <3>4 DEF Before
    <2>2. CASE Ahead(a, d) /\ LaneOf[a] = l
      <3>1. PICK i \in 1 .. Len(s.queue), j \in 1 .. Len(s.queue) :
                i < j /\ s.queue[i] = a /\ s.queue[j] = d
        BY <2>2 DEF Ahead
      <3>2. /\ i \in 1 .. Len(ls[l].queue) /\ j \in 1 .. Len(ls[l].queue)
            /\ ls[l].queue[i] = a /\ ls[l].queue[j] = d
        BY <1>2, <1>3, <3>1
      <3> QED BY <2>2, <3>1, <3>2 DEF Before
    <2>3. CASE Ahead(a, d) /\ LaneOf[a] # l
      <3>1. ls[LaneOf[a]] = lanes[LaneOf[a]]
        BY <2>3, <1>3, LaneOfAssumption
      <3> QED BY <2>3, <3>1 DEF Before, Ahead
    <2> QED BY <2>1, <2>2, <2>3
  <1> QED
    BY <1>1, <1>3, <1>4, <1>8, <1>9, <1>10, <1>11, <1>12, DrainLanesInv

(* A task that ends frees its slot only in the generation it started in.   *)
LEMMA CompleteInv ==
    ASSUME Inv, NEW c \in Commands, NEW outcome \in {"resolved", "rejected"},
           Complete(c, outcome)
    PROVE  Inv' /\ GoodStep
  <1> DEFINE l == LaneOf[c]
             s == lanes[l]
             ls == [lanes EXCEPT ![l].activeTaskIds = @ \ {c}]
             st == [status EXCEPT ![c] = outcome]
  <1>1. /\ l \in Lanes /\ s \in LaneState /\ lanes \in [Lanes -> LaneState]
        /\ taskGeneration \in [Commands -> 0 .. MaxResets]
        /\ status \in [Commands -> Status]
    BY LaneOfAssumption DEF Inv, TypeOK
  <1>2. /\ st \in [Commands -> Status]
        /\ st[c] \in Settled /\ status[c] = "running"
        /\ \A d \in Commands \ {c} : st[d] = status[d]
    BY <1>1 DEF Complete, Status, Settled
  <1>3. ASSUME NEW m \in Lanes
        PROVE  LaneInv(m, lanes[m], status, taskGeneration) /\ Busy(lanes[m])
    BY DEF Inv
  <1> HIDE DEF st
  <1>4. CASE taskGeneration[c] = lanes[l].generation
    <2>1. /\ ls[l] \in LaneState
          /\ ls[l].queue = s.queue
          /\ ls[l].activeTaskIds = s.activeTaskIds \ {c}
          /\ ls[l].generation = s.generation
          /\ \A m \in Lanes \ {l} : ls[m] = lanes[m]
          /\ ls \in [Lanes -> LaneState]
      BY <1>1 DEF LaneState
    <2>2. DrainLanes({l}, ls, st)
      BY <1>4 DEF Complete, st
    <2> HIDE DEF ls
    <2>3. LaneInv(l, ls[l], st, taskGeneration)
      BY <1>1, <1>2, <1>3, <2>1, FreedLane
    <2>4. ASSUME NEW m \in Lanes \ {l}
          PROVE  LaneInv(m, ls[m], st, taskGeneration) /\ Busy(ls[m])
      BY <1>2, <1>3, <2>1
         DEF LaneInv, QueueAgrees, ActiveAgrees, NotFromTheFuture
    <2>5. {l} \in SUBSET Lanes
      BY <1>1
    <2>6. OrderKept(ls, st)
      BY <1>2, <2>1, SameQueuesOrder
    <2> QED BY <1>1, <1>2, <2>1, <2>2, <2>3, <2>4, <2>5, <2>6, DrainLanesInv
  <1>5. CASE taskGeneration[c] # lanes[l].generation
    <2>1. status' = st /\ lanes' = lanes /\ taskGeneration' = taskGeneration
      BY <1>5 DEF Complete, st
    <2>2. TypeOK'
      BY <1>1, <1>2, <2>1 DEF TypeOK
    <2>3. ASSUME NEW m \in Lanes
          PROVE  LaneInv(m, lanes[m], st, taskGeneration)
      BY <1>2, <1>3, <1>5, LateLane
    <2>4. StepStaysWithinCap
      BY <1>2, <2>1 DEF StepStaysWithinCap
    <2>5. StepKeepsOrder
      BY <1>2, <2>1, NothingStarted DEF Settled
    <2> QED BY <1>3, <2>1, <2>2, <2>3, <2>4, <2>5 DEF Inv, GoodStep
  <1> QED BY <1>4, <1>5

LEMMA SetConcurrencyInv ==
    ASSUME Inv, NEW l \in Lanes, NEW n \in 0 .. MaxConcurrency, SetConcurrency(l, n)
    PROVE  Inv' /\ GoodStep
  <1> DEFINE s == lanes[l]
             cap == IF n < 1 THEN 1 ELSE n
             ls == [lanes EXCEPT ![l].maxConcurrent = cap]
  <1>1. /\ s \in LaneState /\ lanes \in [Lanes -> LaneState]
        /\ taskGeneration \in [Commands -> 0 .. MaxResets]
        /\ status \in [Commands -> Status]
    BY DEF Inv, TypeOK
  <1>2. cap \in 1 .. MaxConcurrency
    BY BoundsAssumption
  <1>3. DrainLanes({l}, ls, status)
    BY DEF SetConcurrency
  <1> HIDE DEF cap
  <1>4. /\ ls[l] \in LaneState
        /\ ls[l].queue = s.queue
        /\ ls[l].activeTaskIds = s.activeTaskIds
        /\ ls[l].generation = s.generation
        /\ \A m \in Lanes \ {l} : ls[m] = lanes[m]
        /\ ls \in [Lanes -> LaneState]
    BY <1>1, <1>2 DEF LaneState
  <1> HIDE DEF ls
  <1>5. ASSUME NEW m \in Lanes
        PROVE  LaneInv(m, ls[m], status, taskGeneration)
    BY <1>4 DEF Inv, LaneInv, QueueAgrees, Entries, NoRepetition, ActiveAgrees,
                NotFromTheFuture
  <1>6. \A m \in Lanes \ {l} : Busy(ls[m])
    BY <1>4 DEF Inv
  <1>7. OrderKept(ls, status)
    BY <1>4, SameQueuesOrder
  <1> QED BY <1>1, <1>3, <1>4, <1>5, <1>6, <1>7, DrainLanesInv

LEMMA ClearLaneInv ==
    ASSUME Inv, NEW l \in Lanes, ClearLane(l)
    PROVE  Inv' /\ GoodStep
  <1> DEFINE s == lanes[l]
  <1>1. /\ s \in LaneState /\ lanes \in [Lanes -> LaneState]
        /\ taskGeneration \in [Commands -> 0 .. MaxResets]
        /\ status \in [Commands -> Status]
    BY DEF Inv, TypeOK
  <1>2. /\ \A m \in Lanes : LaneInv(m, lanes[m], status, taskGeneration) /\ Busy(lanes[m])
        /\ Entries(s) = {c \in Commands : LaneOf[c] = l /\ status[c] = "queued"}
    BY DEF Inv, LaneInv, QueueAgrees
  <1>3. /\ \A c \in Commands :
              status'[c] = IF c \in Entries(s) THEN "cleared" ELSE status[c]
        /\ status' \in [Commands -> Status]
        /\ taskGeneration' = taskGeneration
    BY <1>1 DEF ClearLane, Entries, Status, Settled
  <1>4. /\ lanes'[l].queue = <<>> /\ Len(lanes'[l].queue) = 0
        /\ lanes'[l].activeTaskIds = s.activeTaskIds
        /\ lanes'[l].generation = s.generation
        /\ \A m \in Lanes \ {l} : lanes'[m] = lanes[m]
        /\ lanes' \in [Lanes -> LaneState]
    BY <1>1, EmptySeq DEF ClearLane, LaneState
  <1>5. LaneInv(l, lanes'[l], status', taskGeneration)
    BY <1>2, <1>3, <1>4, ClearedLane
  <1>6. ASSUME NEW m \in Lanes \ {l}
        PROVE  LaneInv(m, lanes'[m], status', taskGeneration)
    BY <1>2, <1>3, <1>4 DEF LaneInv, QueueAgrees, ActiveAgrees, NotFromTheFuture
  <1>7. \A m \in Lanes : Busy(lanes'[m])
    BY <1>2, <1>4 DEF Busy
  <1>8. StepStaysWithinCap
    BY <1>3 DEF StepStaysWithinCap
  <1>9. StepKeepsOrder
    <2>1. ASSUME NEW c \in Commands, status'[c] = "queued"
          PROVE  LaneOf[c] \in Lanes \ {l}
      BY <1>2, <1>3, <2>1, LaneOfAssumption
    <2> QED BY <1>3, <1>4, <2>1, NothingStarted
  <1> QED BY <1>1, <1>3, <1>4, <1>5, <1>6, <1>7, <1>8, <1>9 DEF Inv, TypeOK, GoodStep

(* After a reset no task runs in the new generation yet.                   *)
LEMMA ResetAllLanesInv ==
    ASSUME Inv, ResetAllLanes
    PROVE  Inv' /\ GoodStep
  <1> DEFINE ls == [l \in Lanes |-> IdleLane(lanes[l])]
  <1>1. /\ lanes \in [Lanes -> LaneState]
        /\ taskGeneration \in [Commands -> 0 .. MaxResets]
        /\ status \in [Commands -> Status]
    BY DEF Inv, TypeOK
  <1>2. ASSUME NEW l \in Lanes
        PROVE  /\ ls[l] \in LaneState
               /\ ls[l].queue = lanes[l].queue
               /\ ls[l].activeTaskIds = {}
               /\ ls[l].generation = lanes[l].generation + 1
               /\ lanes[l].generation \in Nat
    <2>1. /\ lanes[l] \in LaneState /\ lanes[l].generation \in 0 .. MaxResets
          /\ lanes[l].generation < MaxResets
      BY <1>1 DEF ResetAllLanes, LaneState
    <2>2. lanes[l].generation + 1 \in 0 .. MaxResets
      BY <2>1, BoundsAssumption
    <2> QED BY <2>1, <2>2 DEF LaneState, IdleLane
  <1>3. ls \in [Lanes -> LaneState]
    BY <1>2
  <1>4. DrainLanes(Lanes, ls, status)
    BY DEF ResetAllLanes
  <1> HIDE DEF ls
  <1>5. ASSUME NEW l \in Lanes
        PROVE  LaneInv(l, ls[l], status, taskGeneration)
    <2>1. LaneInv(l, lanes[l], status, taskGeneration) /\ lanes[l] \in LaneState
      BY <1>1 DEF Inv
    <2>2. taskGeneration \in [Commands -> Nat]
      BY <1>1, BoundsAssumption
    <2> QED BY <2>1, <2>2, IdledLane DEF ls
  <1>6. OrderKept(ls, status)
    BY <1>2, SameQueuesOrder
  <1> QED BY <1>1, <1>3, <1>4, <1>5, <1>6, DrainLanesInv

LEMMA StutterInv == Inv /\ UNCHANGED vars => Inv' /\ GoodStep
  <1> SUFFICES ASSUME Inv, UNCHANGED vars PROVE Inv' /\ GoodStep
    OBVIOUS
  <1>1. Inv' /\ StepStaysWithinCap
    BY DEF Inv, vars, TypeOK, LaneInv, QueueAgrees, Entries, NoRepetition,
           ActiveAgrees, NotFromTheFuture, Busy, StepStaysWithinCap
  <1>2. StepKeepsOrder
    BY NothingStarted DEF vars
  <1> QED BY <1>1, <1>2 DEF GoodStep

LEMMA NextInv == Inv /\ [Next]_vars => Inv' /\ GoodStep
  <1> SUFFICES ASSUME Inv, [Next]_vars PROVE Inv' /\ GoodStep
    OBVIOUS
  <1>1. CASE \E c \in Commands : Enqueue(c)
    BY <1>1, EnqueueInv
  <1>2. CASE \E c \in Commands, outcome \in {"resolved", "rejected"} : Complete(c, outcome)
    BY <1>2, CompleteInv
  <1>3. CASE \E l \in Lanes, n \in 0 .. MaxConcurrency : SetConcurrency(l, n)
    BY <1>3, SetConcurrencyInv
  <1>4. CASE \E l \in Lanes : ClearLane(l)
    BY <1>4, ClearLaneInv
  <1>5. CASE ResetAllLanes
    BY <1>5, ResetAllLanesInv
  <1>6. CASE UNCHANGED vars
    BY <1>6, StutterInv
  <1> QED BY <1>1, <1>2, <1>3, <1>4, <1>5, <1>6 DEF Next

(* The inductive invariant holds in every reachable state.                 *)
THEOREM SpecInv == Spec => []Inv
  <1> QED BY InitInv, NextInv, PTL DEF Spec

(* Type correctness of the command queue. *)
THEOREM SpecTypeOK == Spec => []TypeOK
  <1>1. Inv => TypeOK
    BY DEF Inv
  <1> QED BY <1>1, SpecInv, PTL

(* However enqueues, completions, cap changes, clears and resets           *)
(* interleave, a lane's queue holds exactly, and once each, the commands   *)
(* that still wait in it (command-queue.ts 73-117, 179-191, 207-221).      *)
THEOREM SpecQueueExact == Spec => []QueueExact
  <1>1. Inv => QueueExact
    BY DEF Inv, LaneInv, QueueAgrees, QueueExact, Queued, Entries, NoRepetition
  <1> QED BY <1>1, SpecInv, PTL

(* A lane's active set is exactly its running tasks of the current         *)
(* generation: completeTask and resetAllLanes leave no stale id behind     *)
(* (command-queue.ts 58-64, 207-221).                                      *)
THEOREM SpecActiveExact == Spec => []ActiveExact
  <1>1. Inv => ActiveExact
    BY DEF Inv, LaneInv, ActiveAgrees, ActiveExact
  <1> QED BY <1>1, SpecInv, PTL

(* A lane with waiting entries has all its slots taken: no wake-up is      *)
(* lost, for any number of lanes, commands and cap                         *)
(* (command-queue.ts 66-118).                                              *)
THEOREM SpecWorkConserving == Spec => []WorkConserving
  <1>1. Inv => WorkConserving
    BY DEF Inv, Busy, WorkConserving
  <1> QED BY <1>1, SpecInv, PTL

(* No interleaving of cap changes, resets and late completions makes a     *)
(* step start a task beyond the lane's cap (command-queue.ts 74, 120-125). *)
THEOREM SpecStartsWithinCap == Spec => StartsWithinCap
  <1>1. Inv /\ [Next]_vars => [StepStaysWithinCap]_vars
    BY NextInv DEF GoodStep
  <1> QED BY <1>1, SpecInv, PTL DEF Spec, StartsWithinCap

(* While a command waits, none enqueued after it in the same lane starts   *)
(* or moves ahead of it, whatever completes, is cleared or reset in        *)
(* between (command-queue.ts 75, 139).                                     *)
THEOREM SpecNoOvertaking == Spec => NoOvertaking
  <1>1. Inv /\ [Next]_vars => [StepKeepsOrder]_vars
    BY NextInv DEF GoodStep
  <1> QED BY <1>1, SpecInv, PTL DEF Spec, NoOvertaking

(* The books of every lane are exact, for any number of lanes and commands *)
(* and any cap (command-queue.ts 73-117, 179-221).                         *)
THEOREM SpecBooksExact == Spec => []BooksExact
  <1>1. TypeOK /\ QueueExact /\ ActiveExact => BooksExact
    BY DEF BooksExact
  <1> QED BY <1>1, SpecTypeOK, SpecQueueExact, SpecActiveExact, PTL

(* Every start is in turn and within the cap (command-queue.ts 73-86).     *)
THEOREM SpecFairStarts == Spec => FairStarts
  BY SpecStartsWithinCap, SpecNoOvertaking DEF FairStarts

=============================================================================
