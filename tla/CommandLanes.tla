---------------------------- MODULE CommandLanes ----------------------------
(***************************************************************************)
(* The lane-aware command queue of src/process/command-queue.ts.           *)
(*                                                                         *)
(* A lane is a FIFO queue of entries, the set of entries being executed, a *)
(* concurrency cap and a generation.  JavaScript runs every operation to   *)
(* completion, so one action is one synchronous call, the pump it triggers *)
(* included; the `draining' flag is therefore FALSE between two actions    *)
(* and is not a variable.  (An entry enqueued by a task that the pump has  *)
(* just started finds the flag set and is started by the same pump: the    *)
(* outcome is that of enqueueing it right after the pump.)                 *)
(*                                                                         *)
(* A command is one call of enqueueCommandInLane; the numeric task id that *)
(* the pump allocates is identified with the command.  Lanes the code      *)
(* creates on first use exist here from the start, idle, with cap 1.       *)
(***************************************************************************)
EXTENDS Integers, Sequences, FiniteSets

CONSTANTS
    Lanes,          \* lane names, "main", "cron", "session:..."
    Commands,       \* calls of enqueueCommandInLane
    LaneOf,         \* the lane each command is enqueued in
    MaxConcurrency, \* bound on the caps given to setCommandLaneConcurrency
    MaxResets       \* bound on the number of resetAllLanes calls

ASSUME LaneOfAssumption == LaneOf \in [Commands -> Lanes]
ASSUME BoundsAssumption == MaxConcurrency \in Nat \ {0} /\ MaxResets \in Nat

VARIABLES
    lanes,          \* lanes[l]: the LaneState of l
    status,         \* status[c]: what became of the promise of command c
    taskGeneration  \* taskGeneration[c]: the generation captured at c's start

vars == <<lanes, status, taskGeneration>>

Settled == {"resolved", "rejected", "cleared"}
Status == {"new", "queued", "running"} \cup Settled

LaneState ==
    [ queue         : Seq(Commands),
      activeTaskIds : SUBSET Commands,
      maxConcurrent : 1 .. MaxConcurrency,
      generation    : 0 .. MaxResets ]

NewLaneState ==
    [ queue |-> <<>>, activeTaskIds |-> {}, maxConcurrent |-> 1, generation |-> 0 ]

-----------------------------------------------------------------------------
(* drainLane: entries leave the front of the queue while a slot is free.   *)

StartCount(s) ==
    LET free == s.maxConcurrent - Cardinality(s.activeTaskIds)
    IN  IF free < 0 THEN 0 ELSE IF free < Len(s.queue) THEN free ELSE Len(s.queue)

Started(s) == {s.queue[i] : i \in 1 .. StartCount(s)}

Pumped(s) ==
    [ queue         |-> SubSeq(s.queue, StartCount(s) + 1, Len(s.queue)),
      activeTaskIds |-> s.activeTaskIds \cup Started(s),
      maxConcurrent |-> s.maxConcurrent,
      generation    |-> s.generation ]

(* Write back the lane states ls and the promise states st, every lane of  *)
(* the set L drained.                                                      *)
DrainLanes(L, ls, st) ==
    /\ lanes' = [l \in Lanes |-> IF l \in L THEN Pumped(ls[l]) ELSE ls[l]]
    /\ status' = [c \in Commands |->
            IF LaneOf[c] \in L /\ c \in Started(ls[LaneOf[c]])
              THEN "running" ELSE st[c]]
    /\ taskGeneration' = [c \in Commands |->
            IF LaneOf[c] \in L /\ c \in Started(ls[LaneOf[c]])
              THEN ls[LaneOf[c]].generation ELSE taskGeneration[c]]

-----------------------------------------------------------------------------
Init ==
    /\ lanes = [l \in Lanes |-> NewLaneState]
    /\ status = [c \in Commands |-> "new"]
    /\ taskGeneration = [c \in Commands |-> 0]

(* [mutant] unshift instead of push *)
EnqueueFirst(c) ==
    LET l == LaneOf[c] IN
    /\ status[c] = "new"
    /\ DrainLanes({l}, [lanes EXCEPT ![l].queue = <<c>> \o @],
                  [status EXCEPT ![c] = "queued"])

(* enqueueCommandInLane *)
Enqueue(c) ==
    LET l == LaneOf[c] IN
    /\ status[c] = "new"
    /\ DrainLanes({l}, [lanes EXCEPT ![l].queue = Append(@, c)],
                  [status EXCEPT ![c] = "queued"])

(* [mutant] the catch branch forgets to pump *)
CompletePumpsOnSuccess(c, outcome) ==
    LET l == LaneOf[c] IN
    /\ status[c] = "running"
    /\ IF taskGeneration[c] = lanes[l].generation
         THEN DrainLanes(IF outcome = "resolved" THEN {l} ELSE {},
                         [lanes EXCEPT ![l].activeTaskIds = @ \ {c}],
                         [status EXCEPT ![c] = outcome])
         ELSE /\ status' = [status EXCEPT ![c] = outcome]
              /\ UNCHANGED <<lanes, taskGeneration>>

(* The task's promise settles.  completeTask frees the slot, and the lane  *)
(* is pumped, only for a task of the lane's current generation.            *)
Complete(c, outcome) ==
    LET l == LaneOf[c] IN
    /\ status[c] = "running"
    /\ IF taskGeneration[c] = lanes[l].generation
         THEN DrainLanes({l}, [lanes EXCEPT ![l].activeTaskIds = @ \ {c}],
                         [status EXCEPT ![c] = outcome])
         ELSE /\ status' = [status EXCEPT ![c] = outcome]
              /\ UNCHANGED <<lanes, taskGeneration>>

(* setCommandLaneConcurrency; the caller's number is clamped to at least 1 *)
SetConcurrency(l, n) ==
    DrainLanes({l}, [lanes EXCEPT ![l].maxConcurrent = IF n < 1 THEN 1 ELSE n], status)

(* clearCommandLane: queued entries are rejected, active ones kept *)
ClearLane(l) ==
    LET pending == {lanes[l].queue[i] : i \in 1 .. Len(lanes[l].queue)} IN
    /\ lanes' = [lanes EXCEPT ![l].queue = <<>>]
    /\ status' = [c \in Commands |-> IF c \in pending THEN "cleared" ELSE status[c]]
    /\ UNCHANGED taskGeneration

IdleLane(s) ==
    [ queue |-> s.queue, activeTaskIds |-> {},
      maxConcurrent |-> s.maxConcurrent, generation |-> s.generation + 1 ]

(* [mutant] the generation is bumped but the active ids stay *)
ResetKeepsActive ==
    /\ \A l \in Lanes : lanes[l].generation < MaxResets
    /\ DrainLanes(Lanes, [l \in Lanes |-> [lanes[l] EXCEPT !.generation = @ + 1]], status)

(* [mutant] preserved work waits for the next enqueue *)
ResetWithoutDrain ==
    /\ \A l \in Lanes : lanes[l].generation < MaxResets
    /\ DrainLanes({}, [l \in Lanes |-> IdleLane(lanes[l])], status)

(* resetAllLanes *)
ResetAllLanes ==
    /\ \A l \in Lanes : lanes[l].generation < MaxResets
    /\ DrainLanes(Lanes, [l \in Lanes |-> IdleLane(lanes[l])], status)

Next ==
    \/ \E c \in Commands : Enqueue(c)
    \/ \E c \in Commands, outcome \in {"resolved", "rejected"} : Complete(c, outcome)
    \/ \E l \in Lanes, n \in 0 .. MaxConcurrency : SetConcurrency(l, n)
    \/ \E l \in Lanes : ClearLane(l)
    \/ ResetAllLanes

Spec == Init /\ [][Next]_vars

(* A task that was started comes to an end: agent runs have a timeout.     *)
FairSpec == Spec /\ \A c \in Commands : WF_vars(\E o \in {"resolved", "rejected"} : Complete(c, o))

-----------------------------------------------------------------------------
(* Properties.                                                             *)
TypeOK ==
    /\ lanes \in [Lanes -> LaneState]
    /\ status \in [Commands -> Status]
    /\ taskGeneration \in [Commands -> 0 .. MaxResets]

Queued(l) == {lanes[l].queue[i] : i \in 1 .. Len(lanes[l].queue)}

(* The bookkeeping of a lane and the promises it still owes agree: the     *)
(* queue holds, once each, exactly the commands waiting in that lane.  An  *)
(* entry dropped, kept twice or left behind in the queue by a pump, a      *)
(* clear or a reset would be a promise that never settles or a task run    *)
(* twice (command-queue.ts 73-117, 179-191, 207-221).                      *)
QueueExact ==
    \A l \in Lanes :
        /\ Queued(l) = {c \in Commands : LaneOf[c] = l /\ status[c] = "queued"}
        /\ \A i, j \in 1 .. Len(lanes[l].queue) :
              lanes[l].queue[i] = lanes[l].queue[j] => i = j

(* The active set of a lane is exactly its running tasks of the current    *)
(* generation: a reset leaves no stale id behind that would block the lane *)
(* and a late completion of an old task removes no newer one               *)
(* (command-queue.ts 58-64, 193-202).                                      *)
ActiveExact ==
    \A l \in Lanes :
        lanes[l].activeTaskIds =
            {c \in Commands : /\ LaneOf[c] = l
                              /\ status[c] = "running"
                              /\ taskGeneration[c] = lanes[l].generation}

(* No lost wake-up: whenever control returns to the event loop, a lane     *)
(* with waiting entries has every one of its slots taken.  No timer polls  *)
(* the queue, so an entry left behind with a free slot would wait for an   *)
(* enqueue that may never come (command-queue.ts 202-206).                 *)
WorkConserving ==
    \A l \in Lanes :
        lanes[l].queue # <<>> =>
            Cardinality(lanes[l].activeTaskIds) >= lanes[l].maxConcurrent

StepStaysWithinCap ==
    \A l \in Lanes :
        (\E c \in Commands : /\ LaneOf[c] = l
                             /\ status[c] # "running"
                             /\ status'[c] = "running")
          => Cardinality(lanes'[l].activeTaskIds) <= lanes'[l].maxConcurrent

(* A step that starts tasks leaves the lane within its cap, even after the *)
(* cap was lowered below the number of active tasks, and even when an old  *)
(* task completes after a reset (command-queue.ts 74, 120-125).            *)
StartsWithinCap == [][StepStaysWithinCap]_vars

Ahead(c, d) ==
    LET q == lanes[LaneOf[c]].queue
    IN  \E i, j \in 1 .. Len(q) : i < j /\ q[i] = c /\ q[j] = d

StepKeepsOrder ==
    \A c, d \in Commands :
        /\ LaneOf[c] = LaneOf[d] /\ c # d
        /\ status[c] = "queued" /\ status'[c] = "queued"
        /\ status[d] = "new" \/ Ahead(c, d)
      => /\ status'[d] # "running"
         /\ status'[d] = "queued" => Ahead(c, d)'

(* FIFO: while a command waits, no command enqueued after it in the same   *)
(* lane starts or moves ahead of it, across completions, clears, resets    *)
(* and cap changes (command-queue.ts 75, 139).                             *)
NoOvertaking == [][StepKeepsOrder]_vars

(* Every accepted command is eventually started or cleared, provided the   *)
(* tasks ahead of it end; resets, clears and cap changes included.         *)
EveryCommandSettles ==
    \A c \in Commands : status[c] = "queued" ~> status[c] \in Settled

(* The books of a lane are exact: its queue and its active set say what    *)
(* the promises say, in whatever order completions, clears, resets and     *)
(* changes of the cap come (command-queue.ts 73-117, 179-221).             *)
BooksExact == TypeOK /\ QueueExact /\ ActiveExact

(* What starts, starts in its turn and within the cap (command-queue.ts    *)
(* 73-86).                                                                 *)
FairStarts == StartsWithinCap /\ NoOvertaking

=============================================================================
