--------------------------- MODULE FollowupQueue ----------------------------
(***************************************************************************)
(* The queue of messages that reach a session while its agent is busy.     *)
(*                                                                         *)
(* enqueueFollowupRun, scheduleFollowupDrain and clearFollowupQueue of     *)
(* src/auto-reply/reply/queue, with the helpers of utils/queue-helpers.ts, *)
(* for one key of FOLLOWUP_QUEUES.  A drain holds on to its queue object   *)
(* across the runs it awaits; meanwhile messages are added, the drop       *)
(* policy removes old ones, and a clear takes the object out of the map,   *)
(* so that the next message makes a new object.                            *)
(*                                                                         *)
(* A step is what happens between two awaits.                              *)
(***************************************************************************)
EXTENDS Integers, Sequences, FiniteSets, SequencesExt

CONSTANTS
    Messages,    \* inbound messages, by message id and routing
    RouteOf,     \* the channel and destination of each message
    Configs,     \* sets of settings [mode, cap, dropPolicy]; the messages of
                 \* a behaviour come with settings of one of these sets
    MaxQueues,   \* bound on the queue objects made
    MaxArrivals, \* bound on enqueues
    MaxFailures  \* bound on runs that fail

Modes == {"followup", "collect"}
Policies == {"old", "new", "summarize"}
Settings == [mode : Modes, cap : Nat \ {0}, dropPolicy : Policies]

ASSUME FollowupAssumption ==
    /\ Configs # {} /\ \A c \in Configs : c \subseteq Settings /\ c # {}
    /\ MaxQueues \in Nat \ {0} /\ MaxArrivals \in Nat /\ MaxFailures \in Nat

Queues == 1..MaxQueues
None == 0

VARIABLES
    config,    \* the settings messages come with
    current,   \* the object FOLLOWUP_QUEUES holds for the key, or None
    queue,     \* the queue objects
    drain,     \* of each object, its drain; "off" if it is not draining
    made,      \* objects made so far
    arrivals,  \* enqueues so far
    failures,  \* failed runs so far
    accepted,  \* history: how often a message was pushed
    answered,  \* history: how often a message was in the prompt of a run
    told,      \* history: messages listed as dropped in the prompt of a run
    removed,   \* history: messages removed by policy or by a clear
    risky      \* history: a drop hit a run in progress, a summary took the
               \* turn of a message, or a clear met a drain

vars == <<config, current, queue, drain, made, arrivals, failures, accepted,
          answered, told, removed, risky>>

QueueObject == [items : Seq(Messages), droppedCount : Nat, summaryLines : Seq(Messages),
                hasLastRun : BOOLEAN, mode : Modes, cap : Nat \ {0}, dropPolicy : Policies]

Empty(q) == q.items = <<>> /\ q.droppedCount = 0

NewQueue(s) ==
    [items |-> <<>>, droppedCount |-> 0, summaryLines |-> <<>>, hasLastRun |-> FALSE,
     mode |-> s.mode, cap |-> s.cap, dropPolicy |-> s.dropPolicy]

(* shift and splice tolerate an array that has become shorter *)
DropFirst(s, n) == IF n >= Len(s) THEN <<>> ELSE SubSeq(s, n + 1, Len(s))

(* A turn: the messages in its prompt, those listed as dropped, how many   *)
(* items to remove and whether to clear the summary when it succeeds.      *)
NoTurn == [prompt |-> <<>>, listed |-> <<>>, remove |-> 0, summary |-> FALSE]
Off == [pc |-> "off", force |-> FALSE, turn |-> NoTurn]
Debounce(force) == [pc |-> "debounce", force |-> force, turn |-> NoTurn]

Turns == [prompt : Seq(Messages), listed : Seq(Messages), remove : Nat, summary : BOOLEAN]
Drain == [pc : {"off", "debounce", "run"}, force : BOOLEAN, turn : Turns]

Init ==
    /\ config \in Configs
    /\ current = None
    /\ queue = [i \in Queues |-> NewQueue(CHOOSE s \in UNION Configs : TRUE)]
    /\ drain = [i \in Queues |-> Off]
    /\ made = 0 /\ arrivals = 0 /\ failures = 0
    /\ accepted = [m \in Messages |-> 0] /\ answered = accepted
    /\ told = {} /\ removed = {} /\ risky = FALSE

-----------------------------------------------------------------------------
(* Enqueueing.                                                             *)

(* applyQueueRuntimeSettings *)
WithSettings(q, s) ==
    [q EXCEPT !.mode = s.mode, !.cap = s.cap, !.dropPolicy = s.dropPolicy]

(* isRunAlreadyQueued: only what is still in the queue is a duplicate *)
Duplicate(q, m) == m \in ToSet(q.items)

Overflows(q) == Len(q.items) >= q.cap

(* applyQueueDropPolicy, for the policies that make room: the oldest items *)
(* go; summarize keeps their lines, the last cap of them.                  *)
Overflow(q) == SubSeq(q.items, 1, Len(q.items) - q.cap + 1)

LastLines(lines, limit) ==
    IF Len(lines) <= limit THEN lines ELSE DropFirst(lines, Len(lines) - limit)

MakeRoom(q) ==
    LET gone == Overflow(q)
        kept == [q EXCEPT !.items = DropFirst(@, Len(gone))]
    IN  IF q.dropPolicy = "old" THEN kept
        ELSE [kept EXCEPT !.droppedCount = @ + Len(gone),
                          !.summaryLines = LastLines(@ \o gone, q.cap)]

(* the lines the limit pushes out, and what the policy "old" drops *)
Forgotten(q) ==
    IF q.dropPolicy = "old" THEN ToSet(Overflow(q))
    ELSE ToSet(q.summaryLines \o Overflow(q)) \ ToSet(MakeRoom(q).summaryLines)

Push(q, m) == [q EXCEPT !.items = Append(@, m), !.hasLastRun = TRUE]

(* enqueueFollowupRun; a duplicate or a rejected message changes nothing   *)
(* but the settings (and lastRun).                                         *)
enqueueFollowupRun(m, s) ==
    LET made1 == IF current = None THEN made + 1 ELSE made
        id == IF current = None THEN made1 ELSE current
        q == WithSettings(IF current = None THEN NewQueue(s) ELSE queue[id], s)
        makesRoom == Overflows(q) /\ q.dropPolicy # "new"
    IN
    /\ arrivals < MaxArrivals /\ arrivals' = arrivals + 1
    /\ made1 <= MaxQueues /\ made' = made1
    /\ current' = id
    /\ \/ /\ Duplicate(q, m)
          /\ queue' = [queue EXCEPT ![id] = q]
          /\ UNCHANGED <<accepted, removed, risky>>
       \/ /\ ~Duplicate(q, m) /\ Overflows(q) /\ q.dropPolicy = "new"
          /\ queue' = [queue EXCEPT ![id] = [q EXCEPT !.hasLastRun = TRUE]]
          /\ UNCHANGED <<accepted, removed, risky>>
       \/ /\ ~Duplicate(q, m) /\ ~(Overflows(q) /\ q.dropPolicy = "new")
          /\ queue' = [queue EXCEPT ![id] = Push(IF makesRoom THEN MakeRoom(q) ELSE q, m)]
          /\ accepted' = [accepted EXCEPT ![m] = @ + 1]
          /\ removed' = IF makesRoom THEN removed \cup Forgotten(q) ELSE removed
          /\ risky' = (risky \/ (makesRoom /\ drain[id].pc = "run"))
    /\ UNCHANGED <<config, drain, failures, answered, told>>

(* clearFollowupQueue: a stop, a reset or a kill of the session.  A drain  *)
(* in progress keeps the emptied object.                                   *)
clearFollowupQueue ==
    /\ current # None
    /\ queue' = [queue EXCEPT ![current] =
           [@ EXCEPT !.items = <<>>, !.droppedCount = 0, !.summaryLines = <<>>,
                     !.hasLastRun = FALSE]]
    /\ removed' = removed \cup ToSet(queue[current].items)
                          \cup ToSet(queue[current].summaryLines)
    /\ risky' = (risky \/ drain[current].pc # "off")
    /\ current' = None
    /\ UNCHANGED <<config, drain, made, arrivals, failures, accepted, answered, told>>

-----------------------------------------------------------------------------
(* Draining.                                                               *)

(* scheduleFollowupDrain; a queue in the map that nobody drains has items. *)
Scheduled(id, d) ==
    IF id = None \/ d[id].pc # "off" THEN d
    ELSE [d EXCEPT ![id] = Debounce(FALSE)]

(* Every reply run of the session that returns calls it. *)
RunReturns ==
    /\ current # None
    /\ drain' = Scheduled(current, drain)
    /\ UNCHANGED <<config, current, queue, made, arrivals, failures, accepted,
                   answered, told, removed, risky>>

(* The finally block: the key is deleted, whichever object it names now,   *)
(* or drained again.                                                       *)
Finally(id, q) ==
    LET over == [drain EXCEPT ![id] = Off]
    IN  IF Empty(q) THEN current' = None /\ drain' = over
        ELSE current' = current /\ drain' = Scheduled(current, over)

(* the head of the loop *)
Loop(id, q) ==
    IF Empty(q) THEN Finally(id, q)
    ELSE drain' = [drain EXCEPT ![id] = Debounce(@.force)]
         /\ UNCHANGED current

Routes(q) == {RouteOf[m] : m \in ToSet(q.items)}
hasCrossChannelItems(q) == Cardinality(Routes(q)) > 1

(* previewQueueSummaryPrompt *)
Summarizes(q) == q.dropPolicy = "summarize" /\ q.droppedCount > 0

Individually(id) == drain[id].force \/ hasCrossChannelItems(queue[id])

(* The drain gives up on its loop before a run. *)
Breaks(id) ==
    LET q == queue[id] IN
    IF q.mode = "collect"
    THEN IF Individually(id) THEN q.items = <<>>
         ELSE q.items = <<>> /\ ~q.hasLastRun
    ELSE q.items = <<>> \/ (Summarizes(q) /\ ~q.hasLastRun)

(* [mutant] the first item stays in the queue *)
FirstItemKept(q) == [NoTurn EXCEPT !.prompt = <<Head(q.items)>>]

FirstItem(q) ==
    [prompt |-> <<Head(q.items)>>, listed |-> <<>>, remove |-> 1, summary |-> FALSE]

Turn(id) ==
    LET q == queue[id]
        lines == IF Summarizes(q) THEN q.summaryLines ELSE <<>>
    IN  IF q.mode = "collect" /\ ~Individually(id)
        THEN [prompt |-> q.items, listed |-> lines, remove |-> Len(q.items),
              summary |-> Summarizes(q)]
        ELSE IF q.mode # "collect" /\ Summarizes(q)
        THEN [prompt |-> <<>>, listed |-> lines, remove |-> 1, summary |-> TRUE]
        ELSE FirstItem(q)

(* The debounce is over and a turn begins. *)
StartTurn(id) ==
    /\ drain[id].pc = "debounce" /\ ~Empty(queue[id]) /\ ~Breaks(id)
    /\ drain' = [drain EXCEPT ![id] =
           [pc |-> "run", turn |-> Turn(id),
            force |-> IF queue[id].mode = "collect" THEN Individually(id) ELSE @.force]]
    /\ risky' = (risky \/ (queue[id].mode # "collect" /\ Summarizes(queue[id])))
    /\ UNCHANGED <<config, current, queue, made, arrivals, failures, accepted,
                   answered, told, removed>>

(* Nothing to run, which a clear during the debounce can bring about. *)
StopDrain(id) ==
    /\ drain[id].pc = "debounce" /\ (Empty(queue[id]) \/ Breaks(id))
    /\ Finally(id, queue[id])
    /\ UNCHANGED <<config, queue, made, arrivals, failures, accepted, answered,
                   told, removed, risky>>

(* [mutant] the summary is not cleared after its run *)
SummaryStays(id) ==
    LET t == drain[id].turn
        q == [queue[id] EXCEPT !.items = DropFirst(@, t.remove)]
    IN
    /\ drain[id].pc = "run"
    /\ answered' = [m \in Messages |->
           answered[m] + (IF m \in ToSet(t.prompt) THEN 1 ELSE 0)]
    /\ told' = told \cup ToSet(t.listed)
    /\ queue' = [queue EXCEPT ![id] = q]
    /\ Loop(id, q)
    /\ UNCHANGED <<config, made, arrivals, failures, accepted, removed, risky>>

TurnSucceeds(id) ==
    LET t == drain[id].turn
        q == [queue[id] EXCEPT
                !.items = DropFirst(@, t.remove),
                !.droppedCount = IF t.summary THEN 0 ELSE @,
                !.summaryLines = IF t.summary THEN <<>> ELSE @]
    IN
    /\ drain[id].pc = "run"
    /\ answered' = [m \in Messages |->
           answered[m] + (IF m \in ToSet(t.prompt) THEN 1 ELSE 0)]
    /\ told' = told \cup ToSet(t.listed)
    /\ queue' = [queue EXCEPT ![id] = q]
    /\ Loop(id, q)
    /\ UNCHANGED <<config, made, arrivals, failures, accepted, removed, risky>>

(* The run throws: what it took stays in the queue and is tried again. *)
TurnFails(id) ==
    /\ drain[id].pc = "run"
    /\ failures < MaxFailures /\ failures' = failures + 1
    /\ Finally(id, queue[id])
    /\ UNCHANGED <<config, queue, made, arrivals, accepted, answered, told,
                   removed, risky>>

-----------------------------------------------------------------------------
DrainStep(id) == StartTurn(id) \/ StopDrain(id) \/ TurnSucceeds(id)

Next ==
    \/ \E m \in Messages, s \in config : enqueueFollowupRun(m, s)
    \/ clearFollowupQueue
    \/ RunReturns
    \/ \E id \in Queues : DrainStep(id) \/ TurnFails(id)

(* Debounces end, runs end, and the session has runs that return. *)
Fairness == WF_vars(RunReturns) /\ \A id \in Queues : WF_vars(DrainStep(id))

Spec == Init /\ [][Next]_vars /\ Fairness

-----------------------------------------------------------------------------
(* Properties.                                                             *)

TypeOK ==
    /\ config \in Configs /\ current \in {None} \cup 1..made /\ made \in 0..MaxQueues
    /\ queue \in [Queues -> QueueObject] /\ drain \in [Queues -> Drain]
    /\ arrivals \in 0..MaxArrivals /\ failures \in 0..MaxFailures
    /\ accepted \in [Messages -> Nat] /\ answered \in [Messages -> Nat]
    /\ told \subseteq Messages /\ removed \subseteq Messages /\ risky \in BOOLEAN

(* A message is in a queue once, every line of a summary stands for a drop *)
(* that is counted, and a queue in the map that nobody drains has          *)
(* something to drain (drain.ts 137-139, queue-helpers.ts 96-106).         *)
QueuesSound ==
    /\ \A id \in Queues :
          /\ IsInjective(queue[id].items)
          /\ Len(queue[id].summaryLines) <= queue[id].droppedCount
    /\ current # None /\ drain[current].pc = "off" => ~Empty(queue[current])

(* Is m in the queue the key names, or in one that somebody drains?        *)
Reachable(m) ==
    \E id \in Queues :
        /\ id = current \/ drain[id].pc # "off"
        /\ m \in ToSet(queue[id].items \o queue[id].summaryLines)

Lost(m) ==
    accepted[m] > 0 /\ answered[m] = 0 /\ m \notin told \cup removed /\ ~Reachable(m)

(* A message is lost in three ways only: the drop policy removed items     *)
(* under a run in progress, a summary took the turn of a message, or a     *)
(* clear met a drain.  Failed runs, other channels and changes of mode     *)
(* lose nothing (drain.ts 92-105, 129; queue-helpers.ts 132-142).          *)
NothingElseLost == ~risky => \A m \in Messages : ~Lost(m)

(* A message is not put into a prompt again after a run with it succeeded, *)
(* whatever was added or dropped in the meantime, unless it arrives again  *)
(* (queue-helpers.ts 140-141, drain.ts 101).                               *)
AnsweredOnce == \A m \in Messages : answered[m] <= accepted[m]

OneMode == \A s, t \in config : s.mode = t.mode

(* While the settings do not change and the cap is above one, every drain  *)
(* comes to an end: none starts over and over with nothing to run          *)
(* (drain.ts 27, 136-142).                                                 *)
DrainEnds ==
    \A id \in Queues : OneMode /\ drain[id].pc # "off" ~> drain[id].pc = "off"

(* What is queued leaves the queue again, if the settings do not change    *)
(* and runs of the session return.                                         *)
QueueEmpties == \A m \in Messages : OneMode /\ Reachable(m) ~> ~Reachable(m)

(* Every message that was accepted is in the queue, in a summary or        *)
(* answered, and answered once (queue/drain.ts, queue/enqueue.ts).         *)
Accounted == TypeOK /\ QueuesSound /\ NothingElseLost /\ AnsweredOnce

(* Drains end, and with them the queue (drain.ts 27-142).                  *)
QueueDrains == DrainEnds /\ QueueEmpties

=============================================================================
