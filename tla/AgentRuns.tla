----------------------------- MODULE AgentRuns ------------------------------
(***************************************************************************)
(* Agent runs over two levels of command lanes.                            *)
(*                                                                         *)
(* runEmbeddedPiAgent (src/agents/pi-embedded-runner/run.ts) and           *)
(* compactEmbeddedPiSession (compact.ts) enqueue a task in the lane of the *)
(* session; when that task starts it enqueues the agent turn itself in a   *)
(* global lane (main, cron, subagent or nested) and ends when the turn     *)
(* ends.  The first level gives each session one run at a time, the second *)
(* bounds the turns in progress.                                           *)
(*                                                                         *)
(* The lanes are those of CommandLanes, whose operators on lane states are *)
(* used here.  A task started by a pump enqueues its turn within the same  *)
(* synchronous step, so an action pumps the session lanes, appends the new *)
(* turns to the global lanes and pumps these.                              *)
(***************************************************************************)
EXTENDS Integers, Sequences, FiniteSets, SequencesExt

CONSTANTS
    Runs,           \* calls of runEmbeddedPiAgent or compactEmbeddedPiSession
    Sessions,       \* session lanes
    Globals,        \* global lanes
    SessionOf,      \* the session of each run
    GlobalOf,       \* the global lane of each run
    MaxConcurrency, \* bound on the caps of the global lanes
    MaxResets       \* bound on the number of in-process restarts

ASSUME RunsAssumption ==
    /\ SessionOf \in [Runs -> Sessions] /\ GlobalOf \in [Runs -> Globals]
    /\ Sessions \cap Globals = {} /\ IsFiniteSet(Runs)
ASSUME BoundsAssumption == MaxConcurrency \in Nat \ {0} /\ MaxResets \in Nat

VARIABLES lanes, status, taskGeneration

vars == <<lanes, status, taskGeneration>>

Outer(r) == <<r, "session">>
Inner(r) == <<r, "global">>
Tasks == {Outer(r) : r \in Runs} \cup {Inner(r) : r \in Runs}

Lanes == Sessions \cup Globals
LaneOf == [t \in Tasks |-> IF t[2] = "session" THEN SessionOf[t[1]] ELSE GlobalOf[t[1]]]

CL == INSTANCE CommandLanes WITH Commands <- Tasks

Init == CL!Init

-----------------------------------------------------------------------------
(* The pump over both levels, from lane states ls and promises st.         *)

StartedIn(ls, L) == UNION {CL!Started(ls[l]) : l \in L}

(* the runs whose session tasks start *)
Arrivals(ls) == {t[1] : t \in StartedIn(ls, Sessions)}

(* the turns that they bring to global lane g *)
TurnsFor(ls, g) == {Inner(r) : r \in {q \in Arrivals(ls) : GlobalOf[q] = g}}

(* Several session lanes drain in one step only on a reset, in any order.  *)
Orders(ls) ==
    {order \in [Globals -> UNION {SetToSeqs(TurnsFor(ls, g)) : g \in Globals}] :
        \A g \in Globals : order[g] \in SetToSeqs(TurnsFor(ls, g))}

WithTurns(ls, order) ==
    [l \in Lanes |->
        IF l \in Sessions THEN ls[l] ELSE [ls[l] EXCEPT !.queue = @ \o order[l]]]

(* [mutant] the pump stops at the session lanes *)
DrainSessions(ls, st) ==
    \E order \in Orders(ls) :
        CL!DrainLanes(Sessions, WithTurns(ls, order),
            [t \in Tasks |-> IF t[2] = "global" /\ t[1] \in Arrivals(ls)
                               THEN "queued" ELSE st[t]])

Drain(ls, st) ==
    \E order \in Orders(ls) :
        CL!DrainLanes(Lanes, WithTurns(ls, order),
            [t \in Tasks |-> IF t[2] = "global" /\ t[1] \in Arrivals(ls)
                               THEN "queued" ELSE st[t]])

-----------------------------------------------------------------------------
(* runEmbeddedPiAgent, compactEmbeddedPiSession *)
StartRun(r) ==
    /\ status[Outer(r)] = "new"
    /\ Drain([lanes EXCEPT ![SessionOf[r]].queue = Append(@, Outer(r))],
             [status EXCEPT ![Outer(r)] = "queued"])

Complete(t, outcome) ==
    LET l == LaneOf[t] IN
    /\ status[t] = "running"
    /\ IF taskGeneration[t] = lanes[l].generation
         THEN Drain([lanes EXCEPT ![l].activeTaskIds = @ \ {t}],
                    [status EXCEPT ![t] = outcome])
         ELSE status' = [status EXCEPT ![t] = outcome] /\ UNCHANGED <<lanes, taskGeneration>>

(* the agent turn ends *)
TurnEnds(r, outcome) == Complete(Inner(r), outcome)

(* [mutant] the session task does not wait for its turn *)
RunEndsEarly(r) == Complete(Outer(r), "resolved")

(* [mutant] a turn that fails is not reported to the session task *)
RunEndsOnSuccess(r) == status[Inner(r)] = "resolved" /\ Complete(Outer(r), "resolved")

(* the session task ends with its turn *)
RunEnds(r) ==
    /\ status[Inner(r)] \in CL!Settled
    /\ Complete(Outer(r), status[Inner(r)])

(* applyGatewayLaneConcurrency: only global lanes are configured *)
SetConcurrency(g, n) == Drain([lanes EXCEPT ![g].maxConcurrent = n], status)

(* an interrupt, or a stop command: clearCommandLane of the session lane *)
ClearSession(s) == CL!ClearLane(s)

(* resetAllLanes of an in-process restart; the old tasks run on *)
ResetAllLanes ==
    /\ \A l \in Lanes : lanes[l].generation < MaxResets
    /\ Drain([l \in Lanes |-> CL!IdleLane(lanes[l])], status)

Next ==
    \/ \E r \in Runs : StartRun(r)
    \/ \E r \in Runs, outcome \in {"resolved", "rejected"} : TurnEnds(r, outcome)
    \/ \E r \in Runs : RunEnds(r)
    \/ \E g \in Globals, n \in 1 .. MaxConcurrency : SetConcurrency(g, n)
    \/ \E s \in Sessions : ClearSession(s)
    \/ ResetAllLanes

(* agent turns end: they have a timeout *)
Fairness ==
    \A r \in Runs : /\ WF_vars(\E o \in {"resolved", "rejected"} : TurnEnds(r, o))
                    /\ WF_vars(RunEnds(r))

Spec == Init /\ [][Next]_vars /\ Fairness

-----------------------------------------------------------------------------
(* Properties.                                                             *)
Executing == {r \in Runs : status[Inner(r)] = "running"}

TypeOK == CL!TypeOK

(* A global lane holds a turn, waiting or running, only of runs that hold  *)
(* their session's slot or lost it to a reset: a turn never outlives its   *)
(* session task, and an interrupt never strands one                        *)
(* (run.ts 206-207, command-queue.ts 179-191).                             *)
TurnsBelongToRuns ==
    \A r \in Runs : status[Inner(r)] \in {"queued", "running"} => status[Outer(r)] = "running"

(* Neither level loses a wake-up, although the second is fed from inside   *)
(* the pump of the first (command-queue.ts 66-118, run.ts 206-207).        *)
BothLevelsBusy == CL!WorkConserving

(* In one lifetime of the lanes, at most one run of a session executes;    *)
(* after a reset at most one per generation                                *)
(* (docs/concepts/queue.md 20, command-queue.ts 193-202).                  *)
OneRunPerGeneration ==
    \A q, r \in Executing :
        SessionOf[q] = SessionOf[r] /\ taskGeneration[Outer(q)] = taskGeneration[Outer(r)]
            => q = r

(* Every run that is accepted ends or is cleared: two levels of waiting    *)
(* cannot block each other (compact.ts 742-746).                           *)
EveryRunSettles ==
    \A r \in Runs : status[Outer(r)] = "queued" ~> status[Outer(r)] \in CL!Settled

-----------------------------------------------------------------------------
(* Until a reset the lanes implement SessionLine: the line of a session is *)
(* its running task followed by the queue of its lane.                     *)
RunsOf(q) == [i \in 1 .. Len(q) |-> q[i][1]]

LineOf(s) ==
    LET holder == {r \in Runs : Outer(r) \in s.activeTaskIds}
    IN  (IF holder = {} THEN <<>> ELSE <<CHOOSE r \in holder : TRUE>>) \o RunsOf(s.queue)

lineBar == [s \in Sessions |-> LineOf(lanes[s])]

servedBar == {r \in Runs : status[Inner(r)] \in {"running", "resolved", "rejected"}}
leftBar == {r \in Runs : status[Outer(r)] \in CL!Settled}

SL == INSTANCE SessionLine WITH line <- lineBar, executing <- Executing,
                                served <- servedBar, left <- leftBar

NeverReset == \A l \in Lanes : lanes[l].generation = 0

(* The two levels of lanes serve a session's runs in the order they came,  *)
(* one at a time and each once, and an interrupt turns away only those     *)
(* that wait, for as long as no reset interferes                           *)
(* (run.ts 190-207, command-queue.ts 66-191).                              *)
ImplementsSessionLine ==
    SL!LineInit /\ [][NeverReset' => SL!LineNext]_(SL!lineVars)

(* The two levels of lanes agree: turns have a run, and neither level      *)
(* sleeps on work it has room for (run.ts 187-207).                        *)
LevelsAgree == TypeOK /\ TurnsBelongToRuns /\ BothLevelsBusy

=============================================================================
