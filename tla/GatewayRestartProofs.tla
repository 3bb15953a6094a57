------------------------ MODULE GatewayRestartProofs ------------------------
(* Theorems about GatewayRestart, for every set of tasks, every policy and *)
(* every bound.                                                            *)
EXTENDS GatewayRestart, TLAPS

-----------------------------------------------------------------------------
(* The strengthening of the invariants that is inductive.                  *)

Kinds == {"none", "stop", "restart"}

\* the state of the loop determines the server and the resolver
LoopAgrees ==
    /\ server \in BOOLEAN
    /\ loop = "starting" => ~server /\ resolver # "fresh"
    /\ loop = "up" => server /\ resolver = "fresh"
    /\ loop = "exited" => ~server /\ shutdown = NoShutdown
    /\ server => live = 1
    /\ ~server => live = 0
    /\ shutdown.phase = "closing" => server

\* each set timer and each poller stands for a request of its own
PollersCounted ==
    /\ timer => pollers + 1 <= requests
    /\ ~timer => pollers <= requests

LoopType ==
    /\ loop \in {"starting", "up", "exited"}
    /\ iteration \in 1 .. MaxIterations
    /\ live \in Nat
    /\ resolver \in {"none", "fresh", "used"}
    /\ shutdown \in [phase : {"none", "draining", "closing"},
                     kind : {"none", "stop", "restart"},
                     waitFor : SUBSET Tasks, expired : BOOLEAN]
    /\ active \subseteq Tasks /\ stale \subseteq Tasks /\ done \subseteq Tasks
    /\ requests \in 0 .. MaxRequests /\ seen \in 0 .. requests

SignalType ==
    /\ sig \in [authorized : Nat, emitted : Nat, consumed : Nat]
    /\ timer \in BOOLEAN /\ pollers \in 0 .. MaxRequests
    /\ configPollers \subseteq 1 .. MaxIterations
    /\ promised \in 0 .. MaxIterations

(* A restart drains the tasks that were active at its acceptance, and      *)
(* closes when they have ended or the deadline has passed.                 *)
DrainsOwed ==
    /\ owed \subseteq Tasks
    /\ shutdown.phase = "draining" =>
         shutdown.kind = "restart" /\ shutdown.waitFor = owed
    /\ shutdown.kind = "restart" =>
         /\ shutdown.phase # "none"
         /\ owed \subseteq active \cup stale \cup done
         /\ shutdown.phase = "closing" /\ ~shutdown.expired => owed \cap active = {}

LoopInv == LoopType /\ LoopAgrees /\ DrainsOwed

SignalInv == SignalType /\ SignalsBalanced /\ PollersCounted

Inv == LoopInv /\ SignalInv

(* What holds in every step of the loop: requests are only counted up.     *)
Counting == requests' \in {requests, requests + 1} /\ requests' <= MaxRequests

-----------------------------------------------------------------------------
LEMMA NoShutdownFacts ==
    /\ NoShutdown \in [phase : {"none", "draining", "closing"},
                       kind : {"none", "stop", "restart"},
                       waitFor : SUBSET Tasks, expired : BOOLEAN]
    /\ NoShutdown.phase = "none" /\ NoShutdown.kind = "none"
  BY DEF NoShutdown

(* The steps of the loop and of a shutdown.                                *)
LEMMA ExitInv ==
    ASSUME LoopInv, Exit, done' = done, Counting, owed' \subseteq Tasks
    PROVE  LoopInv'
  <1>1. /\ loop' = "exited" /\ server' = FALSE /\ live' = 0 /\ shutdown' = NoShutdown
        /\ active' = {} /\ stale' = {}
        /\ UNCHANGED <<iteration, resolver, seen>>
    BY DEF Exit
  <1>2. LoopType'
    BY <1>1, NoShutdownFacts DEF LoopInv, LoopType, Counting
  <1>3. LoopAgrees' /\ DrainsOwed'
    BY <1>1, NoShutdownFacts DEF LoopAgrees, DrainsOwed
  <1> QED BY <1>2, <1>3 DEF LoopInv

LEMMA LoopStutterInv ==
    ASSUME LoopInv, UNCHANGED loopVars, done' = done, Counting, owed' = owed
    PROVE  LoopInv'
  <1>1. UNCHANGED <<loop, iteration, server, live, resolver, shutdown, active, stale,
                    seen, done>>
    BY DEF loopVars
  <1>2. LoopType'
    BY <1>1 DEF LoopInv, LoopType, Counting
  <1>3. LoopAgrees' /\ DrainsOwed'
    BY <1>1 DEF LoopInv, LoopAgrees, DrainsOwed
  <1> QED BY <1>2, <1>3 DEF LoopInv

LEMMA InProcessRestartInv ==
    ASSUME LoopInv, InProcessRestart, done' = done, Counting, loop # "exited",
           owed' \subseteq Tasks
    PROVE  LoopInv'
  <1>1. server' = FALSE /\ shutdown' = NoShutdown /\ live' = 0
    <2>1. server' = FALSE /\ shutdown' = NoShutdown
      BY DEF InProcessRestart
    <2>2. CASE server
      BY <2>2 DEF InProcessRestart, LiveAfterClose, LoopInv, LoopAgrees
    <2>3. CASE ~server
      BY <2>3 DEF InProcessRestart, LiveAfterClose, LoopInv, LoopAgrees
    <2> QED BY <2>1, <2>2, <2>3
  <1>2. CASE resolver = "fresh"
    <2>1. /\ iteration < MaxIterations
          /\ loop' = "starting" /\ iteration' = iteration + 1
          /\ resolver' = "used"
          /\ stale' = stale \cup active /\ active' = {}
          /\ seen' = requests
      BY <1>2 DEF InProcessRestart
    <2>2. LoopType'
      BY <1>1, <2>1, NoShutdownFacts, BoundsAssumption DEF LoopInv, LoopType, Counting
    <2>3. LoopAgrees' /\ DrainsOwed'
      BY <1>1, <2>1, NoShutdownFacts DEF LoopAgrees, DrainsOwed
    <2> QED BY <2>2, <2>3 DEF LoopInv
  <1>3. CASE resolver # "fresh"
    <2>1. UNCHANGED <<loop, iteration, resolver, active, stale, seen>>
      BY <1>3 DEF InProcessRestart
    <2>2. loop = "starting"
      BY <1>3 DEF LoopInv, LoopType, LoopAgrees
    <2>3. LoopType'
      BY <1>1, <2>1, NoShutdownFacts DEF LoopInv, LoopType, Counting
    <2>4. LoopAgrees' /\ DrainsOwed'
      BY <1>1, <1>3, <2>1, <2>2, NoShutdownFacts
         DEF LoopAgrees, DrainsOwed
    <2> QED BY <2>3, <2>4 DEF LoopInv
  <1> QED BY <1>2, <1>3

LEMMA FinallyInv ==
    ASSUME LoopInv, NEW kind, Finally(kind), done' = done, Counting, loop # "exited",
           owed' \subseteq Tasks
    PROVE  LoopInv'
  BY ExitInv, InProcessRestartInv DEF Finally

(* A restart enters its drain to wait for the tasks it owes, and closes    *)
(* when they have ended or the deadline has passed.                        *)
LEMMA EnterPhaseInv ==
    ASSUME LoopInv, NEW phase \in {"draining", "closing"}, NEW kind \in Kinds,
           NEW waitFor \in SUBSET Tasks, NEW expired \in BOOLEAN,
           EnterPhase(phase, kind, waitFor, expired),
           phase = "closing" => server,
           phase = "draining" => kind = "restart" /\ waitFor = owed',
           kind = "restart" =>
             /\ owed' \subseteq active \cup stale \cup done
             /\ phase = "closing" /\ ~expired => owed' \cap active = {},
           done' = done, Counting, loop # "exited", owed' \subseteq Tasks
    PROVE  LoopInv'
  <1>1. /\ shutdown' = [phase |-> phase, kind |-> kind, waitFor |-> waitFor,
                        expired |-> expired]
        /\ UNCHANGED <<loop, iteration, server, live, resolver, active, stale, seen>>
    BY DEF EnterPhase
  <1>2. LoopType'
    BY <1>1 DEF LoopInv, LoopType, Counting, Kinds
  <1>3. /\ shutdown'.phase = phase /\ shutdown'.waitFor = waitFor
        /\ shutdown'.expired = expired /\ shutdown'.kind = kind
    BY <1>1
  <1>4. LoopAgrees'
    BY <1>1, <1>3 DEF LoopInv, LoopAgrees
  <1>5. DrainsOwed'
    BY <1>1, <1>3 DEF DrainsOwed
  <1> QED BY <1>2, <1>4, <1>5 DEF LoopInv

LEMMA CloseInv ==
    ASSUME LoopInv, NEW kind \in Kinds,
           NEW waitFor \in SUBSET Tasks, NEW expired \in BOOLEAN,
           Close(kind, waitFor, expired),
           kind = "restart" =>
             /\ owed' \subseteq active \cup stale \cup done
             /\ ~expired => owed' \cap active = {},
           done' = done, Counting, loop # "exited", owed' \subseteq Tasks
    PROVE  LoopInv'
  <1>1. CASE server
    <2>1. EnterPhase("closing", kind, waitFor, expired)
      BY <1>1 DEF Close
    <2> QED BY <1>1, <2>1, EnterPhaseInv
  <1>2. CASE ~server
    <2>1. Finally(kind)
      BY <1>2 DEF Close
    <2> QED BY <2>1, FinallyInv
  <1> QED BY <1>1, <1>2

LEMMA RequestInv ==
    ASSUME LoopInv, NEW kind \in {"stop", "restart"}, Request(kind),
           owed' = IF kind = "restart" /\ shutdown.phase = "none" THEN active ELSE owed,
           done' = done, Counting, loop # "exited"
    PROVE  LoopInv'
  <1>1. active \subseteq Tasks /\ owed' \subseteq Tasks /\ kind \in Kinds
    BY DEF LoopInv, LoopType, DrainsOwed, Kinds
  <1>2. CASE shutdown.phase # "none"
    BY <1>2, LoopStutterInv DEF Request
  <1>3. CASE shutdown.phase = "none" /\ kind = "restart" /\ active # {}
    <2>1. EnterPhase("draining", kind, active, FALSE) /\ owed' = active
      BY <1>3 DEF Request
    <2> QED BY <1>1, <1>3, <2>1, EnterPhaseInv
  <1>4. CASE shutdown.phase = "none" /\ ~(kind = "restart" /\ active # {})
    <2>1. Close(kind, {}, FALSE)
      BY <1>4 DEF Request
    <2>2. kind = "restart" => owed' = {}
      BY <1>4
    <2> QED BY <1>1, <2>1, <2>2, CloseInv
  <1> QED BY <1>2, <1>3, <1>4

-----------------------------------------------------------------------------
(* Signals.                                                                *)
SigType == [authorized : Nat, emitted : Nat, consumed : Nat]

(* Authorizations and tokens as onSigusr1 may find them: balanced, or with *)
(* the one authorization and the one token of an emission.                 *)
Handleable(s) ==
    /\ s \in SigType
    /\ s.emitted >= s.consumed
    /\ s.authorized = 1 \/ (s.authorized = 0 /\ s.emitted = s.consumed)

LEMMA OnSigusr1Inv ==
    ASSUME LoopInv, SignalType, NEW s, Handleable(s), OnSigusr1(s),
           done' = done, Counting, loop # "exited"
    PROVE  /\ LoopInv'
           /\ sig' \in SigType /\ SignalsBalanced'
           /\ promised' \in 0 .. MaxIterations
  <1>1. CASE s.authorized > 0 \/ ExternalAllowed
    <2> DEFINE t == IF s.authorized > 0 THEN ConsumeAuthorization(s) ELSE s
    <2>1. /\ sig' = MarkHandled(t)
          /\ promised' = IF loop = "up" THEN iteration ELSE promised
          /\ owed' = IF shutdown.phase = "none" THEN active ELSE owed
          /\ Request("restart")
      BY <1>1 DEF OnSigusr1
    <2>2. /\ t \in SigType /\ t.authorized = 0
          /\ t.emitted = s.emitted /\ t.consumed = s.consumed
      BY DEF Handleable, ConsumeAuthorization, SigType
    <2> HIDE DEF t
    <2>3. sig' \in SigType /\ sig'.emitted = sig'.consumed /\ sig'.authorized = 0
      BY <2>1, <2>2 DEF MarkHandled, Unconsumed, Handleable, SigType
    <2>4. LoopInv'
      BY <2>1, RequestInv
    <2> QED BY <2>1, <2>3, <2>4, BoundsAssumption DEF SignalsBalanced, SignalType, LoopInv, LoopType
  <1>2. CASE ~(s.authorized > 0 \/ ExternalAllowed)
    <2>1. sig' = s /\ promised' = promised /\ owed' = owed /\ UNCHANGED loopVars
      BY <1>2 DEF OnSigusr1
    <2>2. s.authorized = 0 /\ s.emitted = s.consumed /\ s \in SigType
      BY <1>2 DEF Handleable
    <2> QED BY <2>1, <2>2, LoopStutterInv DEF SignalsBalanced, SignalType
  <1> QED BY <1>1, <1>2

LEMMA EmitInv ==
    ASSUME Inv, EmitGatewayRestart, done' = done, Counting, loop # "exited"
    PROVE  /\ LoopInv'
           /\ timer' = FALSE
           /\ sig' \in SigType /\ SignalsBalanced'
           /\ promised' \in 0 .. MaxIterations
  <1> DEFINE s == Authorize([sig EXCEPT !.emitted = @ + 1])
  <1>1. sig \in SigType /\ sig.emitted = sig.consumed /\ sig.authorized = 0
    BY DEF Inv, SignalInv, SignalType, SignalsBalanced, SigType
  <1>2. timer' = FALSE /\ OnSigusr1(s)
    BY <1>1 DEF EmitGatewayRestart, Unconsumed, SigType
  <1>3. Handleable(s)
    <2>1. /\ s \in SigType /\ s.authorized = 1
          /\ s.emitted = sig.emitted + 1 /\ s.consumed = sig.consumed
      <3> DEFINE t == [sig EXCEPT !.emitted = @ + 1]
      <3>1. /\ t \in SigType /\ t.authorized = 0
            /\ t.emitted = sig.emitted + 1 /\ t.consumed = sig.consumed
        BY <1>1 DEF SigType
      <3>2. s = [t EXCEPT !.authorized = @ + 1]
        BY DEF Authorize
      <3> HIDE DEF t, s
      <3> QED BY <3>1, <3>2 DEF SigType
    <2> HIDE DEF s
    <2> QED BY <1>1, <2>1 DEF Handleable, SigType
  <1> HIDE DEF s
  <1> QED BY <1>2, <1>3, OnSigusr1Inv DEF Inv, SignalInv

(* An action that leaves the signals alone.                                *)
LEMMA SignalStutterInv ==
    ASSUME SignalInv, UNCHANGED signalVars, requests' = requests
    PROVE  SignalInv' /\ owed' = owed
  BY DEF SignalInv, SignalType, SignalsBalanced, PollersCounted, signalVars

-----------------------------------------------------------------------------
(* One lemma per group of actions.                                         *)
LEMMA CountingHolds ==
    ASSUME Inv
    PROVE  /\ requests' = requests => Counting
           /\ CountRequest => Counting /\ requests' = requests + 1
  BY BoundsAssumption DEF Inv, LoopInv, LoopType, Counting, CountRequest

LEMMA ScheduleInv == ASSUME Inv, Schedule PROVE Inv'
  <1>1. Counting /\ requests' = requests + 1
    BY CountingHolds DEF Schedule
  <1>2. LoopInv'
    BY <1>1, LoopStutterInv DEF Schedule, Inv
  <1>3. SignalInv'
    BY <1>1, BoundsAssumption
       DEF Schedule, Inv, LoopInv, LoopType, SignalInv, SignalType, SignalsBalanced,
           PollersCounted
  <1> QED BY <1>2, <1>3 DEF Inv

(* Emitting, with the pollers and config pollers that remain.              *)
LEMMA EmitStepInv ==
    ASSUME Inv, EmitGatewayRestart, done' = done, Counting, loop # "exited",
           pollers' \in 0 .. MaxRequests, pollers' <= requests',
           configPollers' \in SUBSET (1 .. MaxIterations)
    PROVE  Inv'
  <1>1. /\ LoopInv' /\ timer' = FALSE /\ sig' \in SigType /\ SignalsBalanced'
        /\ promised' \in 0 .. MaxIterations
    BY EmitInv
  <1>2. SignalType'
    BY <1>1 DEF SignalType, SigType
  <1>3. PollersCounted'
    BY <1>1 DEF PollersCounted
  <1> QED BY <1>1, <1>2, <1>3 DEF Inv, SignalInv

LEMMA PollersFacts ==
    ASSUME Inv
    PROVE  /\ pollers \in 0 .. MaxRequests /\ pollers <= requests
           /\ requests \in 0 .. MaxRequests /\ MaxRequests \in Nat
           /\ configPollers \in SUBSET (1 .. MaxIterations)
           /\ iteration \in 1 .. MaxIterations
           /\ timer => pollers + 1 <= requests
  BY BoundsAssumption
     DEF Inv, LoopInv, LoopType, SignalInv, SignalType, PollersCounted

LEMMA TimerFiresInv == ASSUME Inv, TimerFires PROVE Inv'
  <1>1. timer /\ loop # "exited" /\ UNCHANGED <<done, configPollers, requests>> /\ Counting
    BY CountingHolds DEF TimerFires
  <1>2. CASE Pending = 0
    <2>1. EmitGatewayRestart /\ pollers' = pollers
      BY <1>2 DEF TimerFires
    <2> QED BY <1>1, <2>1, PollersFacts, EmitStepInv
  <1>3. CASE Pending # 0
    <2>1. /\ timer' = FALSE /\ pollers' = pollers + 1
          /\ UNCHANGED <<sig, promised, owed, loopVars>>
      BY <1>3 DEF TimerFires
    <2>2. LoopInv'
      BY <1>1, <2>1, LoopStutterInv DEF Inv
    <2>3. pollers' \in 0 .. MaxRequests /\ pollers' <= requests'
      BY <1>1, <2>1, PollersFacts
    <2>4. SignalInv'
      BY <1>1, <2>1, <2>3
         DEF Inv, SignalInv, SignalType, SignalsBalanced, PollersCounted
    <2> QED BY <2>2, <2>4 DEF Inv
  <1> QED BY <1>2, <1>3

LEMMA PollEmitsInv == ASSUME Inv, PollEmits PROVE Inv'
  <1>1. /\ EmitGatewayRestart /\ loop # "exited" /\ Counting
        /\ pollers > 0 /\ pollers' = pollers - 1
        /\ UNCHANGED <<done, configPollers, requests>>
    BY CountingHolds DEF PollEmits
  <1>2. pollers' \in 0 .. MaxRequests /\ pollers' <= requests'
    BY <1>1, PollersFacts
  <1> QED BY <1>1, <1>2, PollersFacts, EmitStepInv

LEMMA ConfigChangeInv == ASSUME Inv, ConfigChange PROVE Inv'
  <1>1. /\ Counting /\ requests' = requests + 1
        /\ loop # "exited" /\ UNCHANGED <<done, pollers>>
    BY CountingHolds DEF ConfigChange
  <1>2. CASE Pending = 0
    <2>1. EmitGatewayRestart /\ configPollers' = configPollers
      BY <1>2 DEF ConfigChange
    <2>2. pollers' \in 0 .. MaxRequests /\ pollers' <= requests'
      BY <1>1, PollersFacts
    <2> QED BY <1>1, <2>1, <2>2, PollersFacts, EmitStepInv
  <1>3. CASE Pending # 0
    <2>1. /\ configPollers' = configPollers \cup {iteration}
          /\ UNCHANGED <<sig, timer, promised, owed, loopVars>>
      BY <1>3 DEF ConfigChange
    <2>2. LoopInv'
      BY <1>1, <2>1, LoopStutterInv DEF Inv
    <2>3. configPollers' \in SUBSET (1 .. MaxIterations)
      BY <2>1, PollersFacts
    <2>4. PollersCounted'
      BY <1>1, <2>1, PollersFacts DEF Inv, SignalInv, PollersCounted
    <2>5. SignalInv'
      BY <1>1, <2>1, <2>3, <2>4
         DEF Inv, SignalInv, SignalType, SignalsBalanced
    <2> QED BY <2>2, <2>5 DEF Inv
  <1> QED BY <1>2, <1>3

LEMMA ConfigPollEmitsInv == ASSUME Inv, ConfigPollEmits PROVE Inv'
  <1>1. /\ EmitGatewayRestart /\ loop # "exited" /\ Counting
        /\ configPollers' \in SUBSET configPollers
        /\ UNCHANGED <<done, pollers, requests>>
    BY CountingHolds DEF ConfigPollEmits
  <1> QED BY <1>1, PollersFacts, EmitStepInv

LEMMA ExternalSigusr1Inv == ASSUME Inv, ExternalSigusr1 PROVE Inv'
  <1>1. /\ OnSigusr1(sig) /\ loop # "exited" /\ Counting /\ requests' = requests + 1
        /\ UNCHANGED <<done, timer, pollers, configPollers>>
    BY CountingHolds DEF ExternalSigusr1
  <1>2. Handleable(sig)
    BY DEF Inv, SignalInv, SignalType, SignalsBalanced, Handleable, SigType
  <1>3. /\ LoopInv' /\ sig' \in SigType /\ SignalsBalanced'
        /\ promised' \in 0 .. MaxIterations
    BY <1>1, <1>2, OnSigusr1Inv DEF Inv, SignalInv
  <1>4. PollersCounted'
    BY <1>1, PollersFacts DEF Inv, SignalInv, PollersCounted
  <1>5. SignalType'
    BY <1>1, <1>3 DEF Inv, SignalInv, SignalType, SigType
  <1> QED BY <1>3, <1>4, <1>5 DEF Inv, SignalInv

LEMMA SigtermInv == ASSUME Inv, Sigterm PROVE Inv'
  <1>1. /\ Request("stop") /\ loop # "exited" /\ Counting
        /\ UNCHANGED <<done, signalVars, requests>>
    BY CountingHolds DEF Sigterm
  <1>2. SignalInv' /\ owed' = owed
    BY <1>1, SignalStutterInv DEF Inv
  <1> QED BY <1>1, <1>2, RequestInv DEF Inv

LEMMA StartInv == ASSUME Inv, StartDone \/ StartFails PROVE Inv'
  <1>1. Counting /\ SignalInv' /\ owed' = owed /\ owed \subseteq Tasks
    BY CountingHolds, SignalStutterInv DEF StartDone, StartFails, Inv, LoopInv, DrainsOwed
  <1>2. CASE StartFails
    BY <1>1, <1>2, ExitInv DEF StartFails, Inv
  <1>3. CASE StartDone
    <2>1. /\ loop = "starting"
          /\ loop' = "up" /\ server' = TRUE /\ live' = live + 1 /\ resolver' = "fresh"
          /\ UNCHANGED <<iteration, shutdown, active, stale, seen, done, signalVars,
                         requests>>
      BY <1>3 DEF StartDone
    <2>2. live' = 1
      BY <2>1 DEF Inv, LoopInv, LoopAgrees
    <2>3. LoopType'
      BY <2>1, <2>2 DEF Inv, LoopInv, LoopType
    <2>4. LoopAgrees' /\ DrainsOwed'
      BY <1>1, <2>1, <2>2 DEF Inv, LoopInv, LoopAgrees, DrainsOwed
    <2> QED BY <1>1, <2>3, <2>4 DEF Inv, LoopInv
  <1> QED BY <1>2, <1>3

LEMMA DeadlinePassesInv == ASSUME Inv, DeadlinePasses PROVE Inv'
  <1>1. /\ shutdown' = [shutdown EXCEPT !.expired = TRUE]
        /\ UNCHANGED <<loop, iteration, server, live, resolver, active, stale, seen,
                       done, signalVars, requests>>
    BY DEF DeadlinePasses
  <1>2. SignalInv' /\ owed' = owed
    BY <1>1, SignalStutterInv DEF Inv
  <1>3. LoopType'
    BY <1>1 DEF Inv, LoopInv, LoopType
  <1>4. /\ shutdown'.phase = shutdown.phase /\ shutdown'.kind = shutdown.kind
        /\ shutdown'.waitFor = shutdown.waitFor /\ shutdown'.expired
        /\ shutdown.phase = "draining"
    BY <1>1 DEF Inv, LoopInv, LoopType, DeadlinePasses
  <1>5. LoopAgrees' /\ DrainsOwed'
    BY <1>1, <1>2, <1>4, NoShutdownFacts DEF Inv, LoopInv, LoopAgrees, DrainsOwed
  <1> QED BY <1>2, <1>3, <1>5 DEF Inv, LoopInv

LEMMA ShutdownInv == ASSUME Inv, DrainEnds \/ CloseEnds \/ ForceExit PROVE Inv'
  <1> DEFINE kind == shutdown.kind
  <1>1. Counting /\ UNCHANGED <<done, signalVars, requests>>
    BY CountingHolds DEF DrainEnds, CloseEnds, ForceExit
  <1>2. loop # "exited"
    BY NoShutdownFacts DEF DrainEnds, CloseEnds, ForceExit, Inv, LoopInv, LoopAgrees
  <1>3. SignalInv' /\ owed' = owed /\ owed \subseteq Tasks
    BY <1>1, SignalStutterInv DEF Inv, LoopInv, DrainsOwed
  <1>4. CASE DrainEnds
    <2>1. /\ Close(kind, shutdown.waitFor, shutdown.expired)
          /\ shutdown.phase = "draining" /\ (~HasPending \/ shutdown.expired)
      BY <1>4 DEF DrainEnds
    <2>2. /\ owed' \subseteq active \cup stale \cup done
          /\ ~shutdown.expired => owed' \cap active = {}
      BY <1>3, <2>1 DEF Inv, LoopInv, DrainsOwed, HasPending
    <2>3. kind \in Kinds /\ shutdown.waitFor \in SUBSET Tasks /\ shutdown.expired \in BOOLEAN
      BY DEF Inv, LoopInv, LoopType, Kinds
    <2> QED BY <1>1, <1>2, <1>3, <2>1, <2>2, <2>3, CloseInv DEF Inv
  <1>5. CASE CloseEnds
    BY <1>1, <1>2, <1>3, <1>5, FinallyInv DEF CloseEnds, Inv
  <1>6. CASE ForceExit
    BY <1>1, <1>3, <1>6, ExitInv DEF ForceExit, Inv
  <1> QED BY <1>4, <1>5, <1>6

LEMMA TaskInv ==
    ASSUME Inv, NEW t \in Tasks, TaskStarts(t) \/ TaskEnds(t)
    PROVE  Inv'
  <1>1. /\ UNCHANGED <<loop, iteration, server, live, resolver, shutdown, seen,
                       signalVars, requests>>
    BY DEF TaskStarts, TaskEnds
  <1>2. \/ /\ t \notin active \cup stale \cup done /\ active' = active \cup {t}
           /\ UNCHANGED <<stale, done>>
        \/ /\ active' = active \ {t} /\ stale' = stale \ {t} /\ done' = done \cup {t}
    BY DEF TaskStarts, TaskEnds
  <1>3. LoopType'
    BY <1>1, <1>2 DEF Inv, LoopInv, LoopType
  <1>4. LoopAgrees'
    BY <1>1 DEF Inv, LoopInv, LoopAgrees
  <1>5. SignalInv' /\ owed' = owed
    BY <1>1, SignalStutterInv DEF Inv
  <1>6. DrainsOwed'
    BY <1>1, <1>2, <1>5 DEF Inv, LoopInv, DrainsOwed
  <1> QED BY <1>3, <1>4, <1>5, <1>6 DEF Inv, LoopInv

-----------------------------------------------------------------------------
LEMMA InitInv == Init => Inv
  <1> SUFFICES ASSUME Init PROVE Inv
    OBVIOUS
  <1>1. LoopType
    BY NoShutdownFacts, BoundsAssumption DEF Init, LoopType
  <1>2. LoopAgrees
    BY NoShutdownFacts DEF Init, LoopAgrees
  <1>3. DrainsOwed
    BY NoShutdownFacts DEF Init, DrainsOwed
  <1>4. SignalType
    <2>1. /\ sig \in [authorized : Nat, emitted : Nat, consumed : Nat]
          /\ pollers \in 0 .. MaxRequests /\ promised \in 0 .. MaxIterations
          /\ configPollers \subseteq 1 .. MaxIterations
      BY BoundsAssumption DEF Init
    <2>2. timer \in BOOLEAN
      BY DEF Init
    <2> QED BY <2>1, <2>2 DEF SignalType
  <1>5. SignalsBalanced /\ PollersCounted
    BY DEF Init, SignalsBalanced, PollersCounted
  <1> QED BY <1>1, <1>2, <1>3, <1>4, <1>5 DEF Inv, LoopInv, SignalInv

LEMMA NextInv == Inv /\ [Next]_vars => Inv'
  <1> SUFFICES ASSUME Inv, [Next]_vars PROVE Inv'
    OBVIOUS
  <1>1. CASE Schedule
    BY <1>1, ScheduleInv
  <1>2. CASE TimerFires \/ PollEmits
    BY <1>2, TimerFiresInv, PollEmitsInv
  <1>3. CASE ConfigChange \/ ConfigPollEmits
    BY <1>3, ConfigChangeInv, ConfigPollEmitsInv
  <1>4. CASE ExternalSigusr1 \/ Sigterm
    BY <1>4, ExternalSigusr1Inv, SigtermInv
  <1>5. CASE StartDone \/ StartFails
    BY <1>5, StartInv
  <1>6. CASE DeadlinePasses \/ DrainEnds \/ CloseEnds \/ ForceExit
    BY <1>6, DeadlinePassesInv, ShutdownInv
  <1>7. CASE \E t \in Tasks : TaskStarts(t) \/ TaskEnds(t)
    BY <1>7, TaskInv
  <1>8. CASE UNCHANGED vars
    <2>1. UNCHANGED loopVars /\ UNCHANGED signalVars /\ UNCHANGED <<done, requests>>
      BY <1>8 DEF vars
    <2>2. SignalInv' /\ owed' = owed
      BY <2>1, SignalStutterInv DEF Inv
    <2> QED BY <2>1, <2>2, CountingHolds, LoopStutterInv DEF Inv
  <1> QED BY <1>1, <1>2, <1>3, <1>4, <1>5, <1>6, <1>7, <1>8 DEF Next

(* The inductive invariant holds in every reachable state: the loop and    *)
(* the restart signals of run-loop.ts and restart.ts stay consistent.      *)
THEOREM SpecInv == Spec => []Inv
  BY InitInv, NextInv, PTL DEF Spec

-----------------------------------------------------------------------------
(* The variables of the run loop and of restart.ts keep their types, and   *)
(* the counters their bounds (restart.ts 23-33, run-loop.ts 20-30).        *)
THEOREM SpecTypeOK == Spec => []TypeOK
  <1>1. Inv => TypeOK
    BY DEF Inv, LoopInv, LoopType, LoopAgrees, DrainsOwed, SignalInv, SignalType, TypeOK
  <1> QED BY <1>1, SpecInv, PTL

(* However requests, timers, polls and signals interleave, no restart      *)
(* cycle stays unconsumed and no authorization is left over                *)
(* (restart.ts 103-125, 155-176).                                          *)
THEOREM SpecSignalsBalanced == Spec => []SignalsBalanced
  <1>1. Inv => SignalsBalanced
    BY DEF Inv, SignalInv
  <1> QED BY <1>1, SpecInv, PTL

(* At most one server is alive, and it is the one the loop would close     *)
(* (run-loop.ts 76-111, 153-159).                                          *)
THEOREM SpecOneServer == Spec => []OneServer
  <1>1. Inv => OneServer
    BY DEF Inv, LoopInv, LoopAgrees, OneServer
  <1> QED BY <1>1, SpecInv, PTL

(* An idle loop that is not starting serves, and can be woken for the next *)
(* restart (run-loop.ts 82-105, 155-158).                                  *)
THEOREM SpecServingWhenIdle == Spec => []ServingWhenIdle
  <1>1. Inv => ServingWhenIdle
    BY DEF Inv, LoopInv, LoopAgrees, ServingWhenIdle
  <1> QED BY <1>1, SpecInv, PTL

(* In every reachable state a step that takes a restart out of its phase   *)
(* over a task it owes finds the drain's deadline passed, or is a start()  *)
(* that failed.                                                            *)
LEMMA DrainStepHolds == Inv /\ [Next]_vars => [DrainStep]_vars
  <1> SUFFICES ASSUME Inv, Next, shutdown.kind = "restart", owed \cap active # {},
                      shutdown'.phase # shutdown.phase
               PROVE  shutdown.expired \/ (loop = "starting" /\ loop' = "exited")
    BY DEF DrainStep
  <1>1. /\ shutdown.phase \in {"draining", "closing"}
        /\ shutdown.phase = "draining" => shutdown.waitFor = owed
        /\ shutdown.phase = "closing" => shutdown.expired
    BY DEF Inv, LoopInv, LoopType, DrainsOwed
  <1>2. \A kind : Request(kind) => shutdown' = shutdown
    BY <1>1 DEF Request, loopVars
  <1>3. \A s : OnSigusr1(s) => shutdown' = shutdown
    BY <1>2 DEF OnSigusr1, loopVars
  <1>4. EmitGatewayRestart => shutdown' = shutdown
    BY <1>3 DEF EmitGatewayRestart, loopVars
  <1>5. CASE Schedule \/ TimerFires \/ PollEmits \/ ConfigChange \/ ConfigPollEmits
    BY <1>4, <1>5 DEF Schedule, TimerFires, PollEmits, ConfigChange, ConfigPollEmits, loopVars
  <1>6. CASE ExternalSigusr1 \/ Sigterm
    BY <1>2, <1>3, <1>6 DEF ExternalSigusr1, Sigterm
  <1>7. CASE StartDone \/ StartFails
    BY <1>7 DEF StartDone, StartFails, Exit
  <1>8. CASE DeadlinePasses
    BY <1>8 DEF DeadlinePasses, Inv, LoopInv, LoopType
  <1>9. CASE DrainEnds \/ CloseEnds \/ ForceExit
    BY <1>1, <1>9 DEF DrainEnds, CloseEnds, ForceExit, HasPending
  <1>10. CASE \E t \in Tasks : TaskStarts(t) \/ TaskEnds(t)
    BY <1>10 DEF TaskStarts, TaskEnds
  <1> QED BY <1>5, <1>6, <1>7, <1>8, <1>9, <1>10 DEF Next

(* No restart closes the server, ends the process or goes on to the next   *)
(* iteration over a task that was active when it was accepted, unless the  *)
(* deadline of its drain has passed, whatever starts, ends or signals in   *)
(* the meantime (run-loop.ts 58-79, command-queue.ts 243-286).             *)
THEOREM SpecDrainBeforeClose == Spec => DrainBeforeClose
  BY SpecInv, DrainStepHolds, PTL DEF Spec, DrainBeforeClose

(* There is one server or none, the loop knows it, and between shutdowns   *)
(* it stands (run-loop.ts 76-111, 153-159).                                *)
THEOREM SpecServerStands == Spec => []ServerStands
  <1>1. TypeOK /\ OneServer /\ ServingWhenIdle => ServerStands
    BY DEF ServerStands
  <1> QED BY <1>1, SpecTypeOK, SpecOneServer, SpecServingWhenIdle, PTL
=============================================================================
