--------------------------- MODULE ClusterLeader ----------------------------
(***************************************************************************)
(* Leader election among gateway nodes over a lock in Redis:               *)
(* RedisCoordinator and initCluster of src/enterprise/cluster/index.ts.    *)
(*                                                                         *)
(* A heartbeat interval calls registerNode, which tries to take the lock   *)
(* (SET NX EX) or looks who holds it (GET); a node that leads re-creates   *)
(* its renewal interval, whose callback extends the lock (GET, SET XX).    *)
(* Heartbeats and renewals overlap: each is a chain of commands, and the   *)
(* connection of a node answers commands in the order they were sent.  A   *)
(* step is what happens between two awaits, or in Redis.                   *)
(*                                                                         *)
(* Time is counted in heartbeat periods.  Within a period everything is    *)
(* interleaved, so a timer and an answer that fall into one period may     *)
(* come in either order.  Nodes and connections that are not disturbed     *)
(* finish within the period; a stalled node (a paused process, a slow      *)
(* connection) may take any number of them, and on a lost connection every *)
(* command fails.                                                          *)
(***************************************************************************)
EXTENDS Naturals, Sequences

CONSTANTS
    Nodes,     \* the node ids
    NoNode,    \* the lock is free
    Ttl,       \* expiry of the lock, in heartbeat periods
    MaxPipe,   \* bound on the commands of a node in flight
    Faulty,    \* the nodes that may crash, stall or lose their connection
    MaxFaults  \* bound on how often they do

ASSUME ClusterAssumption ==
    /\ NoNode \notin Nodes /\ Faulty \subseteq Nodes
    /\ (Nodes \cup {NoNode}) \cap {"none", "ok"} = {}
    /\ Ttl \in Nat \ {0} /\ MaxPipe \in Nat \ {0} /\ MaxFaults \in Nat

VARIABLES
    leaderKey, \* the value of the leader key: its nodeId, or NoNode
    ttl,       \* periods until the key expires
    state,     \* of a node: "out", "joining", "up", "leaving", "quitting"
    isLeader,  \* _isLeader
    timer,     \* lockRenewalTimer: "off", "armed", or "due" in this period
    beat,      \* the heartbeat of this period has fired, or the node started
    pipe,      \* commands in flight, with their reply
    cut,       \* nodes whose connection is lost
    stalled,   \* nodes that may take more than a period
    faults,    \* crashes, stalls and lost connections so far
    wrongFor,  \* history: periods that ended while a node was mistaken
    unarmed,   \* history: periods that ended while a leader had no renewal interval
    leadCut    \* history: periods that ended while a leader was cut off

nodeVars == <<state, isLeader, timer, beat, pipe>>
system == <<leaderKey, ttl, nodeVars, cut, stalled, faults>>
clusterVars == <<system, wrongFor, unarmed, leadCut>>

Unanswered == "none"

(* "delnode" touches nothing but the node's own key, which nothing here    *)
(* depends on, so its answer is known when it is sent.                     *)
Command(c) == [cmd |-> c, reply |-> IF c = "delnode" THEN "ok" ELSE Unanswered]

ClusterInit ==
    /\ leaderKey = NoNode /\ ttl = 0
    /\ state = [n \in Nodes |-> "out"]
    /\ isLeader = [n \in Nodes |-> FALSE]
    /\ timer = [n \in Nodes |-> "off"]
    /\ beat = [n \in Nodes |-> FALSE]
    /\ pipe = [n \in Nodes |-> <<>>]
    /\ cut = {} /\ stalled = {} /\ faults = 0
    /\ wrongFor = [n \in Nodes |-> 0] /\ unarmed = wrongFor /\ leadCut = wrongFor

-----------------------------------------------------------------------------
(* Redis.                                                                  *)

LeaderKeyTtl == Ttl

(* The commands on the leader key: SET NX EX ("nx"), GET of a heartbeat    *)
(* and of a renewal ("get", "rget"), SET XX EX ("rset") and DEL            *)
(* ("dellock").  The write of the node's own key before "nx" is left out.  *)
Execute(n) ==
    /\ n \notin cut
    /\ \E i \in DOMAIN pipe[n] :
         LET c == pipe[n][i].cmd
             Takes == \/ c = "nx" /\ leaderKey = NoNode
                      \/ c = "rset" /\ leaderKey # NoNode
         IN
         /\ pipe[n][i].reply = Unanswered
         /\ \A j \in 1 .. i - 1 : pipe[n][j].reply # Unanswered
         /\ leaderKey' = IF Takes THEN n ELSE IF c = "dellock" THEN NoNode ELSE leaderKey
         /\ ttl' = IF Takes THEN LeaderKeyTtl ELSE IF c = "dellock" THEN 0 ELSE ttl
         /\ pipe' = [pipe EXCEPT ![n][i].reply =
                        CASE c \in {"get", "rget"} -> leaderKey
                          [] c = "nx" /\ ~Takes -> NoNode
                          [] OTHER -> "ok"]
    /\ UNCHANGED <<state, isLeader, timer, beat, cut, stalled, faults>>

Expire ==
    /\ leaderKey # NoNode /\ ttl = 0
    /\ leaderKey' = NoNode
    /\ UNCHANGED <<ttl, nodeVars, cut, stalled, faults>>

-----------------------------------------------------------------------------
(* The continuations: what a node does with the first answer.              *)

First(n) == Head(pipe[n])
Answered(n, c) == pipe[n] # <<>> /\ First(n).cmd = c /\ First(n).reply # Unanswered

Then(n, c) == pipe' = [pipe EXCEPT ![n] = Append(Tail(@), Command(c))]
Done(n) == pipe' = [pipe EXCEPT ![n] = Tail(@)]

(* registerNode returns, and initCluster starts the heartbeat, which fires *)
(* first a period later.                                                   *)
Registered(n) ==
    IF state[n] = "joining"
    THEN state' = [state EXCEPT ![n] = "up"] /\ beat' = [beat EXCEPT ![n] = TRUE]
    ELSE UNCHANGED <<state, beat>>

(* the end of tryAcquireLeadership: a leader starts its renewal interval   *)
(* anew                                                                    *)
Acquired(n, leads) ==
    /\ isLeader' = [isLeader EXCEPT ![n] = leads]
    /\ timer' = IF leads THEN [timer EXCEPT ![n] = "armed"] ELSE timer
    /\ Registered(n)
    /\ Done(n)

(* [mutant] a node that leads does not learn that another node does *)
BelievesOn(n, holder) == isLeader[n] \/ holder = n

(* Who leads, by the value of the key; nobody's key changes no belief.     *)
Believes(n, holder) == IF holder = NoNode THEN isLeader[n] ELSE holder = n

NxReplies(n) ==
    /\ Answered(n, "nx")
    /\ IF First(n).reply = "ok" THEN Acquired(n, TRUE)
       ELSE Then(n, "get") /\ UNCHANGED <<state, isLeader, timer, beat>>

GetReplies(n) ==
    /\ Answered(n, "get")
    /\ Acquired(n, Believes(n, First(n).reply))

(* The renewal: extend the lock if it is still held, else stand down.      *)
RgetReplies(n) ==
    /\ Answered(n, "rget")
    /\ CASE First(n).reply = n -> Then(n, "rset") /\ UNCHANGED <<isLeader, timer>>
         [] First(n).reply = NoNode -> Done(n) /\ UNCHANGED <<isLeader, timer>>
         [] OTHER -> /\ isLeader' = [isLeader EXCEPT ![n] = FALSE]
                     /\ timer' = [timer EXCEPT ![n] = "off"]
                     /\ Done(n)
    /\ UNCHANGED <<state, beat>>

(* whatever SET XX answered *)
RsetReplies(n) ==
    /\ Answered(n, "rset")
    /\ isLeader' = [isLeader EXCEPT ![n] = TRUE]
    /\ Done(n)
    /\ UNCHANGED <<state, timer, beat>>

(* removeNode: a node that believes it leads deletes the lock.             *)
Removed(n) ==
    /\ timer' = [timer EXCEPT ![n] = "off"]
    /\ state' = [state EXCEPT ![n] = "quitting"]
    /\ Done(n)

DelnodeReplies(n) ==
    /\ Answered(n, "delnode")
    /\ IF isLeader[n] THEN Then(n, "dellock") /\ UNCHANGED <<state, timer>>
       ELSE Removed(n)
    /\ UNCHANGED <<isLeader, beat>>

DellockReplies(n) ==
    /\ Answered(n, "dellock")
    /\ isLeader' = [isLeader EXCEPT ![n] = FALSE]
    /\ Removed(n)
    /\ UNCHANGED beat

Reply(n) ==
    /\ \/ NxReplies(n) \/ GetReplies(n) \/ RgetReplies(n) \/ RsetReplies(n)
       \/ DelnodeReplies(n) \/ DellockReplies(n)
    /\ UNCHANGED <<leaderKey, ttl, cut, stalled, faults>>

YieldOnRenewalError(n) == isLeader' = [isLeader EXCEPT ![n] = FALSE]

(* On a lost connection the first command fails, executed or not.  Errors  *)
(* of a heartbeat are swallowed, a renewal yields and keeps its interval,  *)
(* a start fails, and so does a removal, after shutdown cleared the timer. *)
Fail(n) ==
    /\ n \in cut /\ pipe[n] # <<>>
    /\ LET c == First(n).cmd IN
       /\ IF c \in {"rget", "rset"} THEN YieldOnRenewalError(n) ELSE UNCHANGED isLeader
       /\ state' = IF \/ state[n] = "joining" \/ c \in {"delnode", "dellock"}
                   THEN [state EXCEPT ![n] = "quitting"] ELSE state
    /\ Done(n)
    /\ UNCHANGED <<leaderKey, ttl, timer, beat, cut, stalled, faults>>

-----------------------------------------------------------------------------
(* The intervals of a node, its start and its end.                         *)

Send(n, c) == /\ Len(pipe[n]) < MaxPipe
              /\ pipe' = [pipe EXCEPT ![n] = Append(@, Command(c))]

(* initCluster, of a node that is new or comes back with its nodeId; once  *)
(* a period at most, a node that beat or started before does not start.    *)
Join(n) ==
    /\ state[n] = "out" /\ ~beat[n]
    /\ state' = [state EXCEPT ![n] = "joining"]
    /\ beat' = [beat EXCEPT ![n] = TRUE]
    /\ Send(n, "nx")
    /\ UNCHANGED <<leaderKey, ttl, isLeader, timer, cut, stalled, faults>>

(* [mutant] followers do not try to take the lock *)
BeatOfLeader(n) ==
    /\ state[n] = "up" /\ ~beat[n]
    /\ beat' = [beat EXCEPT ![n] = TRUE]
    /\ IF isLeader[n] THEN Send(n, "nx") ELSE UNCHANGED pipe
    /\ UNCHANGED <<leaderKey, ttl, state, isLeader, timer, cut, stalled, faults>>

Beat(n) ==
    /\ state[n] = "up" /\ ~beat[n]
    /\ beat' = [beat EXCEPT ![n] = TRUE]
    /\ Send(n, "nx")
    /\ UNCHANGED <<leaderKey, ttl, state, isLeader, timer, cut, stalled, faults>>

(* The callback of the renewal interval, which goes on.                    *)
RenewFires(n) ==
    /\ timer[n] = "due"
    /\ timer' = [timer EXCEPT ![n] = "armed"]
    /\ Send(n, "rget")
    /\ UNCHANGED <<leaderKey, ttl, state, isLeader, beat, cut, stalled, faults>>

(* shutdown: both intervals are cleared, then removeNode *)
Leave(n) ==
    /\ state[n] = "up"
    /\ state' = [state EXCEPT ![n] = "leaving"]
    /\ timer' = [timer EXCEPT ![n] = "off"]
    /\ Send(n, "delnode")
    /\ UNCHANGED <<leaderKey, ttl, isLeader, beat, cut, stalled, faults>>

(* The coordinator and its connection are gone: after redis.quit, which    *)
(* lets what is in flight finish, or in a crash, where what Redis has not  *)
(* executed is lost.                                                       *)
Disconnect(n) ==
    /\ state' = [state EXCEPT ![n] = "out"]
    /\ isLeader' = [isLeader EXCEPT ![n] = FALSE]
    /\ timer' = [timer EXCEPT ![n] = "off"]
    /\ pipe' = [pipe EXCEPT ![n] = <<>>]
    /\ UNCHANGED <<leaderKey, ttl, beat>>

Quit(n) ==
    /\ state[n] = "quitting" /\ pipe[n] = <<>>
    /\ Disconnect(n)
    /\ UNCHANGED <<cut, stalled, faults>>

-----------------------------------------------------------------------------
(* Faults.                                                                 *)

Fault(n) == n \in Faulty /\ faults < MaxFaults /\ faults' = faults + 1

NodeCrash(n) == state[n] # "out" /\ Fault(n) /\ Disconnect(n) /\ UNCHANGED <<cut, stalled>>

Cut(n) == /\ n \notin cut /\ Fault(n) /\ cut' = cut \cup {n}
          /\ UNCHANGED <<leaderKey, ttl, nodeVars, stalled>>

(* what was in flight has failed *)
Reconnect(n) == /\ n \in cut /\ pipe[n] = <<>> /\ cut' = cut \ {n}
                /\ UNCHANGED <<leaderKey, ttl, nodeVars, stalled, faults>>

Stall(n) == /\ n \notin stalled /\ Fault(n) /\ stalled' = stalled \cup {n}
            /\ UNCHANGED <<leaderKey, ttl, nodeVars, cut>>

Resume(n) == /\ n \in stalled /\ stalled' = stalled \ {n}
             /\ UNCHANGED <<leaderKey, ttl, nodeVars, cut, faults>>

-----------------------------------------------------------------------------
(* Time.                                                                   *)

(* A node has done what falls into this period.                            *)
Settled(n) ==
    /\ pipe[n] = <<>> /\ timer[n] # "due"
    /\ state[n] \in {"out", "up"}
    /\ state[n] = "up" => beat[n]

Tick ==
    /\ \A n \in Nodes \ stalled : Settled(n)
    /\ leaderKey # NoNode => ttl > 0
    /\ ttl' = IF ttl > 0 THEN ttl - 1 ELSE 0
    /\ beat' = [n \in Nodes |-> FALSE]
    /\ timer' = [n \in Nodes |-> IF timer[n] = "armed" THEN "due" ELSE timer[n]]
    /\ UNCHANGED <<leaderKey, state, isLeader, pipe, cut, stalled, faults>>

Undisturbed(n) == n \notin stalled \cup cut /\ state[n] = "up"

(* A node leads although another holds the lock, or holds it and does not  *)
(* lead; it holds the lock and leads, but without a renewal interval.  A   *)
(* leader with an interval need not renew either: each heartbeat sets the  *)
(* interval, of the same length, anew, and if it always does so before the *)
(* interval fires, the lock expires under a healthy leader.                *)
Mistaken(n) == \/ isLeader[n] /\ leaderKey \notin {n, NoNode}
               \/ leaderKey = n /\ ~isLeader[n]
Disarmed(n) == leaderKey = n /\ isLeader[n] /\ timer[n] = "off"

(* A leader without connection, but with its renewal interval.             *)
LeadsCutOff(n) ==
    n \in cut \ stalled /\ isLeader[n] /\ (state[n] = "up" => timer[n] # "off")

(* How many periods ended while something held without interruption; the   *)
(* count stops at 3, beyond what is claimed.                               *)
Count(before, ticks, holds) ==
    IF ~holds THEN 0 ELSE IF before = 3 THEN 3 ELSE before + ticks

Remember(ticks) ==
    /\ wrongFor' = [n \in Nodes |->
                       Count(wrongFor[n], ticks, Undisturbed(n)' /\ Mistaken(n)')]
    /\ unarmed' = [n \in Nodes |->
                      Count(unarmed[n], ticks, Undisturbed(n)' /\ Disarmed(n)')]
    /\ leadCut' = [n \in Nodes |-> Count(leadCut[n], ticks, LeadsCutOff(n)')]

Step(n) ==
    \/ Execute(n) \/ Reply(n) \/ Fail(n)
    \/ Join(n) \/ Beat(n) \/ RenewFires(n) \/ Leave(n) \/ Quit(n)
    \/ NodeCrash(n) \/ Cut(n) \/ Reconnect(n) \/ Stall(n) \/ Resume(n)

ClusterNext ==
    \/ (Expire \/ \E n \in Nodes : Step(n)) /\ Remember(0)
    \/ Tick /\ Remember(1)

(* Redis executes what it receives and expires what is due; a process and  *)
(* its timers run on; time passes.  Nodes join, leave, fail and recover as *)
(* they like.                                                              *)
Progress(n) == Execute(n) \/ Reply(n) \/ Fail(n) \/ Beat(n) \/ RenewFires(n) \/ Quit(n)

ClusterFairness == WF_system(Expire \/ Tick) /\ \A n \in Nodes : WF_system(Progress(n))

ClusterSpec == ClusterInit /\ [][ClusterNext]_clusterVars /\ ClusterFairness

-----------------------------------------------------------------------------
(* Properties.                                                             *)

Commands == {"nx", "get", "rget", "rset", "delnode", "dellock"}
Replies == Nodes \cup {NoNode, Unanswered, "ok"}

(* The state of the coordinators and of the leader key (index.ts 128-235). *)
ClusterTypeOK ==
    /\ leaderKey \in Nodes \cup {NoNode} /\ ttl \in 0 .. Ttl
    /\ state \in [Nodes -> {"out", "joining", "up", "leaving", "quitting"}]
    /\ isLeader \in [Nodes -> BOOLEAN] /\ beat \in [Nodes -> BOOLEAN]
    /\ timer \in [Nodes -> {"off", "armed", "due"}]
    /\ pipe \in [Nodes -> Seq([cmd : Commands, reply : Replies])]
    /\ \A n \in Nodes : Len(pipe[n]) <= MaxPipe
    /\ cut \subseteq Nodes /\ stalled \subseteq Nodes /\ faults \in 0 .. MaxFaults
    /\ wrongFor \in [Nodes -> 0 .. 3] /\ unarmed \in [Nodes -> 0 .. 3]
    /\ leadCut \in [Nodes -> 0 .. 3]

(* A node whose process and connection are undisturbed does not stay       *)
(* mistaken about who leads over two ends of a period: neither does it     *)
(* lead on while another node holds the lock, nor does it hold the lock    *)
(* without leading, nor hold it and lead without a renewal interval        *)
(* (index.ts 156-178).  That the interval fires is not claimed: heartbeats *)
(* that re-arm it can keep it from that (index.ts 180-182).                *)
KnowsWhoLeads == \A n \in Nodes : wrongFor[n] <= 1 /\ unarmed[n] <= 1

(* A leader that loses its connection to Redis stops leading at its next   *)
(* renewal, "to prevent split-brain" (index.ts 197-201), as long as it has *)
(* a renewal interval: one that stood down and then heard that its last    *)
(* renewal succeeded leads without (index.ts 189-194).                     *)
CutOffYields == \A n \in Nodes : leadCut[n] <= 1

(* As long as some node stays up with its connection, however leaders      *)
(* crash, stall, are cut off or leave, the lock is held again and again:   *)
(* "any follower that wins the next SET NX becomes leader" (index.ts 13).  *)
LeaderAgain ==
    \A n \in Nodes : <>[]Undisturbed(n) => []<>(leaderKey # NoNode)

(* Whoever is wrong about the leader is corrected in time: by the          *)
(* heartbeat while Redis answers, by the failing renewal when it does not  *)
(* (index.ts 156-201).                                                     *)
LeadersCorrected == ClusterTypeOK /\ KnowsWhoLeads /\ CutOffYields

=============================================================================
