----------------------------- MODULE NodeCalls ------------------------------
(***************************************************************************)
(* Commands that an agent runs on a node: the approval record of           *)
(* src/gateway/exec-approval-manager.ts, the flow of                       *)
(* src/agents/bash-tools.exec-host-node.ts that waits for the decision,    *)
(* the handler of node.invoke with its wake of an absent node, its check   *)
(* of the approval (node-invoke-system-run-approval.ts), and the           *)
(* connections and pending invokes of src/gateway/node-registry.ts.        *)
(*                                                                         *)
(* One node that loses its connection without the gateway noticing and     *)
(* comes back on another.  A call stands for one command; its approval id  *)
(* is its own.  A message on a connection that is lost is lost.            *)
(***************************************************************************)
EXTENDS Naturals, FiniteSets

CONSTANTS
    Calls,       \* commands to run
    Asking,      \* those that need an approval
    Conns,       \* connections of the node over time: 1 .. n
    Fallbacks,   \* values of askFallback
    Unset

ASSUME CallAssumption == Asking \subseteq Calls
ASSUME ConnAssumption == Conns \subseteq Nat /\ Unset \notin Nat
ASSUME FallbackAssumption == Fallbacks \subseteq {"deny", "allowlist", "full"}
ASSUME UnsetAssumption == Unset \notin {"allow-once", "allow-always", "deny", "timeout"}

VARIABLES
    fallback,    \* askFallback of the agent
    stage,       \* stage[k]: what the call awaits
    outcome,     \* outcome[k]: how it ended
    approval,    \* approval[k]: its entry in the manager
    told,        \* told[k]: what its decision promise resolved to
    flag,        \* flag[k]: approvalDecision of its node.invoke
    conn,        \* conn[c]: "new", "open", "lost" (not yet noticed), "closed"
    session,     \* nodesById of the node
    sentOn,      \* sentOn[k]: the connection its request was sent on
    wire,        \* requests on their way to the node
    ran          \* ran[k]: the approval the node ran it with

approvalVars == <<approval, told>>
connVars == <<conn, session, wire, ran>>
nodeVars == <<fallback, stage, outcome, approval, told, flag, conn, session, sentOn, wire, ran>>

Allowed == {"allow-once", "allow-always"}
Decisions == Allowed \cup {"deny"}

(* A record: whether it is resolved, its decision, and whether its time of *)
(* expiry is ahead, now or past.                                           *)
Entry == [resolved : BOOLEAN, decision : Decisions \cup {Unset},
          clock : {"ahead", "now", "past"}]
Registered == {k \in Calls : approval[k] # Unset}
Pending(k) == k \in Registered /\ ~approval[k].resolved

InvokesPending == {k \in Calls : stage[k] = "pending"}

-----------------------------------------------------------------------------
(* The approval.                                                           *)

(* exec.approval.request, with register *)
Ask(k) ==
    /\ stage[k] = "new" /\ k \in Asking
    /\ stage' = [stage EXCEPT ![k] = "asking"]
    /\ approval' = [approval EXCEPT ![k] =
                      [resolved |-> FALSE, decision |-> Unset, clock |-> "ahead"]]
    /\ UNCHANGED <<outcome, told, flag, sentOn, connVars>>

Resolved(entry, decision) == [resolved |-> TRUE, decision |-> decision, clock |-> entry.clock]

(* [mutant] a decision after the timeout is still taken *)
ResolveAgain(k, decision) ==
    /\ k \in Registered
    /\ approval' = [approval EXCEPT ![k] = Resolved(@, decision)]
    /\ told' = [told EXCEPT ![k] = decision]
    /\ UNCHANGED <<stage, outcome, flag, sentOn, connVars>>

(* exec.approval.resolve *)
Resolve(k, decision) ==
    /\ Pending(k)
    /\ approval' = [approval EXCEPT ![k] = Resolved(@, decision)]
    /\ told' = [told EXCEPT ![k] = decision]
    /\ UNCHANGED <<stage, outcome, flag, sentOn, connVars>>

(* [mutant] a decision does not clear the timer *)
TimesOutAnyway(k) ==
    /\ k \in Registered /\ approval[k].clock # "ahead"
    /\ approval' = [approval EXCEPT ![k] = Resolved(@, Unset)]
    /\ told' = [told EXCEPT ![k] = IF @ = Unset THEN "timeout" ELSE @]
    /\ UNCHANGED <<stage, outcome, flag, sentOn, connVars>>

(* The timer of the entry. *)
TimesOut(k) ==
    /\ Pending(k) /\ approval[k].clock # "ahead"
    /\ approval' = [approval EXCEPT ![k] = Resolved(@, Unset)]
    /\ told' = [told EXCEPT ![k] = "timeout"]
    /\ UNCHANGED <<stage, outcome, flag, sentOn, connVars>>

(* The timer of the grace period. *)
GraceEnds(k) ==
    /\ k \in Registered /\ approval[k].resolved
    /\ approval' = [approval EXCEPT ![k] = Unset]
    /\ UNCHANGED <<stage, outcome, told, flag, sentOn, connVars>>

Clock(k) ==
    /\ k \in Registered /\ approval[k].clock # "past"
    /\ approval' = [approval EXCEPT ![k].clock = IF @ = "ahead" THEN "now" ELSE "past"]
    /\ UNCHANGED <<stage, outcome, told, flag, sentOn, connVars>>

-----------------------------------------------------------------------------
(* The flow of the command (executeNodeHostCommand).                       *)

End(k, how) ==
    /\ stage' = [stage EXCEPT ![k] = "ended"]
    /\ outcome' = [outcome EXCEPT ![k] = how]

(* The request for the decision fails: its connection is lost. *)
AskFails(k) ==
    /\ stage[k] = "asking"
    /\ End(k, "denied")
    /\ UNCHANGED <<approvalVars, flag, sentOn, connVars>>

Denied(k) == told[k] = "deny" \/ (told[k] = "timeout" /\ fallback = "deny")

(* [mutant] only a denial is taken for a denial *)
ToldAsks(k) ==
    /\ stage[k] = "asking" /\ told[k] # Unset
    /\ flag' = [flag EXCEPT ![k] = IF told[k] \in Allowed THEN told[k] ELSE Unset]
    /\ stage' = [stage EXCEPT ![k] = "invoking"]
    /\ UNCHANGED <<outcome, approvalVars, sentOn, connVars>>

(* The decision arrives: the command is denied, or goes to node.invoke     *)
(* with it, or without it when the node is to decide by its allowlist.     *)
Told(k) ==
    /\ stage[k] = "asking" /\ told[k] # Unset
    /\ \/ Denied(k) /\ End(k, "denied") /\ UNCHANGED flag
       \/ /\ ~Denied(k)
          /\ flag' = [flag EXCEPT ![k] = IF told[k] \in Allowed THEN told[k]
                                        ELSE IF fallback = "full" THEN "allow-once" ELSE Unset]
          /\ stage' = [stage EXCEPT ![k] = "invoking"] /\ UNCHANGED outcome
    /\ UNCHANGED <<approvalVars, sentOn, connVars>>

(* A command that needs no approval. *)
Direct(k) ==
    /\ stage[k] = "new" /\ k \notin Asking
    /\ stage' = [stage EXCEPT ![k] = "invoking"]
    /\ UNCHANGED <<outcome, approvalVars, flag, sentOn, connVars>>

-----------------------------------------------------------------------------
(* node.invoke                                                             *)

(* sanitizeSystemRunParamsForForwarding: without a decision the command is *)
(* passed on; with one the record must exist, not be past its time, and    *)
(* have that decision or, for the fallback, have timed out.                *)
Passes(k) ==
    \/ flag[k] = Unset
    \/ /\ k \in Registered /\ approval[k].clock # "past"
       /\ \/ approval[k].decision \in Allowed
          \/ /\ approval[k].resolved /\ approval[k].decision = Unset
             /\ flag[k] = "allow-once"

(* What is passed on: the decision of the record, not of the request. *)
PassedOn(k) ==
    IF flag[k] = Unset THEN "none"
    ELSE IF approval[k].decision \in Allowed THEN approval[k].decision ELSE "allow-once"

(* The check and, in the same step, the send by nodeRegistry.invoke; a     *)
(* request on a lost connection goes nowhere.                              *)
Forward(k) ==
    /\ session # Unset
    /\ \/ ~Passes(k) /\ End(k, "refused") /\ UNCHANGED <<sentOn, wire>>
       \/ /\ Passes(k)
          /\ stage' = [stage EXCEPT ![k] = "pending"]
          /\ sentOn' = [sentOn EXCEPT ![k] = session]
          /\ wire' = IF conn[session] = "open"
                     THEN wire \cup {[call |-> k, approved |-> PassedOn(k)]} ELSE wire
          /\ UNCHANGED outcome
    /\ UNCHANGED <<approvalVars, flag, conn, session, ran>>

Awaiting(k) == stage[k] \in {"invoking", "wake1", "wake2"}

(* The node is connected, at first or when a wake's wait looks again. *)
Invoke(k) == Awaiting(k) /\ Forward(k)

(* [mutant] a wake in vain is followed by another *)
WakeForever(k) ==
    /\ Awaiting(k) /\ session = Unset
    /\ stage' = [stage EXCEPT ![k] = IF @ = "wake1" THEN "wake2" ELSE "wake1"]
    /\ UNCHANGED <<outcome, approvalVars, flag, sentOn, connVars>>

(* It is not: it is woken, twice at most. *)
WakeFor(k) ==
    /\ Awaiting(k) /\ session = Unset
    /\ \/ /\ stage[k] \in {"invoking", "wake1"}
          /\ stage' = [stage EXCEPT ![k] = IF @ = "invoking" THEN "wake1" ELSE "wake2"]
          /\ UNCHANGED outcome
       \/ stage[k] # "invoking" /\ End(k, "notconnected")   \* no wake, or in vain
    /\ UNCHANGED <<approvalVars, flag, sentOn, connVars>>

(* handleInvokeResult, for a request that is still pending *)
Result(k) ==
    /\ stage[k] = "pending" /\ ran[k] # Unset
    /\ \E c \in Conns : conn[c] = "open"
    /\ End(k, "ok")
    /\ UNCHANGED <<approvalVars, flag, sentOn, connVars>>

(* The timer of the invoke. *)
InvokeTimesOut(k) ==
    /\ stage[k] = "pending"
    /\ End(k, "timeout")
    /\ UNCHANGED <<approvalVars, flag, sentOn, connVars>>

-----------------------------------------------------------------------------
(* The node and its connections.                                           *)

(* register: the newest connection is the session of the node. *)
Connect(c) ==
    /\ conn[c] = "new" /\ \A d \in Conns : conn[d] # "open" /\ (d < c => conn[d] # "new")
    /\ conn' = [conn EXCEPT ![c] = "open"]
    /\ session' = c
    /\ UNCHANGED <<stage, outcome, approvalVars, flag, sentOn, wire, ran>>

(* The connection is lost with what is on it; the gateway has not noticed. *)
Lost(c) ==
    /\ conn[c] = "open"
    /\ conn' = [conn EXCEPT ![c] = "lost"] /\ wire' = {}
    /\ UNCHANGED <<stage, outcome, approvalVars, flag, session, sentOn, ran>>

(* [mutant] only the session's own close ends what is pending *)
ClosedCurrent(c) ==
    /\ conn[c] \in {"open", "lost"}
    /\ conn' = [conn EXCEPT ![c] = "closed"]
    /\ wire' = IF conn[c] = "open" THEN {} ELSE wire
    /\ session' = IF session = c THEN Unset ELSE session
    /\ IF session = c
       THEN /\ stage' = [k \in Calls |-> IF stage[k] = "pending" THEN "ended" ELSE stage[k]]
            /\ outcome' = [k \in Calls |->
                             IF stage[k] = "pending" THEN "disconnected" ELSE outcome[k]]
       ELSE UNCHANGED <<stage, outcome>>
    /\ UNCHANGED <<approvalVars, flag, sentOn, ran>>

(* The close event, with unregister: whatever session the node has goes,   *)
(* and everything that is pending for the node is rejected.                *)
Closed(c) ==
    /\ conn[c] \in {"open", "lost"}
    /\ conn' = [conn EXCEPT ![c] = "closed"]
    /\ wire' = IF conn[c] = "open" THEN {} ELSE wire
    /\ session' = Unset
    /\ stage' = [k \in Calls |-> IF stage[k] = "pending" THEN "ended" ELSE stage[k]]
    /\ outcome' = [k \in Calls |-> IF stage[k] = "pending" THEN "disconnected" ELSE outcome[k]]
    /\ UNCHANGED <<approvalVars, flag, sentOn, ran>>

(* [external] The node receives a request and runs the command. *)
Runs(m) ==
    /\ m \in wire
    /\ wire' = wire \ {m}
    /\ ran' = [ran EXCEPT ![m.call] = m.approved]
    /\ UNCHANGED <<stage, outcome, approvalVars, flag, conn, session, sentOn>>

-----------------------------------------------------------------------------
NodeInit ==
    /\ fallback \in Fallbacks
    /\ stage = [k \in Calls |-> "new"] /\ outcome = [k \in Calls |-> "none"]
    /\ approval = [k \in Calls |-> Unset] /\ told = [k \in Calls |-> Unset]
    /\ flag = [k \in Calls |-> Unset]
    /\ conn = [c \in Conns |-> "new"] /\ session = Unset
    /\ sentOn = [k \in Calls |-> Unset] /\ wire = {} /\ ran = [k \in Calls |-> Unset]

CallStep(k) ==
    \/ Ask(k) \/ (\E d \in Decisions : Resolve(k, d)) \/ TimesOut(k) \/ GraceEnds(k) \/ Clock(k)
    \/ AskFails(k) \/ Told(k) \/ Direct(k)
    \/ Invoke(k) \/ WakeFor(k) \/ Result(k) \/ InvokeTimesOut(k)

NodeNext ==
    /\ \/ \E k \in Calls : CallStep(k)
       \/ \E c \in Conns : Connect(c) \/ Lost(c) \/ Closed(c)
       \/ \E m \in wire : Runs(m)
    /\ UNCHANGED fallback

(* Time passes, timers fire and the flow goes on; nobody has to decide,    *)
(* and the node need not answer.                                           *)
NodeFairness ==
    \A k \in Calls :
        /\ WF_nodeVars(Clock(k) /\ UNCHANGED fallback)
        /\ WF_nodeVars(TimesOut(k) /\ UNCHANGED fallback)
        /\ WF_nodeVars(GraceEnds(k) /\ UNCHANGED fallback)
        /\ WF_nodeVars(Told(k) /\ UNCHANGED fallback)
        /\ WF_nodeVars((Invoke(k) \/ WakeFor(k)) /\ UNCHANGED fallback)
        /\ WF_nodeVars(InvokeTimesOut(k) /\ UNCHANGED fallback)

NodeSpec == NodeInit /\ [][NodeNext]_nodeVars /\ NodeFairness

-----------------------------------------------------------------------------
(* Properties.                                                             *)

(* The state of the calls, their approvals and the node. *)
NodeTypeOK ==
    /\ fallback \in Fallbacks
    /\ stage \in [Calls -> {"new", "asking", "invoking", "wake1", "wake2", "pending", "ended"}]
    /\ outcome \in [Calls -> {"none", "denied", "refused", "notconnected", "disconnected",
                              "timeout", "ok"}]
    /\ approval \in [Calls -> Entry \cup {Unset}]
    /\ told \in [Calls -> Decisions \cup {"timeout", Unset}]
    /\ flag \in [Calls -> Allowed \cup {Unset}]
    /\ conn \in [Conns -> {"new", "open", "lost", "closed"}]
    /\ session \in Conns \cup {Unset}
    /\ sentOn \in [Calls -> Conns \cup {Unset}]
    /\ wire \subseteq [call : Calls, approved : Allowed \cup {"none"}]
    /\ ran \in [Calls -> Allowed \cup {"none", Unset}]

(* What the node runs with an approval was approved: somebody decided so,  *)
(* or nobody decided in time and askFallback is "full"; and a command that *)
(* was denied does not reach the node at all, however the decision, the    *)
(* timeout and the removal of the record fall.                             *)
ApprovedRuns ==
    \A k \in Asking : ran[k] # Unset =>
        /\ told[k] # "deny" /\ told[k] # Unset
        /\ ran[k] \in Allowed =>
             told[k] = ran[k] \/ (told[k] = "timeout" /\ fallback = "full")
        /\ told[k] = "timeout" => fallback # "deny"

(* A decision is final: as long as the record is there it says what those  *)
(* who waited for it were told (exec-approval-manager.ts 88-102, 117-141). *)
RecordAgrees ==
    \A k \in Registered :
        IF approval[k].resolved
        THEN told[k] = IF approval[k].decision = Unset THEN "timeout" ELSE approval[k].decision
        ELSE told[k] = Unset

DecisionFinal == [][\A k \in Calls : told[k] # Unset => told'[k] = told[k]]_nodeVars

(* No call goes on waiting for a connection that has closed, and every     *)
(* session is one that has not (node-registry.ts 80-98).                   *)
NoWaitForClosed ==
    /\ \A k \in InvokesPending : conn[sentOn[k]] # "closed"
    /\ session # Unset => conn[session] \in {"open", "lost"}

(* Every command ends, decided or not, connected or not. *)
CallsEnd == \A k \in Calls : (stage[k] # "new") ~> (stage[k] = "ended")

(* Every record is removed in the end. *)
RecordsGo == \A k \in Calls : (approval[k] # Unset) ~> (approval[k] = Unset)

(* The record of an approval and the answer to those who wait for it agree *)
(* (exec-approval-manager.ts 64-141).                                      *)
RecordsSound == NodeTypeOK /\ RecordAgrees

(* Neither a call nor a record stays for ever.                             *)
NothingHangs == CallsEnd /\ RecordsGo

=============================================================================
