-------------------------------- MODULE Outbox --------------------------------
(***************************************************************************)
(* What the write-ahead queue promises those who hand it a delivery: once  *)
(* accepted it is pending until all of it was sent or until the attempts   *)
(* on it have failed too often, no payload is sent again without cause,    *)
(* and it comes back only if something went wrong with its bookkeeping.    *)
(***************************************************************************)
EXTENDS Naturals

CONSTANTS Deliveries, Payloads, MaxRetries

VARIABLES
    strict,    \* deliveries that have failed if one of their payloads has
    stage,     \* stage[d]: "new", "pending", "done" or "failed"
    sent,      \* sent[d][p]: how often payload p was sent, at most 2
    misses,    \* misses[d]: attempts that failed, at most MaxRetries
    withdrawn, \* deliveries their caller has aborted
    misjudged, \* deliveries whose own failure was taken for such an abort
    muddled    \* deliveries that met a fault, or two attempts at once

outboxVars == <<strict, stage, sent, misses, withdrawn, misjudged, muddled>>

OutboxInit ==
    /\ strict \subseteq Deliveries
    /\ stage = [d \in Deliveries |-> "new"]
    /\ sent = [d \in Deliveries |-> [p \in 1..Payloads |-> 0]]
    /\ misses = [d \in Deliveries |-> 0]
    /\ withdrawn = {} /\ misjudged = {} /\ muddled = {}

Moves(d, to) ==
    /\ stage' = [stage EXCEPT ![d] = to]
    /\ UNCHANGED <<strict, sent, misses, withdrawn, misjudged, muddled>>

Accept(d) == stage[d] = "new" /\ Moves(d, "pending")

Close(d) ==
    /\ stage[d] = "pending"
    /\ d \in strict \ (withdrawn \cup misjudged) => \A p \in 1..Payloads : sent[d][p] > 0
    /\ Moves(d, "done")

GiveUpOn(d) ==
    /\ stage[d] = "pending" /\ misses[d] = MaxRetries
    /\ Moves(d, "failed")

(* A late count writes the entry again. *)
Return(d) ==
    /\ stage[d] \in {"done", "failed"} /\ d \in muddled
    /\ Moves(d, "pending")

(* The second time stands for all further ones. *)
Send(d, p) ==
    /\ sent[d][p] > 0 => misses[d] > 0 \/ d \in muddled
    /\ sent' = [sent EXCEPT ![d][p] = IF @ < 2 THEN @ + 1 ELSE 2]
    /\ UNCHANGED <<strict, stage, misses, withdrawn, misjudged, muddled>>

(* An attempt fails, perhaps because of a fault. *)
Miss(d) ==
    /\ misses' = [misses EXCEPT ![d] = IF @ < MaxRetries THEN @ + 1 ELSE MaxRetries]
    /\ muddled' \in {muddled, muddled \cup {d}}
    /\ UNCHANGED <<strict, stage, sent, withdrawn, misjudged>>

Withdraw(d) ==
    /\ withdrawn' = withdrawn \cup {d}
    /\ UNCHANGED <<strict, stage, sent, misses, misjudged, muddled>>

Misjudge(d) ==
    /\ misjudged' = misjudged \cup {d}
    /\ UNCHANGED <<strict, stage, sent, misses, withdrawn, muddled>>

(* Faults happen, and attempts overlap; nothing is forgotten by it. *)
Muddle ==
    /\ \E ds \in SUBSET Deliveries : muddled' = muddled \cup ds
    /\ UNCHANGED <<strict, stage, sent, misses, withdrawn, misjudged>>

OutboxNext ==
    \/ \E d \in Deliveries : \/ Accept(d) \/ Close(d) \/ GiveUpOn(d) \/ Return(d)
                             \/ \E p \in 1..Payloads : Send(d, p)
                             \/ Miss(d) \/ Withdraw(d) \/ Misjudge(d)
    \/ Muddle

OutboxSpec == OutboxInit /\ [][OutboxNext]_outboxVars
=============================================================================
