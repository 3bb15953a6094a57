--------------------------- MODULE DeliveryQueue ----------------------------
(***************************************************************************)
(* The write-ahead queue of outbound deliveries.                           *)
(*                                                                         *)
(* deliverOutboundPayloads (src/infra/outbound/deliver.ts) writes an entry *)
(* to disk, sends the payloads, and removes the entry or counts a failure. *)
(* recoverPendingDeliveries (delivery-queue.ts) runs once per start of the *)
(* gateway, beside the live deliveries, and retries what it finds on disk, *)
(* oldest first, within a budget of time.  An in-process restart starts a  *)
(* recovery while the one before it may still be running.                  *)
(*                                                                         *)
(* A step is what happens between two awaits.  The process may end between *)
(* any two steps; only the queue directory survives.                       *)
(***************************************************************************)
EXTENDS Integers, Sequences, FiniteSets, SequencesExt

CONSTANTS
    Deliveries,  \* calls of deliverOutboundPayloads
    Recoveries,  \* recoveries that can be in progress at the same time
    NoDelivery,  \* no delivery
    KindsUsed,   \* ways to treat a payload that fails
    Payloads,    \* number of payloads of a delivery
    MaxRetries,  \* MAX_RETRIES
    Backoff,     \* BACKOFF_MS, in units of the clock
    Budget,      \* maxRecoveryMs, in units of the clock
    SendTimes,   \* how long a send may take
    MaxFaults    \* bound on crashes and I/O errors together

(* "strict": a failure ends the delivery; "best_effort": it is swallowed;  *)
(* "tracked": best effort with an onError callback.                        *)
Kinds == {"strict", "best_effort", "tracked"}

ASSUME DeliveryAssumption ==
    /\ KindsUsed \subseteq Kinds
    /\ Deliveries \cap Recoveries = {} /\ NoDelivery \notin Deliveries
    /\ Payloads \in Nat \ {0} /\ MaxRetries \in Nat \ {0} /\ Budget \in Nat
    /\ Backoff \in Seq(Nat) /\ Len(Backoff) > 0
    /\ SendTimes \subseteq Nat /\ MaxFaults \in Nat

VARIABLES
    queue,     \* the entries in delivery-queue/, with their retryCount
    kind,      \* of each delivery: its callers' bestEffort and onError
    failed,    \* the entries in delivery-queue/failed/
    attempt,   \* of each live delivery and each recovery: the call in progress
    recovery,  \* of each recovery: the entries left and the time spent
    up,        \* is the gateway running?
    started,   \* history: deliveries that have been requested
    written,   \* history: the deliveries that reached the disk, oldest first
    sends,     \* history: how often each payload was sent, at most 2
    errors,    \* history: failed attempts of each delivery that are to be counted,
               \* at most MaxRetries
    aborted,   \* history: deliveries aborted by their caller
    mistaken,  \* history: deliveries whose own failure was taken for an abort
    disturbed, \* history: deliveries that met a fault or were tried twice at once
    faults     \* crashes and I/O errors so far

vars == <<queue, kind, failed, attempt, recovery, up, started, written, sends,
          errors, aborted, mistaken, disturbed, faults>>

history == <<started, written, sends, errors, aborted, mistaken, disturbed>>

Actors == Deliveries \cup Recoveries
Pending == DOMAIN queue

(* no call in progress *)
Off == [pc |-> "off", id |-> NoDelivery, next |-> 1, partial |-> FALSE, raw |-> 0]

(* the payloads of d are about to be sent *)
Sending(d) == [Off EXCEPT !.pc = "send", !.id = d]

NoRecovery == [pc |-> "off", todo |-> <<>>, spent |-> 0]

With(f, d, n) == [e \in DOMAIN f \cup {d} |-> IF e = d THEN n ELSE f[e]]
Without(f, d) == [e \in DOMAIN f \ {d} |-> f[e]]

Smaller(m, n) == IF m <= n THEN m ELSE n

(* One more failed attempt. *)
Failing(d) == [errors EXCEPT ![d] = Smaller(@ + 1, MaxRetries)]

Init ==
    /\ queue = << >> /\ failed = {}
    /\ kind \in [Deliveries -> KindsUsed]
    /\ attempt = [a \in Actors |-> Off]
    /\ recovery = [r \in Recoveries |-> NoRecovery]
    /\ up = FALSE
    /\ started = {} /\ written = <<>>
    /\ sends = [d \in Deliveries |-> [p \in 1..Payloads |-> 0]]
    /\ errors = [d \in Deliveries |-> 0]
    /\ aborted = {} /\ mistaken = {} /\ disturbed = {} /\ faults = 0

-----------------------------------------------------------------------------
(* The queue directory.                                                    *)

(* [mutant] the entry is not unlinked *)
ackDeliveryKeepsEntry(d) == queue' = queue

(* unlink; an entry that is gone already is no error *)
ackDelivery(d) == queue' = Without(queue, d)

(* the second half of failDelivery: the entry read before, counted up, is  *)
(* renamed into place, whether or not it is still there.  Attempts that    *)
(* overlap can count past MaxRetries; such counts all mean the same.       *)
RewriteEntry(d, raw) == queue' = With(queue, d, Smaller(raw + 1, MaxRetries))

(* rename to failed/; without an entry the call throws and nothing happens *)
moveToFailed(d) ==
    /\ queue' = Without(queue, d)
    /\ failed' = IF d \in Pending THEN failed \cup {d} ELSE failed

(* BACKOFF_MS is indexed from the first retry; its last entry repeats *)
computeBackoffMs(n) ==
    IF n <= 0 THEN 0 ELSE Backoff[Smaller(n, Len(Backoff))]

Older(d, e) == \E i, j \in 1..Len(written) : i < j /\ written[i] = d /\ written[j] = e

(* the entries on disk with the retryCount they have now, oldest first     *)
loadPendingDeliveries ==
    {[i \in 1..Cardinality(Pending) |-> [id |-> order[i], retry |-> queue[order[i]]]] :
        order \in {f \in [1..Cardinality(Pending) -> Pending] :
                     \A i, j \in DOMAIN f : i < j => Older(f[i], f[j])}}

-----------------------------------------------------------------------------
(* A delivery, live or retried.                                            *)

Live(a) == a \in Deliveries

(* skipQueue for a recovery; null when the write failed.  A live delivery  *)
(* whose write failed has no entry to settle.                              *)
HasEntry(a) == Live(a) => \E i \in 1..Len(written) : written[i] = a

(* The call returns or throws to its caller: a recovery goes on. *)
Finish(a) ==
    /\ attempt' = [attempt EXCEPT ![a] = Off]
    /\ recovery' = IF Live(a) THEN recovery
                   ELSE [recovery EXCEPT ![a].pc = "next"]

(* deliverOutboundPayloadsCore is over: the entry, if any, is to be settled *)
Settle(a, how) ==
    attempt' = [attempt EXCEPT ![a] =
                   IF HasEntry(a) THEN [@ EXCEPT !.pc = how] ELSE Off]

(* A caller asks for a delivery; the entry is on its way to the disk. *)
Deliver(d) ==
    /\ up /\ d \notin started
    /\ started' = started \cup {d}
    /\ attempt' = [attempt EXCEPT ![d] = [Sending(d) EXCEPT !.pc = "write"]]
    /\ UNCHANGED <<kind, queue, failed, recovery, up, written, sends, errors,
                   aborted, mistaken, disturbed, faults>>

enqueueDelivery(d) ==
    /\ attempt[d].pc = "write"
    /\ queue' = With(queue, d, 0)
    /\ written' = Append(written, d)
    /\ attempt' = [attempt EXCEPT ![d].pc = "send"]
    /\ UNCHANGED <<kind, failed, recovery, up, started, sends, errors, aborted, mistaken,
                   disturbed, faults>>

(* The write fails: the delivery goes on without an entry. *)
EnqueueFails(d) ==
    /\ attempt[d].pc = "write" /\ faults < MaxFaults
    /\ faults' = faults + 1
    /\ attempt' = [attempt EXCEPT ![d].pc = "send"]
    /\ UNCHANGED <<kind, queue, failed, recovery, up, history>>

Spend(a, t) ==
    IF Live(a) THEN recovery
    ELSE [recovery EXCEPT ![a].spent = Smaller(@ + t, Budget)]

PayloadSent(a, t) ==
    LET at == attempt[a] IN
    /\ at.pc = "send" /\ at.next <= Payloads
    /\ Live(a) => a \notin aborted
    /\ attempt' = [attempt EXCEPT ![a].next = @ + 1]
    /\ sends' = [sends EXCEPT ![at.id][at.next] = Smaller(@ + 1, 2)]
    /\ recovery' = Spend(a, t)
    /\ UNCHANGED <<kind, queue, failed, up, started, written, errors, aborted, mistaken,
                   disturbed, faults>>

(* A payload fails, with an error that is not named AbortError where it    *)
(* reaches the wrapper.  Under best effort the loop goes on, and onError,  *)
(* which is a callback and not part of the entry, notes the failure.       *)
PayloadFails(a, t) ==
    LET at == attempt[a] IN
    /\ at.pc = "send" /\ at.next <= Payloads
    /\ errors' = Failing(at.id)
    /\ recovery' = Spend(a, t)
    /\ IF kind[at.id] = "strict"
       THEN Settle(a, "read")
       ELSE attempt' = [attempt EXCEPT
                ![a].next = @ + 1,
                ![a].partial = @ \/ (Live(a) /\ kind[at.id] = "tracked")]
    /\ UNCHANGED <<kind, queue, failed, up, started, written, sends, aborted, mistaken,
                   disturbed, faults>>

(* The abort signal is seen before a payload: the delivery is given up on  *)
(* purpose.  Under best effort every payload that is left fails silently.  *)
(* No caller passes both a signal and onError; a recovery passes neither.  *)
Abort(a) ==
    /\ Live(a) /\ kind[a] # "tracked"
    /\ attempt[a].pc = "send" /\ attempt[a].next <= Payloads
    /\ aborted' = aborted \cup {a}
    /\ IF kind[a] = "strict"
       THEN Settle(a, "ack")
       ELSE attempt' = [attempt EXCEPT ![a].next = Payloads + 1]
    /\ UNCHANGED <<kind, queue, failed, recovery, up, started, written, sends,
                   errors, mistaken, disturbed, faults>>

(* A failure reaches the wrapper of a live delivery as an error named      *)
(* AbortError, though its caller aborted nothing: the time limit of a send *)
(* of the Signal adapter throws one.  The wrapper asks only for the name   *)
(* and takes the delivery for aborted.  A recovery, which settles what it  *)
(* catches itself, does not ask.                                           *)
TakenForAbort(a) ==
    /\ Live(a) /\ attempt[a].pc = "send"
    /\ \/ kind[a] = "strict" /\ attempt[a].next <= Payloads
       \/ attempt[a].next \in {1, Payloads + 1}
    /\ mistaken' = mistaken \cup {a}
    /\ Settle(a, "ack")
    /\ UNCHANGED <<kind, queue, failed, recovery, up, started, written, sends,
                   errors, aborted, disturbed, faults>>

(* [mutant] an error of the core does not reach the wrapper *)
CoreThrowsUnseen(a) ==
    /\ attempt[a].pc = "send" /\ attempt[a].next \in {1, Payloads + 1}
    /\ errors' = Failing(attempt[a].id)
    /\ Settle(a, "ack")
    /\ UNCHANGED <<kind, queue, failed, recovery, up, started, written, sends,
                   aborted, mistaken, disturbed, faults>>

(* Outside the loop over the payloads errors always reach the caller: no   *)
(* handler for the channel, or a transcript that cannot be appended to.    *)
(* One named AbortError is TakenForAbort's.                                *)
CoreThrows(a) ==
    /\ attempt[a].pc = "send" /\ attempt[a].next \in {1, Payloads + 1}
    /\ errors' = Failing(attempt[a].id)
    /\ Settle(a, "read")
    /\ UNCHANGED <<kind, queue, failed, recovery, up, started, written, sends,
                   aborted, mistaken, disturbed, faults>>

(* [mutant] the loop ends one payload early *)
CoreReturnsEarly(a) ==
    /\ attempt[a].pc = "send" /\ attempt[a].next \in {Payloads, Payloads + 1}
    /\ Settle(a, IF attempt[a].partial THEN "read" ELSE "ack")
    /\ UNCHANGED <<kind, queue, failed, recovery, up, history, faults>>

CoreReturns(a) ==
    /\ attempt[a].pc = "send" /\ attempt[a].next = Payloads + 1
    /\ Settle(a, IF attempt[a].partial THEN "read" ELSE "ack")
    /\ UNCHANGED <<kind, queue, failed, recovery, up, history, faults>>

Ack(a) ==
    /\ attempt[a].pc = "ack"
    /\ ackDelivery(attempt[a].id)
    /\ Finish(a)
    /\ UNCHANGED <<kind, failed, up, history, faults>>

(* The unlink fails.  A live delivery ignores that; a recovery treats it   *)
(* as a failure of the delivery.                                           *)
AckFails(a) ==
    /\ attempt[a].pc = "ack" /\ faults < MaxFaults
    /\ faults' = faults + 1
    /\ disturbed' = disturbed \cup {attempt[a].id}
    /\ IF Live(a) THEN Finish(a) /\ UNCHANGED errors
       ELSE /\ attempt' = [attempt EXCEPT ![a].pc = "read"]
            /\ errors' = Failing(attempt[a].id)
            /\ UNCHANGED recovery
    /\ UNCHANGED <<kind, queue, failed, up, started, written, sends, aborted, mistaken>>

(* failDelivery reads the entry; an entry that is gone makes it throw,     *)
(* which both callers ignore.                                              *)
FailReads(a) ==
    /\ attempt[a].pc = "read"
    /\ IF attempt[a].id \in Pending
       THEN /\ attempt' = [attempt EXCEPT ![a].pc = "rewrite",
                                          ![a].raw = queue[attempt[a].id]]
            /\ UNCHANGED recovery
       ELSE Finish(a)
    /\ UNCHANGED <<kind, queue, failed, up, history, faults>>

FailWrites(a) ==
    /\ attempt[a].pc = "rewrite"
    /\ RewriteEntry(attempt[a].id, attempt[a].raw)
    /\ Finish(a)
    /\ UNCHANGED <<kind, failed, up, history, faults>>

FailDeliveryFails(a) ==
    /\ attempt[a].pc \in {"read", "rewrite"} /\ faults < MaxFaults
    /\ faults' = faults + 1
    /\ disturbed' = disturbed \cup {attempt[a].id}
    /\ Finish(a)
    /\ UNCHANGED <<kind, queue, failed, up, started, written, sends, errors,
                   aborted, mistaken>>

-----------------------------------------------------------------------------
(* Recovery.                                                               *)

(* Deliveries somebody is working on, or will be, before r loads. *)
InHand ==
    {attempt[a].id : a \in {b \in Actors : attempt[b].pc # "off"}} \cup
    UNION {{recovery[r].todo[i].id : i \in 1..Len(recovery[r].todo)} : r \in Recoveries}

Load(r) ==
    /\ recovery[r].pc = "load"
    /\ \E todo \in loadPendingDeliveries :
          recovery' = [recovery EXCEPT ![r] = [pc |-> "next", todo |-> todo, spent |-> 0]]
    /\ disturbed' = disturbed \cup (Pending \cap InHand)
    /\ UNCHANGED <<kind, queue, failed, attempt, up, started, written, sends, errors,
                   aborted, mistaken, faults>>

HeadOf(r) == Head(recovery[r].todo)
Taken(r, t) == [recovery[r] EXCEPT !.pc = "busy", !.todo = Tail(@), !.spent = @ + t]

(* the delay before the next entry is tried *)
Delay(r) == computeBackoffMs(HeadOf(r).retry + 1)

(* [mutant] one retry too few *)
GivenUpEarly(e) == e.retry + 1 >= MaxRetries

GivenUp(e) == e.retry >= MaxRetries

OutOfTime(r) ==
    \/ recovery[r].spent >= Budget
    \/ /\ ~GivenUp(HeadOf(r))
       /\ Delay(r) > 0 /\ recovery[r].spent + Delay(r) >= Budget

(* All entries are done, or those left are deferred to the next restart. *)
RecoveryEnds(r) ==
    /\ recovery[r].pc = "next"
    /\ recovery[r].todo # <<>> => OutOfTime(r)
    /\ recovery' = [recovery EXCEPT ![r] = NoRecovery]
    /\ UNCHANGED <<kind, queue, failed, attempt, up, history, faults>>

(* Waits and delivers again, with the retryCount of the load. *)
Retry(r) ==
    /\ recovery[r].pc = "next" /\ recovery[r].todo # <<>>
    /\ ~OutOfTime(r) /\ ~GivenUp(HeadOf(r))
    /\ recovery' = [recovery EXCEPT ![r] = Taken(r, Delay(r))]
    /\ attempt' = [attempt EXCEPT ![r] = Sending(HeadOf(r).id)]
    /\ UNCHANGED <<kind, queue, failed, up, history, faults>>

GiveUp(r) ==
    /\ recovery[r].pc = "next" /\ recovery[r].todo # <<>>
    /\ ~OutOfTime(r) /\ GivenUp(HeadOf(r))
    /\ moveToFailed(HeadOf(r).id)
    /\ recovery' = [recovery EXCEPT ![r].todo = Tail(@)]
    /\ UNCHANGED <<kind, attempt, up, history, faults>>

(* The rename fails; the entry stays and the next one is taken. *)
GiveUpFails(r) ==
    /\ recovery[r].pc = "next" /\ recovery[r].todo # <<>>
    /\ ~OutOfTime(r) /\ GivenUp(HeadOf(r))
    /\ faults < MaxFaults /\ faults' = faults + 1
    /\ recovery' = [recovery EXCEPT ![r].todo = Tail(@)]
    /\ UNCHANGED <<kind, queue, failed, attempt, up, history>>

-----------------------------------------------------------------------------
(* The gateway process.                                                    *)

StartRecovery(r) ==
    /\ recovery[r].pc = "off"
    /\ recovery' = [recovery EXCEPT ![r].pc = "load"]
    /\ UNCHANGED <<kind, queue, failed, attempt, history, faults>>

Start == ~up /\ up' = TRUE /\ \E r \in Recoveries : StartRecovery(r)

(* Deliveries and recoveries outlive an in-process restart. *)
RestartInProcess == up /\ UNCHANGED up /\ \E r \in Recoveries : StartRecovery(r)

Idle == /\ \A a \in Actors : attempt[a].pc = "off"
        /\ \A r \in Recoveries : recovery[r].pc = "off"

(* The process ends while nothing is in progress. *)
Stop ==
    /\ up /\ Idle /\ up' = FALSE
    /\ UNCHANGED <<kind, queue, failed, attempt, recovery, history, faults>>

(* The process ends in the middle of its work. *)
Crash ==
    /\ up /\ ~Idle /\ faults < MaxFaults
    /\ faults' = faults + 1
    /\ up' = FALSE
    /\ disturbed' = disturbed \cup
           {attempt[a].id : a \in {b \in Actors : attempt[b].pc # "off"}}
    /\ attempt' = [a \in Actors |-> Off]
    /\ recovery' = [r \in Recoveries |-> NoRecovery]
    /\ UNCHANGED <<kind, queue, failed, started, written, sends, errors,
                   aborted, mistaken>>

-----------------------------------------------------------------------------
DeliveryStep(a) ==
    \/ \E t \in SendTimes : PayloadSent(a, t) \/ PayloadFails(a, t)
    \/ CoreThrows(a) \/ CoreReturns(a)
    \/ Ack(a) \/ FailReads(a) \/ FailWrites(a)

DeliveryFaults(a) == AckFails(a) \/ FailDeliveryFails(a)

RecoveryStep(r) == Load(r) \/ RecoveryEnds(r) \/ Retry(r) \/ GiveUp(r)

Next ==
    \/ \E d \in Deliveries : Deliver(d) \/ enqueueDelivery(d) \/ EnqueueFails(d)
    \/ \E d \in Deliveries : Abort(d) \/ TakenForAbort(d)
    \/ \E a \in Actors : DeliveryStep(a) \/ DeliveryFaults(a)
    \/ \E r \in Recoveries : RecoveryStep(r) \/ GiveUpFails(r)
    \/ Start \/ RestartInProcess \/ Stop \/ Crash

Spec == Init /\ [][Next]_vars

(* Every await is answered; the gateway is started when it is down and, as  *)
(* long as entries are left, is stopped again at some time when it is idle. *)
Fairness ==
    /\ \A d \in Deliveries : WF_vars(enqueueDelivery(d))
    /\ \A a \in Actors : WF_vars(DeliveryStep(a))
    /\ \A r \in Recoveries : WF_vars(RecoveryStep(r))
    /\ WF_vars(Start) /\ SF_vars(Stop)

FairSpec == Spec /\ Fairness

-----------------------------------------------------------------------------
(* Properties.                                                             *)

Counts == 0..MaxRetries

Entry == [id : Deliveries, retry : Counts]

TypeOK ==
    /\ Pending \subseteq ToSet(written) /\ \A d \in Pending : queue[d] \in Counts
    /\ failed \subseteq ToSet(written)
    /\ attempt \in [Actors -> [pc : {"off", "write", "send", "ack", "read", "rewrite"},
                               id : Deliveries \cup {NoDelivery}, next : 1..(Payloads + 1),
                               partial : BOOLEAN, raw : Counts]]
    /\ \A r \in Recoveries :
          /\ recovery[r].pc \in {"off", "load", "next", "busy"}
          /\ recovery[r].todo \in Seq(Entry)
          /\ recovery[r].spent \in 0..Budget
          /\ recovery[r].pc = "busy" <=> attempt[r].pc # "off"
    /\ kind \in [Deliveries -> KindsUsed]
    /\ up \in BOOLEAN /\ faults \in 0..MaxFaults
    /\ ToSet(written) \subseteq started /\ started \subseteq Deliveries
    /\ aborted \subseteq started /\ mistaken \subseteq started
    /\ disturbed \subseteq started
    /\ sends \in [Deliveries -> [1..Payloads -> 0..2]]
    /\ errors \in [Deliveries -> 0..MaxRetries]

Written(d) == d \in ToSet(written)
OnDisk(d) == d \in Pending \cup failed
AllSent(d) == \A p \in 1..Payloads : sends[d][p] > 0

KeptUntilSent(d) ==
    Written(d) /\ d \notin aborted \cup mistaken /\ ~OnDisk(d) => AllSent(d)

(* A delivery that reached the disk stays in the queue or in failed/ until *)
(* each of its payloads has been sent, whatever fails and wherever the     *)
(* process ends, unless its caller aborted it or its failure was taken for *)
(* an abort (deliver.ts:231, 272-276, ackDelivery).                        *)
NothingLost == \A d \in Deliveries : kind[d] = "strict" => KeptUntilSent(d)

(* An entry is given up only after MaxRetries attempts on it have failed   *)
(* (recoverPendingDeliveries).                                             *)
GivenUpOnlyAfterRetries == \A d \in failed : errors[d] = MaxRetries

(* A payload is sent twice only where an attempt failed or was cut short,  *)
(* or where two attempts on the delivery overlapped: no entry of a delivery *)
(* that succeeded survives for a recovery to find.                         *)
NoGratuitousResend ==
    \A d \in Deliveries \ disturbed :
        errors[d] = 0 => \A p \in 1..Payloads : sends[d][p] < 2

(* Where nobody is at work on an entry, its retryCount is the number of    *)
(* attempts that failed, unless a fault or an overlap disturbed it.        *)
CountIsExact ==
    \A d \in Pending \ disturbed :
        /\ kind[d] = "strict"
        /\ \A a \in Actors : attempt[a].pc # "off" => attempt[a].id # d
        => queue[d] = errors[d]

(* If the gateway is restarted again and again, every entry is in the end  *)
(* delivered, dropped or moved to failed/, as the comment on               *)
(* recoverPendingDeliveries has it (delivery-queue.ts 206-209).  It does   *)
(* not hold of an entry that has failed twice: its next backoff, 2 min, is *)
(* longer than the 60 s of a whole recovery, which defers it, and every    *)
(* entry behind it, each time (delivery-queue.ts 257-265).                 *)
EntrySettles == \A d \in Deliveries : d \in Pending ~> d \notin Pending

(* The number of failed attempts decides, and it is right: it is kept      *)
(* across crashes and recoveries, and nothing is given up before it has    *)
(* been reached (delivery-queue.ts 128-140, 244).                          *)
RetriesCounted == TypeOK /\ GivenUpOnlyAfterRetries /\ CountIsExact

-----------------------------------------------------------------------------
(* The queue implements Outbox.  What is on disk is pending, even if it    *)
(* is in failed/ as well: an entry given up by one recovery can be written *)
(* again by the late count of another attempt.                             *)
Stage(d) ==
    IF d \in Pending THEN "pending"
    ELSE IF d \in failed THEN "failed"
    ELSE IF Written(d) THEN "done" ELSE "new"

OB == INSTANCE Outbox WITH
    strict <- {d \in Deliveries : kind[d] = "strict"},
    stage <- [d \in Deliveries |-> Stage(d)],
    sent <- sends, misses <- errors, withdrawn <- aborted, misjudged <- mistaken,
    muddled <- disturbed

(* Whatever calls overlap, fail or are cut short, callers see an outbox: a *)
(* delivery is done when it was sent, failed when it was tried often       *)
(* enough, given up unsent only when its caller aborted it or seemed to,   *)
(* and comes back only after a fault or an overlap                         *)
(* (deliver.ts 226-283, delivery-queue.ts 111-182).                        *)
ImplementsOutbox == OB!OutboxSpec

=============================================================================
