------------------------ MODULE DeliveryQueueProofs -------------------------
(* Nothing that reached the disk is lost, retries are counted and payloads *)
(* are not sent again without a reason, for any number of deliveries,      *)
(* payloads, recoveries and faults, any backoffs and any budget.           *)
EXTENDS DeliveryQueue, FiniteSetTheorems, TLAPS

Attempt == [pc : {"off", "write", "send", "ack", "read", "rewrite"},
            id : Deliveries \cup {NoDelivery}, next : 1..(Payloads + 1),
            partial : BOOLEAN, raw : Counts]
Recovery == [pc : {"off", "load", "next", "busy"}, todo : Seq(Entry), spent : 0..Budget]

(* What is known of a call in progress: whose it is, that it has an entry  *)
(* where it settles or retries one, and, under strict delivery, that what  *)
(* it has passed was sent, and that it acknowledges only what is over.     *)
Fine(a) ==
    attempt[a].pc # "off" =>
        /\ attempt[a].id \in started
        /\ Live(a) => attempt[a].id = a
        /\ (~Live(a) \/ attempt[a].pc \in {"ack", "read", "rewrite"}) => Written(attempt[a].id)
        /\ kind[attempt[a].id] = "strict" =>
              /\ ~attempt[a].partial
              /\ \A p \in 1..Payloads : p < attempt[a].next => sends[attempt[a].id][p] > 0
              /\ attempt[a].pc = "ack" =>
                    attempt[a].next = Payloads + 1 \/ attempt[a].id \in aborted \cup mistaken

AttemptsFine == \A a \in Actors : Fine(a)

(* The write of an entry is still to come, once.                           *)
Waiting == \A d \in Deliveries : attempt[d].pc = "write" => ~Written(d)

(* Recoveries hold entries that were written.                              *)
TodoKnown ==
    \A r \in Recoveries : \A i \in 1..Len(recovery[r].todo) : Written(recovery[r].todo[i].id)

(* The parts of the type invariant: the disk, the calls, the histories.    *)
DiskOK ==
    /\ Pending \subseteq ToSet(written) /\ failed \subseteq ToSet(written)
    /\ \A d \in Pending : queue[d] \in Counts

CallsOK ==
    /\ attempt \in [Actors -> Attempt] /\ recovery \in [Recoveries -> Recovery]
    /\ \A r \in Recoveries : recovery[r].pc = "busy" <=> attempt[r].pc # "off"

HistoryOK ==
    /\ kind \in [Deliveries -> KindsUsed]
    /\ up \in BOOLEAN /\ faults \in 0..MaxFaults
    /\ written \in Seq(Deliveries)
    /\ ToSet(written) \subseteq started /\ started \subseteq Deliveries
    /\ aborted \subseteq started /\ mistaken \subseteq started
    /\ disturbed \subseteq started
    /\ sends \in [Deliveries -> [1..Payloads -> 0..2]]
    /\ errors \in [Deliveries -> 0..MaxRetries]

Inv ==
    /\ DiskOK /\ CallsOK /\ HistoryOK
    /\ TodoKnown /\ Waiting /\ AttemptsFine /\ NothingLost

-----------------------------------------------------------------------------
(* The operators.                                                          *)
LEMMA AppendWritten ==
  ASSUME written \in Seq(Deliveries), NEW d \in Deliveries, written' = Append(written, d)
  PROVE  written' \in Seq(Deliveries) /\ ToSet(written)' = ToSet(written) \cup {d}
  <1>1. written' \in Seq(Deliveries) /\ Len(written') = Len(written) + 1
        /\ \A i \in 1..Len(written) : written'[i] = written[i]
        /\ written'[Len(written) + 1] = d
    OBVIOUS
  <1> QED BY <1>1 DEF ToSet

LEMMA EntryWritten ==
  ASSUME written \in Seq(Deliveries), NEW d \in Deliveries
  PROVE  HasEntry(d) <=> Written(d)
  BY DEF HasEntry, Live, Written, ToSet

LEMMA SmallerType ==
  ASSUME NEW m \in Nat, NEW n \in Nat
  PROVE  Smaller(m, n) \in 0..n /\ Smaller(m, n) <= m
  BY DEF Smaller

LEMMA WithType ==
  ASSUME NEW f, NEW d, NEW n \in Counts, \A e \in DOMAIN f : f[e] \in Counts
  PROVE  /\ DOMAIN With(f, d, n) = DOMAIN f \cup {d}
         /\ \A e \in DOMAIN With(f, d, n) : With(f, d, n)[e] \in Counts
  BY DEF With

LEMMA WithoutType ==
  ASSUME NEW f, NEW d, \A e \in DOMAIN f : f[e] \in Counts
  PROVE  /\ DOMAIN Without(f, d) = DOMAIN f \ {d}
         /\ \A e \in DOMAIN Without(f, d) : Without(f, d)[e] \in Counts
  BY DEF Without

LEMMA BackoffType == ASSUME NEW n \in Int PROVE computeBackoffMs(n) \in Nat
  BY DeliveryAssumption DEF computeBackoffMs, Smaller

LEMMA FailingType ==
  ASSUME HistoryOK, NEW d
  PROVE  Failing(d) \in [Deliveries -> 0..MaxRetries]
  <1>1. \A e \in Deliveries : Smaller(errors[e] + 1, MaxRetries) \in 0..MaxRetries
    BY DeliveryAssumption DEF Smaller, HistoryOK
  <1> QED BY <1>1 DEF Failing, HistoryOK

LEMMA OffType == Off \in Attempt
  <1>1. 1 \in 1..(Payloads + 1) /\ 0 \in Counts
    BY DeliveryAssumption DEF Counts
  <1> QED BY <1>1 DEF Off, Attempt

LEMMA ActorType ==
  ASSUME CallsOK, NEW a \in Actors
  PROVE  /\ attempt[a] \in Attempt /\ attempt \in [Actors -> Attempt]
         /\ ~Live(a) => a \in Recoveries
         /\ Live(a) => a \in Deliveries /\ a \notin Recoveries
  BY DeliveryAssumption DEF CallsOK, Actors, Live

(* What a call knows stays known while the histories grow.                 *)
Grows ==
    /\ started \subseteq started' /\ ToSet(written) \subseteq ToSet(written)'
    /\ aborted \subseteq aborted' /\ mistaken \subseteq mistaken' /\ kind' = kind
    /\ \A d \in Deliveries, p \in 1..Payloads : sends[d][p] > 0 => sends'[d][p] > 0

LEMMA FineStays ==
  ASSUME Inv, Grows, NEW a \in Actors, attempt'[a] = attempt[a]
  PROVE  Fine(a)'
  <1>1. attempt[a].pc # "off" => attempt[a].id \in Deliveries
    BY DEF Inv, AttemptsFine, Fine, HistoryOK
  <1> QED BY <1>1 DEF Inv, AttemptsFine, Fine, Grows, Live, Written

LEMMA HistoryGrows == ASSUME UNCHANGED <<kind, history>> PROVE Grows
  BY DEF Grows, history

(* A settled call is over, or settles an entry that was written.           *)
LEMMA SettleFine ==
  ASSUME Inv, Grows, NEW a \in Actors, attempt[a].pc = "send", NEW how \in {"ack", "read"},
         Settle(a, how), UNCHANGED written,
         (kind[attempt[a].id] = "strict" /\ how = "ack") =>
            attempt[a].next = Payloads + 1 \/ attempt[a].id \in aborted' \cup mistaken'
  PROVE  attempt' \in [Actors -> Attempt] /\ AttemptsFine' /\ Waiting'
         /\ (attempt'[a].pc = "off" => Live(a)) /\ \A b \in Actors : b # a => attempt'[b] = attempt[b]
  <1>1. attempt[a] \in Attempt /\ attempt \in [Actors -> Attempt]
        /\ attempt[a].id \in Deliveries /\ Fine(a)
    BY ActorType DEF Inv, AttemptsFine, Fine, HistoryOK
  <1>2. attempt'[a] = IF HasEntry(a) THEN [attempt[a] EXCEPT !.pc = how] ELSE Off
    BY <1>1 DEF Settle
  <1>3. \A b \in Actors : b # a => attempt'[b] = attempt[b]
    BY <1>1 DEF Settle
  <1>4. Off \in Attempt /\ [attempt[a] EXCEPT !.pc = how] \in Attempt
    <2>1. [attempt[a] EXCEPT !.pc = how] \in Attempt
      BY <1>1 DEF Attempt
    <2> QED BY <2>1, OffType
  <1>5. attempt' \in [Actors -> Attempt]
    BY <1>1, <1>2, <1>3, <1>4 DEF Settle
  <1>6. CASE HasEntry(a)
    <2>1. Written(attempt[a].id)
      BY <1>1, <1>6, EntryWritten DEF Inv, HistoryOK, Fine, Live, HasEntry
    <2>2. /\ attempt'[a].pc = how /\ attempt'[a].id = attempt[a].id
          /\ attempt'[a].next = attempt[a].next /\ attempt'[a].partial = attempt[a].partial
      BY <1>1, <1>2, <1>6 DEF Attempt
    <2>3. Fine(a)'
      BY <1>1, <2>1, <2>2 DEF Fine, Grows, Live, Written
    <2> QED BY <1>3, <1>5, <2>2, <2>3, FineStays DEF AttemptsFine, Waiting, Inv, Written, Actors
  <1>7. CASE ~HasEntry(a)
    <2>1. attempt'[a].pc = "off"
      BY <1>2, <1>7 DEF Off
    <2>2. Live(a)
      BY <1>7 DEF HasEntry
    <2> QED BY <1>3, <1>5, <2>1, <2>2, FineStays DEF AttemptsFine, Waiting, Inv, Written, Fine, Actors
  <1> QED BY <1>6, <1>7

(* A call that returns is over.                                            *)
LEMMA FinishFine ==
  ASSUME Inv, Grows, NEW a \in Actors, attempt[a].pc # "off", Finish(a), UNCHANGED written
  PROVE  /\ attempt' \in [Actors -> Attempt] /\ AttemptsFine' /\ Waiting' /\ TodoKnown'
         /\ \A r \in Recoveries : recovery'[r].pc = "busy" <=> attempt'[r].pc # "off"
         /\ recovery' \in [Recoveries -> Recovery]
  <1>1. attempt \in [Actors -> Attempt] /\ Off \in Attempt
    BY ActorType, OffType DEF Inv
  <1>2. attempt' \in [Actors -> Attempt] /\ attempt'[a].pc = "off"
        /\ \A b \in Actors : b # a => attempt'[b] = attempt[b]
    BY <1>1 DEF Finish, Off
  <1>3. AttemptsFine' /\ Waiting'
    BY <1>2, FineStays DEF AttemptsFine, Fine, Waiting, Inv, Written, Actors
  <1>4. CASE Live(a)
    <2>1. recovery' = recovery /\ a \notin Recoveries
      BY <1>4, ActorType DEF Finish, Inv
    <2> QED BY <1>2, <1>3, <2>1 DEF Inv, CallsOK, TodoKnown, Written, Actors
  <1>5. CASE ~Live(a)
    <2>1. a \in Recoveries /\ recovery' = [recovery EXCEPT ![a].pc = "next"]
      BY <1>5, ActorType DEF Finish, Inv
    <2>2. \A r \in Recoveries : /\ recovery'[r].todo = recovery[r].todo
                                /\ recovery'[r].pc = IF r = a THEN "next" ELSE recovery[r].pc
      BY <2>1 DEF Inv, CallsOK, Recovery
    <2>3. recovery' \in [Recoveries -> Recovery]
      BY <2>1 DEF Inv, CallsOK, Recovery
    <2> QED BY <1>2, <1>3, <2>2, <2>3 DEF Inv, CallsOK, TodoKnown, Written, Actors
  <1> QED BY <1>4, <1>5

(* Nothing is lost by a step that takes nothing from the disk.             *)
LEMMA LostStays ==
  ASSUME Inv, Grows, ToSet(written)' = ToSet(written),
         Pending \cup failed \subseteq (Pending \cup failed)'
  PROVE  NothingLost'
  BY DEF Inv, Grows, NothingLost, KeptUntilSent, Written, OnDisk, AllSent

-----------------------------------------------------------------------------
(* The steps of a delivery.                                                *)
LEMMA DeliverInv == ASSUME Inv, NEW d \in Deliveries, Deliver(d) PROVE Inv'
  <1>1. /\ d \notin started /\ started' = started \cup {d} /\ d \in Actors
        /\ UNCHANGED <<kind, queue, failed, recovery, up, written, sends, errors,
                       aborted, mistaken, disturbed, faults>>
    BY DEF Deliver, Actors
  <1>2. [Sending(d) EXCEPT !.pc = "write"] \in Attempt
    BY OffType DEF Sending, Attempt
  <1>3. attempt' \in [Actors -> Attempt]
    BY <1>1, <1>2, ActorType DEF Deliver, Inv
  <1>4. /\ attempt'[d].pc = "write" /\ attempt'[d].id = d /\ attempt'[d].next = 1
        /\ ~attempt'[d].partial /\ \A a \in Actors : a # d => attempt'[a] = attempt[a]
    BY <1>1, ActorType DEF Deliver, Inv, Sending, Off
  <1>5. Grows
    BY <1>1 DEF Grows
  <1>6. AttemptsFine'
    <2>1. Fine(d)'
      BY <1>1, <1>4 DEF Fine, Live
    <2> QED BY <1>4, <1>5, <2>1, FineStays DEF AttemptsFine
  <1>7. Waiting'
    BY <1>1, <1>4 DEF Waiting, Inv, Written, HistoryOK, Actors
  <1>8. DiskOK' /\ HistoryOK' /\ TodoKnown'
    BY <1>1 DEF Inv, DiskOK, HistoryOK, TodoKnown, Written, ToSet, Pending
  <1>9. CallsOK'
    BY <1>1, <1>3, <1>4, DeliveryAssumption DEF Inv, CallsOK, Actors
  <1>10. NothingLost'
    BY <1>1, <1>5, LostStays DEF ToSet, Pending
  <1> QED BY <1>6, <1>7, <1>8, <1>9, <1>10 DEF Inv

(* A step of the call of a from one point of it to the next one.           *)
LEMMA AttemptInv ==
  ASSUME Inv, NEW a \in Actors, attempt[a].pc # "off",
         attempt' \in [Actors -> Attempt], attempt'[a].pc # "off",
         \A b \in Actors : b # a => attempt'[b] = attempt[b],
         Fine(a)', attempt'[a].pc = "write" => attempt[a].pc = "write",
         Grows, UNCHANGED <<kind, queue, failed, up, started, written>>,
         recovery' = recovery \/ \E t \in SendTimes : recovery' = Spend(a, t),
         sends' \in [Deliveries -> [1..Payloads -> 0..2]],
         errors' \in [Deliveries -> 0..MaxRetries],
         aborted' \subseteq started, mistaken' \subseteq started, disturbed' \subseteq started,
         faults' \in 0..MaxFaults
  PROVE  Inv'
  <1>1. AttemptsFine'
    BY FineStays DEF AttemptsFine
  <1>2. Waiting'
    BY DEF Waiting, Inv, Written, Actors
  <1>3. /\ recovery' \in [Recoveries -> Recovery]
        /\ \A r \in Recoveries : recovery'[r].pc = recovery[r].pc
                                 /\ recovery'[r].todo = recovery[r].todo
    <2>1. CASE recovery' = recovery
      BY <2>1 DEF Inv, CallsOK
    <2>2. ASSUME NEW t \in SendTimes, recovery' = Spend(a, t), recovery' # recovery
          PROVE  <1>3
      <3>1. a \in Recoveries /\ recovery' = [recovery EXCEPT ![a].spent = Smaller(@ + t, Budget)]
        BY <2>2, ActorType DEF Spend, Inv
      <3>2. Smaller(recovery[a].spent + t, Budget) \in 0..Budget
        <4>1. recovery[a].spent \in Nat /\ t \in Nat
          BY <3>1, DeliveryAssumption DEF Inv, CallsOK, Recovery
        <4> QED BY <4>1, SmallerType, DeliveryAssumption DEF Smaller
      <3> QED BY <3>1, <3>2 DEF Inv, CallsOK, Recovery
    <2> QED BY <2>1, <2>2
  <1>4. TodoKnown'
    BY <1>3 DEF Inv, TodoKnown, Written
  <1>5. CallsOK'
    BY <1>3 DEF Inv, CallsOK, Actors
  <1>6. DiskOK' /\ HistoryOK'
    BY DEF Inv, DiskOK, HistoryOK, ToSet, Pending
  <1>7. NothingLost'
    <2>1. ToSet(written)' = ToSet(written) /\ Pending' = Pending /\ failed' = failed
      BY DEF ToSet, Pending
    <2> QED BY <2>1, LostStays
  <1> QED BY <1>1, <1>2, <1>4, <1>5, <1>6, <1>7 DEF Inv

LEMMA EnqueueInv ==
  ASSUME Inv, NEW d \in Deliveries, enqueueDelivery(d) \/ EnqueueFails(d)
  PROVE  Inv'
  <1>1. /\ d \in Actors /\ attempt[d].pc = "write" /\ Fine(d) /\ attempt[d] \in Attempt
        /\ attempt' = [attempt EXCEPT ![d].pc = "send"]
    BY ActorType DEF enqueueDelivery, EnqueueFails, Actors, Inv, AttemptsFine
  <1>2. [attempt[d] EXCEPT !.pc = "send"] \in Attempt
    BY <1>1 DEF Attempt
  <1>3. /\ attempt' \in [Actors -> Attempt] /\ attempt'[d] = [attempt[d] EXCEPT !.pc = "send"]
        /\ \A b \in Actors : b # d => attempt'[b] = attempt[b]
    BY <1>1, <1>2, ActorType DEF Inv
  <1>4. /\ attempt'[d].pc = "send" /\ attempt'[d].id = attempt[d].id
        /\ attempt'[d].next = attempt[d].next /\ attempt'[d].partial = attempt[d].partial
    BY <1>1, <1>3 DEF Attempt
  <1>5. CASE EnqueueFails(d)
    <2>1. UNCHANGED <<kind, history>> /\ Grows
      BY <1>5, HistoryGrows DEF EnqueueFails, history
    <2>2. Fine(d)'
      BY <1>1, <1>4, <2>1 DEF Fine, Live, Written, history
    <2>3. faults' \in 0..MaxFaults
      BY <1>5, DeliveryAssumption DEF EnqueueFails, Inv, HistoryOK
    <2> QED BY <1>1, <1>3, <1>4, <1>5, <2>1, <2>2, <2>3, AttemptInv
            DEF EnqueueFails, history, Inv, HistoryOK
  <1>6. CASE enqueueDelivery(d)
    <2>1. /\ queue' = With(queue, d, 0) /\ written' = Append(written, d)
          /\ UNCHANGED <<kind, failed, recovery, up, started, sends, errors, aborted, mistaken,
                         disturbed, faults>>
      BY <1>6 DEF enqueueDelivery
    <2>2. written' \in Seq(Deliveries) /\ ToSet(written)' = ToSet(written) \cup {d}
      BY <2>1, AppendWritten DEF Inv, HistoryOK
    <2>3. Pending' = Pending \cup {d} /\ \A e \in Pending' : queue'[e] \in Counts
      <3>1. 0 \in Counts
        BY DeliveryAssumption DEF Counts
      <3> QED BY <2>1, <3>1, WithType DEF Inv, DiskOK, Pending
    <2>4. Grows
      BY <2>1, <2>2 DEF Grows
    <2>5. Fine(d)'
      BY <1>1, <1>4, <2>1 DEF Fine, Live, Written
    <2>6. AttemptsFine'
      BY <1>3, <2>4, <2>5, FineStays DEF AttemptsFine
    <2>7. Waiting'
      BY <1>3, <1>4, <2>2 DEF Waiting, Inv, Written, Actors, AttemptsFine, Fine, Live
    <2>8. TodoKnown'
      BY <2>1, <2>2 DEF TodoKnown, Inv, Written
    <2>9. NothingLost'
      BY <2>1, <2>2, <2>3 DEF NothingLost, KeptUntilSent, Inv, Written, OnDisk, AllSent
    <2>10. d \in started
      BY <1>1, DeliveryAssumption DEF Fine, Live
    <2>11. DiskOK' /\ HistoryOK'
      BY <2>1, <2>2, <2>3, <2>10 DEF Inv, DiskOK, HistoryOK
    <2>12. CallsOK'
      BY <1>3, <2>1, DeliveryAssumption DEF Inv, CallsOK, Actors
    <2> QED BY <2>6, <2>7, <2>8, <2>9, <2>11, <2>12 DEF Inv
  <1> QED BY <1>5, <1>6

(* What is known of a call where it sends.                                 *)
LEMMA CallKnown ==
  ASSUME Inv, NEW a \in Actors, attempt[a].pc # "off"
  PROVE  /\ attempt[a] \in Attempt /\ attempt \in [Actors -> Attempt] /\ Fine(a)
         /\ attempt[a].id \in Deliveries /\ attempt[a].id \in started
         /\ Live(a) => attempt[a].id = a
  <1>1. Fine(a)
    BY DEF Inv, AttemptsFine
  <1>2. attempt[a].id \in started
    BY <1>1 DEF Fine
  <1>3. attempt[a] \in Attempt /\ attempt \in [Actors -> Attempt]
    BY ActorType DEF Inv
  <1> QED BY <1>1, <1>2, <1>3 DEF Fine, Inv, HistoryOK

(* The call goes on to its next payload, or to the end of them.            *)
LEMMA MovesOn ==
  ASSUME Inv, NEW a \in Actors, attempt[a].pc = "send",
         NEW next \in 1..(Payloads + 1), NEW partial \in BOOLEAN,
         attempt' = [attempt EXCEPT ![a].next = next, ![a].partial = partial], Grows,
         UNCHANGED <<kind, written>>,
         kind[attempt[a].id] = "strict" =>
            /\ ~partial
            /\ \A p \in 1..Payloads : p < next => sends'[attempt[a].id][p] > 0
  PROVE  /\ attempt' \in [Actors -> Attempt] /\ attempt'[a].pc = "send" /\ Fine(a)'
         /\ \A b \in Actors : b # a => attempt'[b] = attempt[b]
  <1>1. attempt[a] \in Attempt /\ attempt \in [Actors -> Attempt] /\ Fine(a)
    BY CallKnown
  <1>2. [attempt[a] EXCEPT !.next = next, !.partial = partial] \in Attempt
    BY <1>1 DEF Attempt
  <1>3. /\ attempt' \in [Actors -> Attempt]
        /\ attempt'[a] = [attempt[a] EXCEPT !.next = next, !.partial = partial]
        /\ \A b \in Actors : b # a => attempt'[b] = attempt[b]
    BY <1>1, <1>2
  <1>4. /\ attempt'[a].pc = "send" /\ attempt'[a].id = attempt[a].id
        /\ attempt'[a].next = next /\ attempt'[a].partial = partial
    BY <1>1, <1>3 DEF Attempt
  <1>5. Fine(a)'
    BY <1>1, <1>4 DEF Fine, Live, Grows, Written, ToSet
  <1> QED BY <1>3, <1>4, <1>5

LEMMA PayloadSentInv ==
  ASSUME Inv, NEW a \in Actors, NEW t \in SendTimes, PayloadSent(a, t)
  PROVE  Inv'
  <1> DEFINE d == attempt[a].id
             n == attempt[a].next
  <1>1. attempt[a] \in Attempt /\ attempt[a].pc = "send" /\ Fine(a) /\ d \in Deliveries
    BY CallKnown DEF PayloadSent
  <1>2. n \in 1..Payloads /\ n + 1 \in 1..(Payloads + 1) /\ attempt[a].partial \in BOOLEAN
    BY <1>1, DeliveryAssumption DEF PayloadSent, Attempt
  <1>3. /\ sends' = [sends EXCEPT ![d][n] = Smaller(@ + 1, 2)]
        /\ UNCHANGED <<kind, queue, failed, up, started, written, errors,
                       aborted, mistaken, disturbed, faults>>
    BY DEF PayloadSent
  <1>4. /\ sends' \in [Deliveries -> [1..Payloads -> 0..2]] /\ sends'[d][n] > 0
        /\ \A e \in Deliveries, p \in 1..Payloads : sends[e][p] > 0 => sends'[e][p] > 0
    <2> HIDE DEF d, n
    <2>1. Smaller(sends[d][n] + 1, 2) \in 1..2
      <3>1. sends[d][n] \in 0..2
        BY <1>1, <1>2 DEF Inv, HistoryOK
      <3> QED BY <3>1 DEF Smaller
    <2>2. sends'[d] = [sends[d] EXCEPT ![n] = Smaller(sends[d][n] + 1, 2)]
          /\ \A e \in Deliveries : e # d => sends'[e] = sends[e]
      BY <1>1, <1>3 DEF Inv, HistoryOK
    <2>3. sends \in [Deliveries -> [1..Payloads -> 0..2]]
      BY DEF Inv, HistoryOK
    <2>4. sends'[d] \in [1..Payloads -> 0..2]
      BY <1>1, <1>2, <2>1, <2>2, <2>3
    <2>5. sends' \in [Deliveries -> [1..Payloads -> 0..2]]
      BY <1>3, <2>2, <2>3, <2>4
    <2>6. sends'[d][n] > 0 /\ \A p \in 1..Payloads : p # n => sends'[d][p] = sends[d][p]
      <3>1. sends[d] \in [1..Payloads -> 0..2] /\ n \in 1..Payloads
        BY <1>1, <1>2, <2>3
      <3>2. sends'[d][n] = Smaller(sends[d][n] + 1, 2)
            /\ \A p \in 1..Payloads : p # n => sends'[d][p] = sends[d][p]
        BY <2>2, <3>1
      <3>3. sends'[d][n] \in 1..2
        BY <2>1, <3>2
      <3> QED BY <3>2, <3>3
    <2> QED BY <2>2, <2>5, <2>6
  <1>5. Grows
    BY <1>3, <1>4 DEF Grows
  <1>6. attempt' = [attempt EXCEPT ![a].next = n + 1, ![a].partial = attempt[a].partial]
    <2>1. attempt' = [attempt EXCEPT ![a] = [attempt[a] EXCEPT !.next = n + 1]]
      BY DEF PayloadSent
    <2>2. [attempt[a] EXCEPT !.next = n + 1]
             = [attempt[a] EXCEPT !.next = n + 1, !.partial = attempt[a].partial]
      BY <1>1 DEF Attempt
    <2> QED BY <2>1, <2>2, CallKnown, <1>1
  <1>7. kind[d] = "strict" =>
           /\ ~attempt[a].partial
           /\ \A p \in 1..Payloads : p < n + 1 => sends'[d][p] > 0
    <2> SUFFICES ASSUME kind[d] = "strict", NEW p \in 1..Payloads, p < n + 1
                 PROVE  ~attempt[a].partial /\ sends'[d][p] > 0
      BY <1>1, DeliveryAssumption DEF Fine
    <2>1. p < n \/ p = n
      BY <1>2, DeliveryAssumption
    <2> QED BY <1>1, <1>4, <2>1 DEF Fine
  <1>8. /\ attempt' \in [Actors -> Attempt] /\ attempt'[a].pc = "send" /\ Fine(a)'
        /\ \A b \in Actors : b # a => attempt'[b] = attempt[b]
    BY <1>1, <1>2, <1>3, <1>5, <1>6, <1>7, MovesOn
  <1>9. recovery' = Spend(a, t)
    BY DEF PayloadSent
  <1> QED BY <1>1, <1>3, <1>4, <1>5, <1>8, <1>9, AttemptInv DEF Inv, HistoryOK

(* The call of a is over or goes on to settle its entry.                   *)
LEMMA SettleInv ==
  ASSUME Inv, NEW a \in Actors, attempt[a].pc = "send", NEW how \in {"ack", "read"},
         Settle(a, how), Grows, UNCHANGED <<kind, queue, failed, up, started, written, sends>>,
         (kind[attempt[a].id] = "strict" /\ how = "ack") =>
            attempt[a].next = Payloads + 1 \/ attempt[a].id \in aborted' \cup mistaken',
         recovery' = recovery \/ \E t \in SendTimes : recovery' = Spend(a, t),
         errors' \in [Deliveries -> 0..MaxRetries],
         aborted' \subseteq started, mistaken' \subseteq started, UNCHANGED <<disturbed, faults>>
  PROVE  Inv'
  <1>1. /\ attempt' \in [Actors -> Attempt] /\ AttemptsFine' /\ Waiting'
        /\ attempt'[a].pc = "off" => Live(a)
        /\ \A b \in Actors : b # a => attempt'[b] = attempt[b]
    BY SettleFine
  <1>2. CASE attempt'[a].pc # "off"
    <2>1. Fine(a)' /\ attempt'[a].pc # "write"
      <3>1. attempt'[a].pc # "write"
        BY CallKnown DEF Settle, Off, Attempt
      <3> QED BY <1>1, <3>1 DEF AttemptsFine
    <2> QED BY <1>1, <1>2, <2>1, AttemptInv DEF Inv, HistoryOK
  <1>3. CASE attempt'[a].pc = "off"
    <2>1. a \notin Recoveries /\ recovery' = recovery
      BY <1>1, <1>3, ActorType DEF Spend, Inv
    <2>2. CallsOK'
      BY <1>1, <2>1 DEF Inv, CallsOK, Actors
    <2>3. DiskOK' /\ HistoryOK' /\ TodoKnown'
      BY <2>1 DEF Inv, DiskOK, HistoryOK, TodoKnown, Written, ToSet, Pending
    <2>4. NothingLost'
      BY LostStays DEF ToSet, Pending
    <2> QED BY <1>1, <2>2, <2>3, <2>4 DEF Inv
  <1> QED BY <1>2, <1>3

LEMMA PayloadFailsInv ==
  ASSUME Inv, NEW a \in Actors, NEW t \in SendTimes, PayloadFails(a, t)
  PROVE  Inv'
  <1>1. attempt[a] \in Attempt /\ attempt[a].pc = "send" /\ Fine(a)
    BY CallKnown DEF PayloadFails
  <1>2. /\ UNCHANGED <<kind, queue, failed, up, started, written, sends,
                       aborted, mistaken, disturbed, faults>>
        /\ recovery' = Spend(a, t)
        /\ errors' \in [Deliveries -> 0..MaxRetries]
    BY FailingType DEF PayloadFails, Inv
  <1>3. Grows
    BY <1>2 DEF Grows
  <1>4. CASE kind[attempt[a].id] = "strict"
    BY <1>1, <1>2, <1>3, <1>4, SettleInv DEF PayloadFails, Inv, HistoryOK
  <1>5. CASE kind[attempt[a].id] # "strict"
    <2> DEFINE partial == attempt[a].partial \/ (Live(a) /\ kind[attempt[a].id] = "tracked")
    <2>1. attempt[a].next + 1 \in 1..(Payloads + 1) /\ partial \in BOOLEAN
      BY <1>1, DeliveryAssumption DEF PayloadFails, Attempt
    <2>2. attempt' = [attempt EXCEPT ![a].next = attempt[a].next + 1, ![a].partial = partial]
      BY <1>5 DEF PayloadFails
    <2> HIDE DEF partial
    <2>3. /\ attempt' \in [Actors -> Attempt] /\ attempt'[a].pc = "send" /\ Fine(a)'
          /\ \A b \in Actors : b # a => attempt'[b] = attempt[b]
      BY <1>1, <1>2, <1>3, <1>5, <2>1, <2>2, MovesOn
    <2> QED BY <1>1, <1>2, <1>3, <2>3, AttemptInv DEF Inv, HistoryOK
  <1> QED BY <1>4, <1>5

LEMMA AbortInv == ASSUME Inv, NEW d \in Deliveries, Abort(d) PROVE Inv'
  <1>1. /\ d \in Actors /\ attempt[d] \in Attempt /\ attempt[d].pc = "send" /\ Fine(d)
        /\ attempt[d].id = d /\ d \in started
    BY CallKnown DEF Abort, Actors, Live
  <1>2. /\ aborted' = aborted \cup {d}
        /\ UNCHANGED <<kind, queue, failed, recovery, up, started, written, sends, errors,
                       mistaken, disturbed, faults>>
    BY DEF Abort
  <1>3. Grows /\ aborted' \subseteq started
    BY <1>1, <1>2 DEF Grows, Inv, HistoryOK
  <1>4. CASE kind[d] = "strict"
    BY <1>1, <1>2, <1>3, <1>4, SettleInv DEF Abort, Inv, HistoryOK
  <1>5. CASE kind[d] # "strict"
    <2>1. Payloads + 1 \in 1..(Payloads + 1) /\ attempt[d].partial \in BOOLEAN
      BY <1>1, DeliveryAssumption DEF Attempt
    <2>2. attempt' = [attempt EXCEPT ![d].next = Payloads + 1, ![d].partial = attempt[d].partial]
      <3>1. attempt' = [attempt EXCEPT ![d] = [attempt[d] EXCEPT !.next = Payloads + 1]]
        BY <1>5 DEF Abort
      <3>2. [attempt[d] EXCEPT !.next = Payloads + 1]
               = [attempt[d] EXCEPT !.next = Payloads + 1, !.partial = attempt[d].partial]
        BY <1>1 DEF Attempt
      <3> QED BY <3>1, <3>2, CallKnown, <1>1
    <2>3. /\ attempt' \in [Actors -> Attempt] /\ attempt'[d].pc = "send" /\ Fine(d)'
          /\ \A b \in Actors : b # d => attempt'[b] = attempt[b]
      BY <1>1, <1>2, <1>3, <1>5, <2>1, <2>2, MovesOn
    <2> QED BY <1>1, <1>2, <1>3, <2>3, AttemptInv DEF Inv, HistoryOK
  <1> QED BY <1>4, <1>5

(* The call goes on to remove the entry, which its histories excuse.       *)
LEMMA TakenForAbortInv ==
  ASSUME Inv, NEW d \in Deliveries, TakenForAbort(d)
  PROVE  Inv'
  <1>1. /\ d \in Actors /\ attempt[d].pc = "send" /\ attempt[d].id = d /\ d \in started
    BY CallKnown DEF TakenForAbort, Actors, Live, Fine
  <1>2. /\ mistaken' = mistaken \cup {d} /\ Settle(d, "ack")
        /\ UNCHANGED <<kind, queue, failed, recovery, up, started, written, sends, errors,
                       aborted, disturbed, faults>>
    BY DEF TakenForAbort
  <1>3. Grows /\ mistaken' \subseteq started
    BY <1>1, <1>2 DEF Grows, Inv, HistoryOK
  <1> QED BY <1>1, <1>2, <1>3, SettleInv DEF Inv, HistoryOK

LEMMA CoreInv ==
  ASSUME Inv, NEW a \in Actors, CoreThrows(a) \/ CoreReturns(a)
  PROVE  Inv'
  <1>1. attempt[a] \in Attempt /\ attempt[a].pc = "send" /\ Fine(a)
    BY CallKnown DEF CoreThrows, CoreReturns
  <1>2. CASE CoreThrows(a)
    <2>1. /\ UNCHANGED <<kind, queue, failed, recovery, up, started, written, sends,
                         aborted, mistaken, disturbed, faults>>
          /\ errors' \in [Deliveries -> 0..MaxRetries]
      BY <1>2, FailingType DEF CoreThrows, Inv
    <2>2. Grows
      BY <2>1 DEF Grows
    <2> QED BY <1>1, <1>2, <2>1, <2>2, SettleInv DEF CoreThrows, Inv, HistoryOK
  <1>3. CASE CoreReturns(a)
    <2>1. UNCHANGED <<kind, queue, failed, recovery, up, started, written, sends, errors,
                      aborted, mistaken, disturbed, faults>>
      BY <1>3 DEF CoreReturns, history
    <2>2. Grows
      BY <2>1 DEF Grows
    <2> QED BY <1>1, <1>3, <2>1, <2>2, SettleInv DEF CoreReturns, Inv, HistoryOK
  <1> QED BY <1>2, <1>3

-----------------------------------------------------------------------------
(* The entry is settled.                                                   *)

(* A step that ends a call and keeps the disk.                             *)
LEMMA FinishInv ==
  ASSUME Inv, NEW a \in Actors, attempt[a].pc # "off", Finish(a),
         UNCHANGED <<kind, failed, up, started, written, sends, errors, aborted, mistaken>>,
         Pending' = Pending, \A d \in Pending' : queue'[d] \in Counts,
         disturbed' \subseteq started, faults' \in 0..MaxFaults
  PROVE  Inv'
  <1>1. Grows
    BY DEF Grows
  <1>2. /\ attempt' \in [Actors -> Attempt] /\ AttemptsFine' /\ Waiting' /\ TodoKnown'
        /\ \A r \in Recoveries : recovery'[r].pc = "busy" <=> attempt'[r].pc # "off"
        /\ recovery' \in [Recoveries -> Recovery]
    BY <1>1, FinishFine
  <1>3. DiskOK' /\ HistoryOK'
    BY DEF Inv, DiskOK, HistoryOK, ToSet, Pending
  <1>4. NothingLost'
    BY <1>1, LostStays DEF ToSet, Pending
  <1> QED BY <1>2, <1>3, <1>4 DEF Inv, CallsOK

LEMMA AckInv == ASSUME Inv, NEW a \in Actors, Ack(a) PROVE Inv'
  <1> DEFINE d == attempt[a].id
  <1>1. attempt[a] \in Attempt /\ attempt[a].pc = "ack" /\ Fine(a) /\ d \in Deliveries
    BY CallKnown DEF Ack
  <1>2. /\ queue' = Without(queue, d) /\ Finish(a)
        /\ UNCHANGED <<kind, failed, up, started, written, sends, errors,
                       aborted, mistaken, disturbed, faults>>
    BY DEF Ack, ackDelivery, history
  <1>3. Grows
    BY <1>2 DEF Grows
  <1>4. Pending' = Pending \ {d} /\ \A e \in Pending' : queue'[e] \in Counts
    BY <1>2 DEF Without, Inv, DiskOK, Pending
  <1>5. /\ attempt' \in [Actors -> Attempt] /\ AttemptsFine' /\ Waiting' /\ TodoKnown'
        /\ \A r \in Recoveries : recovery'[r].pc = "busy" <=> attempt'[r].pc # "off"
        /\ recovery' \in [Recoveries -> Recovery]
    BY <1>1, <1>2, <1>3, FinishFine
  <1>6. DiskOK' /\ HistoryOK'
    BY <1>2, <1>4 DEF Inv, DiskOK, HistoryOK, ToSet
  <1>7. kind[d] = "strict" => AllSent(d) \/ d \in aborted \cup mistaken
    BY <1>1, DeliveryAssumption DEF Fine, AllSent
  <1>8. NothingLost'
    BY <1>2, <1>4, <1>7 DEF Inv, NothingLost, KeptUntilSent, Written, OnDisk, AllSent, ToSet
  <1> QED BY <1>5, <1>6, <1>8 DEF Inv, CallsOK

LEMMA AckFailsInv == ASSUME Inv, NEW a \in Actors, AckFails(a) PROVE Inv'
  <1>1. attempt[a] \in Attempt /\ attempt[a].pc = "ack" /\ Fine(a) /\ attempt[a].id \in started
    BY CallKnown DEF AckFails
  <1>2. /\ UNCHANGED <<kind, queue, failed, up, started, written, sends, aborted, mistaken>>
        /\ disturbed' \subseteq started /\ faults' \in 0..MaxFaults
    BY <1>1, DeliveryAssumption DEF AckFails, Inv, HistoryOK
  <1>3. CASE Live(a)
    BY <1>1, <1>2, <1>3, FinishInv DEF AckFails, Inv, DiskOK, Pending
  <1>4. CASE ~Live(a)
    <2>1. attempt' = [attempt EXCEPT ![a].pc = "read"] /\ errors' = Failing(attempt[a].id)
          /\ recovery' = recovery
      BY <1>4 DEF AckFails
    <2>2. [attempt[a] EXCEPT !.pc = "read"] \in Attempt
      BY <1>1 DEF Attempt
    <2>3. /\ attempt' \in [Actors -> Attempt] /\ attempt'[a] = [attempt[a] EXCEPT !.pc = "read"]
          /\ \A b \in Actors : b # a => attempt'[b] = attempt[b]
      BY <2>1, <2>2, ActorType DEF Inv
    <2>4. /\ attempt'[a].pc = "read" /\ attempt'[a].id = attempt[a].id
          /\ attempt'[a].next = attempt[a].next /\ attempt'[a].partial = attempt[a].partial
      BY <1>1, <2>3 DEF Attempt
    <2>5. Grows /\ Fine(a)'
      BY <1>1, <1>2, <2>4 DEF Grows, Fine, Live, Written, ToSet
    <2> QED BY <1>1, <1>2, <2>1, <2>3, <2>4, <2>5, AttemptInv, FailingType DEF Inv, HistoryOK
  <1> QED BY <1>3, <1>4

LEMMA FailReadsInv == ASSUME Inv, NEW a \in Actors, FailReads(a) PROVE Inv'
  <1>1. attempt[a] \in Attempt /\ attempt[a].pc = "read" /\ Fine(a) /\ attempt[a].id \in started
    BY CallKnown DEF FailReads
  <1>2. UNCHANGED <<kind, queue, failed, up, started, written, sends, errors,
                    aborted, mistaken, disturbed, faults>>
    BY DEF FailReads, history
  <1>3. CASE attempt[a].id \notin Pending
    BY <1>1, <1>2, <1>3, FinishInv DEF FailReads, Inv, DiskOK, HistoryOK, Pending
  <1>4. CASE attempt[a].id \in Pending
    <2>1. attempt' = [attempt EXCEPT ![a].pc = "rewrite", ![a].raw = queue[attempt[a].id]]
          /\ recovery' = recovery
      BY <1>4 DEF FailReads
    <2>2. [attempt[a] EXCEPT !.pc = "rewrite", !.raw = queue[attempt[a].id]] \in Attempt
      BY <1>1, <1>4 DEF Attempt, Inv, DiskOK
    <2>3. /\ attempt' \in [Actors -> Attempt]
          /\ attempt'[a] = [attempt[a] EXCEPT !.pc = "rewrite", !.raw = queue[attempt[a].id]]
          /\ \A b \in Actors : b # a => attempt'[b] = attempt[b]
      BY <2>1, <2>2, ActorType DEF Inv
    <2>4. /\ attempt'[a].pc = "rewrite" /\ attempt'[a].id = attempt[a].id
          /\ attempt'[a].next = attempt[a].next /\ attempt'[a].partial = attempt[a].partial
      BY <1>1, <2>3 DEF Attempt
    <2>5. Grows /\ Fine(a)'
      BY <1>1, <1>2, <2>4 DEF Grows, Fine, Live, Written, ToSet
    <2> QED BY <1>1, <1>2, <2>1, <2>3, <2>4, <2>5, AttemptInv DEF Inv, HistoryOK
  <1> QED BY <1>3, <1>4

LEMMA FailWritesInv == ASSUME Inv, NEW a \in Actors, FailWrites(a) PROVE Inv'
  <1> DEFINE d == attempt[a].id
             n == Smaller(attempt[a].raw + 1, MaxRetries)
  <1>1. attempt[a] \in Attempt /\ attempt[a].pc = "rewrite" /\ Fine(a)
    BY CallKnown DEF FailWrites
  <1>2. /\ queue' = With(queue, d, n) /\ Finish(a)
        /\ UNCHANGED <<kind, failed, up, started, written, sends, errors,
                       aborted, mistaken, disturbed, faults>>
    BY DEF FailWrites, RewriteEntry, history
  <1>3. n \in Counts
    BY <1>1, DeliveryAssumption DEF Attempt, Counts, Smaller
  <1>4. Pending' = Pending \cup {d} /\ \A e \in Pending' : queue'[e] \in Counts
    BY <1>2, <1>3 DEF With, Inv, DiskOK, Pending
  <1>5. Written(d)
    BY <1>1 DEF Fine
  <1>6. Grows
    BY <1>2 DEF Grows
  <1>7. /\ attempt' \in [Actors -> Attempt] /\ AttemptsFine' /\ Waiting' /\ TodoKnown'
        /\ \A r \in Recoveries : recovery'[r].pc = "busy" <=> attempt'[r].pc # "off"
        /\ recovery' \in [Recoveries -> Recovery]
    BY <1>1, <1>2, <1>6, FinishFine
  <1>8. DiskOK' /\ HistoryOK'
    BY <1>2, <1>4, <1>5 DEF Inv, DiskOK, HistoryOK, ToSet, Written
  <1>9. NothingLost'
    BY <1>2, <1>4, <1>6, LostStays DEF ToSet
  <1> QED BY <1>7, <1>8, <1>9 DEF Inv, CallsOK

LEMMA FailDeliveryFailsInv == ASSUME Inv, NEW a \in Actors, FailDeliveryFails(a) PROVE Inv'
  <1>1. attempt[a].pc # "off" /\ attempt[a].id \in started
    BY CallKnown DEF FailDeliveryFails
  <1>2. disturbed' \subseteq started /\ faults' \in 0..MaxFaults
    BY <1>1, DeliveryAssumption DEF FailDeliveryFails, Inv, HistoryOK
  <1> QED BY <1>1, <1>2, FinishInv DEF FailDeliveryFails, Inv, DiskOK, Pending

-----------------------------------------------------------------------------
(* The steps of a recovery.                                                *)

(* A step of a recovery that is in no call, and leaves the disk.           *)
LEMMA RecoveryInv ==
  ASSUME Inv, NEW r \in Recoveries, NEW rec \in Recovery,
         recovery' = [recovery EXCEPT ![r] = rec],
         rec.pc # "busy", recovery[r].pc # "busy",
         \A i \in 1..Len(rec.todo) : Written(rec.todo[i].id),
         UNCHANGED <<kind, queue, failed, attempt, started, written, sends, errors,
                     aborted, mistaken>>,
         up' \in BOOLEAN, disturbed' \subseteq started, faults' \in 0..MaxFaults
  PROVE  Inv'
  <1>1. /\ recovery' \in [Recoveries -> Recovery] /\ recovery'[r] = rec
        /\ \A q \in Recoveries : q # r => recovery'[q] = recovery[q]
    BY DEF Inv, CallsOK
  <1>2. Grows
    BY DEF Grows
  <1>3. CallsOK'
    BY <1>1 DEF Inv, CallsOK
  <1>4. TodoKnown' /\ Waiting'
    BY <1>1 DEF Inv, TodoKnown, Waiting, Written, ToSet
  <1>5. AttemptsFine'
    BY <1>2, FineStays DEF AttemptsFine
  <1>6. DiskOK' /\ HistoryOK'
    BY DEF Inv, DiskOK, HistoryOK, ToSet, Pending
  <1>7. NothingLost'
    BY <1>2, LostStays DEF ToSet, Pending
  <1> QED BY <1>3, <1>4, <1>5, <1>6, <1>7 DEF Inv

LEMMA TodoStays ==
  ASSUME Inv, written' = written,
         \A q \in Recoveries : \/ recovery'[q].todo = recovery[q].todo
                              \/ \A i \in 1..Len(recovery'[q].todo) : Written(recovery'[q].todo[i].id)
  PROVE  TodoKnown'
  <1> SUFFICES ASSUME NEW q \in Recoveries, NEW i \in 1..Len(recovery'[q].todo)
               PROVE  Written(recovery'[q].todo[i].id)
    BY DEF TodoKnown, Written, ToSet
  <1> QED BY DEF Inv, TodoKnown

LEMMA LoadInv == ASSUME Inv, NEW r \in Recoveries, Load(r) PROVE Inv'
  <1>1. PICK todo \in loadPendingDeliveries :
          recovery' = [recovery EXCEPT ![r] = [pc |-> "next", todo |-> todo, spent |-> 0]]
    BY DEF Load
  <1> DEFINE n == Cardinality(Pending)
  <1>2. PICK order \in [1..n -> Pending] :
          todo = [i \in 1..n |-> [id |-> order[i], retry |-> queue[order[i]]]]
    BY DEF loadPendingDeliveries
  <1>3. n \in Nat
    <2>1. written \in Seq(Deliveries)
      BY DEF Inv, HistoryOK
    <2>2. IsFiniteSet(ToSet(written))
      <3>1. IsFiniteSet(1..Len(written))
        BY <2>1, FS_Interval
      <3>2. written \in [1..Len(written) -> ToSet(written)]
            /\ \A d \in ToSet(written) : \E i \in 1..Len(written) : written[i] = d
        BY <2>1 DEF ToSet
      <3>3. written \in Surjection(1..Len(written), ToSet(written))
        BY <3>2 DEF Surjection
      <3> QED BY <3>1, <3>3, FS_Surjection
    <2>3. IsFiniteSet(Pending)
      BY <2>2, FS_Subset DEF Inv, DiskOK
    <2> QED BY <2>3, FS_CardinalityType
  <1>4. todo \in Seq(Entry) /\ \A i \in 1..Len(todo) : Written(todo[i].id)
    <2>1. \A d \in Pending : d \in Deliveries /\ queue[d] \in Counts /\ Written(d)
      BY DEF Inv, DiskOK, HistoryOK, Written
    <2>2. \A i \in 1..n : todo[i] \in Entry /\ Written(todo[i].id)
      BY <1>2, <2>1 DEF Entry
    <2>3. todo \in Seq(Entry) /\ Len(todo) = n
      BY <1>2, <1>3, <2>2
    <2> QED BY <2>2, <2>3
  <1>5. [pc |-> "next", todo |-> todo, spent |-> 0] \in Recovery
    BY <1>4, DeliveryAssumption DEF Recovery
  <1>6. disturbed' \subseteq started
    BY DEF Load, Inv, DiskOK, HistoryOK
  <1> QED BY <1>1, <1>4, <1>5, <1>6, RecoveryInv DEF Load, Inv, HistoryOK

LEMMA RecoveryEndsInv == ASSUME Inv, NEW r \in Recoveries, RecoveryEnds(r) PROVE Inv'
  <1>1. NoRecovery \in Recovery /\ NoRecovery.pc # "busy" /\ Len(NoRecovery.todo) = 0
    BY DeliveryAssumption DEF NoRecovery, Recovery
  <1>2. /\ recovery' = [recovery EXCEPT ![r] = NoRecovery] /\ recovery[r].pc = "next"
        /\ UNCHANGED <<kind, queue, failed, attempt, up, started, written, sends, errors,
                       aborted, mistaken,
                       disturbed, faults>>
    BY DEF RecoveryEnds, history
  <1>3. \A i \in 1..Len(NoRecovery.todo) : Written(NoRecovery.todo[i].id)
    BY <1>1
  <1> HIDE DEF NoRecovery
  <1> QED BY <1>1, <1>2, <1>3, RecoveryInv DEF Inv, HistoryOK

(* The entry at the head, and what is left.                                *)
LEMMA HeadKnown ==
  ASSUME Inv, NEW r \in Recoveries, recovery[r].todo # <<>>
  PROVE  /\ HeadOf(r) \in Entry /\ Written(HeadOf(r).id)
         /\ Tail(recovery[r].todo) \in Seq(Entry)
         /\ \A i \in 1..Len(Tail(recovery[r].todo)) : Written(Tail(recovery[r].todo)[i].id)
         /\ recovery[r] \in Recovery
  <1> DEFINE todo == recovery[r].todo
  <1>1. recovery[r] \in Recovery /\ todo \in Seq(Entry) /\ \A i \in 1..Len(todo) : Written(todo[i].id)
    BY DEF Inv, CallsOK, TodoKnown, Recovery
  <1>2. /\ Len(todo) \in Nat \ {0} /\ Head(todo) = todo[1] /\ Tail(todo) \in Seq(Entry)
        /\ Len(Tail(todo)) = Len(todo) - 1
        /\ \A i \in 1..Len(todo) - 1 : Tail(todo)[i] = todo[i + 1]
    BY <1>1
  <1>3. 1 \in 1..Len(todo) /\ \A i \in 1..Len(todo) - 1 : i + 1 \in 1..Len(todo)
    BY <1>2
  <1>4. todo[1] \in Entry /\ Written(todo[1].id)
    BY <1>1, <1>3
  <1>5. \A i \in 1..Len(Tail(todo)) : Written(Tail(todo)[i].id)
    BY <1>1, <1>2, <1>3
  <1> QED BY <1>1, <1>2, <1>4, <1>5 DEF HeadOf

LEMMA RetryInv == ASSUME Inv, NEW r \in Recoveries, Retry(r) PROVE Inv'
  <1> DEFINE d == HeadOf(r).id
  <1>1. /\ HeadOf(r) \in Entry /\ Written(d)
        /\ Tail(recovery[r].todo) \in Seq(Entry)
        /\ \A i \in 1..Len(Tail(recovery[r].todo)) : Written(Tail(recovery[r].todo)[i].id)
        /\ recovery[r] \in Recovery
    BY HeadKnown DEF Retry
  <1>2. d \in Deliveries /\ HeadOf(r).retry \in Nat /\ d \in started
    BY <1>1, DeliveryAssumption DEF Entry, Counts, Written, Inv, HistoryOK
  <1>3. Delay(r) \in Nat
    BY <1>2, BackoffType DEF Delay
  <1>4. recovery[r].spent + Delay(r) \in 0..Budget
    <2>1. recovery[r].spent \in 0..Budget
      BY <1>1 DEF Recovery
    <2> QED BY <1>3, <2>1, DeliveryAssumption DEF Retry, OutOfTime
  <1>5. Taken(r, Delay(r)) \in Recovery
    BY <1>1, <1>4 DEF Taken, Recovery
  <1>6. Taken(r, Delay(r)).pc = "busy" /\ Taken(r, Delay(r)).todo = Tail(recovery[r].todo)
    BY <1>1 DEF Taken, Recovery
  <1>7. /\ recovery' = [recovery EXCEPT ![r] = Taken(r, Delay(r))]
        /\ attempt' = [attempt EXCEPT ![r] = Sending(d)]
        /\ UNCHANGED <<kind, queue, failed, up, started, written, sends, errors, aborted, mistaken,
                       disturbed, faults>>
    BY DEF Retry, history
  <1>8. Sending(d) \in Attempt
    BY <1>2, OffType DEF Sending, Attempt
  <1>9. /\ attempt' \in [Actors -> Attempt] /\ recovery' \in [Recoveries -> Recovery]
        /\ attempt'[r] = Sending(d) /\ recovery'[r] = Taken(r, Delay(r)) /\ r \in Actors
        /\ \A a \in Actors : a # r => attempt'[a] = attempt[a]
        /\ \A q \in Recoveries : q # r => recovery'[q] = recovery[q]
    BY <1>5, <1>7, <1>8 DEF Inv, CallsOK, Actors
  <1>10. /\ attempt'[r].pc = "send" /\ attempt'[r].id = d /\ attempt'[r].next = 1
         /\ ~attempt'[r].partial
    BY <1>9 DEF Sending, Off
  <1>11. CallsOK'
    BY <1>6, <1>9, <1>10 DEF Inv, CallsOK, Actors
  <1>12. Grows
    BY <1>7 DEF Grows
  <1>13. AttemptsFine'
    <2>1. r \notin Deliveries
      BY DeliveryAssumption
    <2>2. Fine(r)'
      BY <1>1, <1>2, <1>7, <1>10, <2>1 DEF Fine, Live, Written, ToSet
    <2> QED BY <1>9, <1>12, <2>2, FineStays DEF AttemptsFine
  <1>14. Waiting'
    BY <1>7, <1>9, <1>10 DEF Inv, Waiting, Written, ToSet, Actors
  <1>15. TodoKnown'
    BY <1>1, <1>6, <1>7, <1>9, TodoStays
  <1>16. DiskOK' /\ HistoryOK'
    BY <1>7 DEF Inv, DiskOK, HistoryOK, ToSet, Pending
  <1>17. NothingLost'
    BY <1>7, <1>12, LostStays DEF ToSet, Pending
  <1> QED BY <1>11, <1>13, <1>14, <1>15, <1>16, <1>17 DEF Inv

LEMMA GiveUpInv ==
  ASSUME Inv, NEW r \in Recoveries, GiveUp(r) \/ GiveUpFails(r)
  PROVE  Inv'
  <1> DEFINE d == HeadOf(r).id
             rec == [recovery[r] EXCEPT !.todo = Tail(@)]
  <1>1. /\ HeadOf(r) \in Entry /\ Written(d)
        /\ Tail(recovery[r].todo) \in Seq(Entry)
        /\ \A i \in 1..Len(Tail(recovery[r].todo)) : Written(Tail(recovery[r].todo)[i].id)
        /\ recovery[r] \in Recovery /\ recovery[r].pc = "next"
    BY HeadKnown DEF GiveUp, GiveUpFails
  <1>2. rec \in Recovery /\ rec.pc = "next" /\ rec.todo = Tail(recovery[r].todo)
    BY <1>1 DEF Recovery
  <1>3. recovery' = [recovery EXCEPT ![r] = rec]
    BY DEF GiveUp, GiveUpFails
  <1> HIDE DEF rec
  <1>4. CASE GiveUpFails(r)
    <2>1. faults' \in 0..MaxFaults
      BY <1>4, DeliveryAssumption DEF GiveUpFails, Inv, HistoryOK
    <2> QED BY <1>1, <1>2, <1>3, <1>4, <2>1, RecoveryInv DEF GiveUpFails, history, Inv, HistoryOK
  <1>5. CASE GiveUp(r)
    <2>1. /\ queue' = Without(queue, d)
          /\ failed' = IF d \in Pending THEN failed \cup {d} ELSE failed
          /\ UNCHANGED <<kind, attempt, up, started, written, sends, errors, aborted, mistaken,
                         disturbed, faults>>
      BY <1>5 DEF GiveUp, moveToFailed, history
    <2>2. Pending' = Pending \ {d} /\ \A e \in Pending' : queue'[e] \in Counts
      BY <2>1 DEF Without, Inv, DiskOK, Pending
    <2>3. Grows
      BY <2>1 DEF Grows
    <2>4. DiskOK' /\ HistoryOK'
      BY <1>1, <2>1, <2>2 DEF Inv, DiskOK, HistoryOK, ToSet, Written
    <2>5. NothingLost'
      BY <2>1, <2>2, <2>3, LostStays DEF ToSet
    <2>6. /\ recovery' \in [Recoveries -> Recovery] /\ recovery'[r] = rec
          /\ \A q \in Recoveries : q # r => recovery'[q] = recovery[q]
      BY <1>2, <1>3 DEF Inv, CallsOK
    <2>7. CallsOK'
      BY <1>1, <1>2, <2>1, <2>6 DEF Inv, CallsOK
    <2>8. TodoKnown' /\ Waiting'
      <3>1. TodoKnown'
        BY <1>1, <1>2, <2>1, <2>6, TodoStays
      <3> QED BY <2>1, <3>1 DEF Inv, Waiting, Written, ToSet
    <2>9. AttemptsFine'
      BY <2>1, <2>3, FineStays DEF AttemptsFine
    <2> QED BY <2>4, <2>5, <2>7, <2>8, <2>9 DEF Inv
  <1> QED BY <1>4, <1>5

-----------------------------------------------------------------------------
(* The gateway process.                                                    *)
LEMMA StartInv == ASSUME Inv, Start \/ RestartInProcess PROVE Inv'
  <1>1. PICK r \in Recoveries : StartRecovery(r)
    BY DEF Start, RestartInProcess
  <1> DEFINE rec == [recovery[r] EXCEPT !.pc = "load"]
  <1>2. recovery[r] \in Recovery /\ recovery[r].pc = "off"
    BY <1>1 DEF StartRecovery, Inv, CallsOK
  <1>3. rec \in Recovery /\ rec.pc = "load" /\ rec.todo = recovery[r].todo
    BY <1>2 DEF Recovery
  <1>4. recovery' = [recovery EXCEPT ![r] = rec]
    BY <1>1 DEF StartRecovery
  <1> HIDE DEF rec
  <1>5. \A i \in 1..Len(rec.todo) : Written(rec.todo[i].id)
    BY <1>3 DEF Inv, TodoKnown
  <1>6. up' \in BOOLEAN
    BY DEF Start, RestartInProcess, Inv, HistoryOK
  <1> QED BY <1>1, <1>2, <1>3, <1>4, <1>5, <1>6, RecoveryInv DEF StartRecovery, history, Inv, HistoryOK

LEMMA StopInv == ASSUME Inv, Stop PROVE Inv'
  <1>1. UNCHANGED <<kind, queue, failed, attempt, recovery, history, faults>> /\ up' = FALSE
    BY DEF Stop
  <1>2. Grows
    BY <1>1, HistoryGrows
  <1>3. DiskOK' /\ CallsOK' /\ HistoryOK'
    BY <1>1 DEF Inv, DiskOK, CallsOK, HistoryOK, ToSet, Pending, history
  <1>4. Waiting' /\ TodoKnown'
    BY <1>1, TodoStays DEF Inv, Waiting, Written, ToSet, history
  <1>5. AttemptsFine'
    BY <1>1, <1>2, FineStays DEF AttemptsFine
  <1>6. NothingLost'
    BY <1>1, <1>2, LostStays DEF ToSet, Pending, history
  <1> QED BY <1>3, <1>4, <1>5, <1>6 DEF Inv

LEMMA CrashInv == ASSUME Inv, Crash PROVE Inv'
  <1>1. /\ UNCHANGED <<kind, queue, failed, started, written, sends, errors, aborted, mistaken>>
        /\ up' = FALSE /\ faults' \in 0..MaxFaults
        /\ attempt' = [a \in Actors |-> Off] /\ recovery' = [r \in Recoveries |-> NoRecovery]
    BY DeliveryAssumption DEF Crash, Inv, HistoryOK
  <1>2. NoRecovery \in Recovery /\ NoRecovery.pc = "off" /\ Len(NoRecovery.todo) = 0
    BY DeliveryAssumption DEF NoRecovery, Recovery
  <1>3. Off.pc = "off"
    BY DEF Off
  <1>4. CallsOK'
    BY <1>1, <1>2, <1>3, OffType DEF CallsOK, Actors
  <1>5. TodoKnown' /\ Waiting' /\ AttemptsFine'
    BY <1>1, <1>2, <1>3 DEF TodoKnown, Waiting, AttemptsFine, Fine, Actors
  <1>6. disturbed' \subseteq started
    BY CallKnown DEF Crash, Inv, HistoryOK
  <1>7. DiskOK' /\ HistoryOK'
    BY <1>1, <1>6 DEF Inv, DiskOK, HistoryOK, ToSet, Pending
  <1>8. Grows
    BY <1>1 DEF Grows
  <1>9. NothingLost'
    BY <1>1, <1>8, LostStays DEF ToSet, Pending
  <1> QED BY <1>4, <1>5, <1>7, <1>9 DEF Inv

-----------------------------------------------------------------------------
LEMMA InitInv == Init => Inv
  <1> SUFFICES ASSUME Init PROVE Inv
    OBVIOUS
  <1>1. Pending = {} /\ ToSet(written) = {} /\ written \in Seq(Deliveries)
    BY DEF Init, Pending, ToSet
  <1>2. NoRecovery \in Recovery /\ NoRecovery.pc = "off" /\ Len(NoRecovery.todo) = 0 /\ Off.pc = "off"
    BY DeliveryAssumption DEF NoRecovery, Recovery, Off
  <1>3. CallsOK
    BY <1>2, OffType DEF Init, CallsOK, Actors
  <1>4. HistoryOK
    <2>1. 0 \in 0..MaxRetries /\ 0 \in 0..MaxFaults /\ 0 \in 0..2
      BY DeliveryAssumption
    <2> QED BY <1>1, <2>1 DEF Init, HistoryOK
  <1>5. DiskOK
    BY <1>1 DEF Init, DiskOK
  <1>6. TodoKnown /\ Waiting /\ AttemptsFine
    BY <1>2 DEF Init, TodoKnown, Waiting, AttemptsFine, Fine, Actors
  <1>7. NothingLost
    BY <1>1 DEF NothingLost, KeptUntilSent, Written
  <1> QED BY <1>3, <1>4, <1>5, <1>6, <1>7 DEF Inv

LEMMA NextInv == Inv /\ [Next]_vars => Inv'
  <1> SUFFICES ASSUME Inv, [Next]_vars PROVE Inv'
    OBVIOUS
  <1>1. ASSUME NEW d \in Deliveries, Deliver(d) \/ enqueueDelivery(d) \/ EnqueueFails(d) \/ Abort(d)
                                   \/ TakenForAbort(d)
        PROVE  Inv'
    BY <1>1, DeliverInv, EnqueueInv, AbortInv, TakenForAbortInv
  <1>2. ASSUME NEW a \in Actors, DeliveryStep(a) \/ DeliveryFaults(a)
        PROVE  Inv'
    <2>1. CASE \E t \in SendTimes : PayloadSent(a, t) \/ PayloadFails(a, t)
      BY <2>1, PayloadSentInv, PayloadFailsInv
    <2>2. CASE CoreThrows(a) \/ CoreReturns(a)
      BY <2>2, CoreInv
    <2>3. CASE Ack(a) \/ FailReads(a) \/ FailWrites(a)
      BY <2>3, AckInv, FailReadsInv, FailWritesInv
    <2>4. CASE AckFails(a) \/ FailDeliveryFails(a)
      BY <2>4, AckFailsInv, FailDeliveryFailsInv
    <2> QED BY <1>2, <2>1, <2>2, <2>3, <2>4 DEF DeliveryStep, DeliveryFaults
  <1>3. ASSUME NEW r \in Recoveries, RecoveryStep(r) \/ GiveUpFails(r)
        PROVE  Inv'
    BY <1>3, LoadInv, RecoveryEndsInv, RetryInv, GiveUpInv DEF RecoveryStep
  <1>4. CASE UNCHANGED vars
    BY <1>4 DEF vars, Inv, DiskOK, CallsOK, HistoryOK, TodoKnown, Waiting, AttemptsFine, Fine,
                NothingLost, KeptUntilSent, Written, OnDisk, AllSent, ToSet, Pending, Live
  <1> QED BY <1>1, <1>2, <1>3, <1>4, StartInv, StopInv, CrashInv DEF Next

(* The inductive invariant holds in every reachable state.                 *)
THEOREM SpecInv == Spec => []Inv
  BY InitInv, NextInv, PTL DEF Spec

(* Type correctness for every set of deliveries and recoveries.            *)
THEOREM SpecTypeOK == Spec => []TypeOK
  <1>1. Inv => TypeOK
    BY DEF Inv, DiskOK, CallsOK, HistoryOK, TypeOK, Attempt, Recovery
  <1> QED BY <1>1, SpecInv, PTL

(* A strict delivery that reached the disk stays in the queue or in        *)
(* failed/ until each of its payloads has been sent, whatever fails and    *)
(* wherever the process ends, unless its caller aborted it or its own      *)
(* failure was taken for an abort (deliver.ts 231, 272-276).               *)
THEOREM SpecNothingLost == Spec => []NothingLost
  <1>1. Inv => NothingLost
    BY DEF Inv
  <1> QED BY <1>1, SpecInv, PTL

-----------------------------------------------------------------------------
(* The counts, and how often a payload is sent.                            *)

(* Calls that are to count a failure, or know that they will.              *)
Owing(d) ==
    {a \in Actors : /\ attempt[a].id = d
                    /\ attempt[a].pc = "read" \/ (attempt[a].pc = "send" /\ attempt[a].partial)}

(* What the recoveries that go on have in their lists of entries.          *)
Listed(d) == \E r \in Recoveries : \E i \in 1..Len(recovery[r].todo) : recovery[r].todo[i].id = d

ListedOnce(d) ==
    \A r, q \in Recoveries : \A i \in 1..Len(recovery[r].todo), j \in 1..Len(recovery[q].todo) :
       recovery[r].todo[i].id = d /\ recovery[q].todo[j].id = d => r = q /\ i = j

ListedWithin(d, n) ==
    \A r \in Recoveries : \A i \in 1..Len(recovery[r].todo) :
       recovery[r].todo[i].id = d => recovery[r].todo[i].retry <= n

(* Short of MaxRetries, every count that is written anywhere is backed by  *)
(* failed attempts, and so is every count that is still to be written,     *)
(* however the calls on an entry overlap.                                  *)
Tally(d) ==
    /\ IsFiniteSet(Owing(d))
    /\ d \in failed => errors[d] = MaxRetries
    /\ errors[d] < MaxRetries =>
          /\ d \in Pending => queue[d] + Cardinality(Owing(d)) <= errors[d]
          /\ \A a \in Actors : attempt[a].pc = "rewrite" /\ attempt[a].id = d =>
                attempt[a].raw + 1 + Cardinality(Owing(d)) <= errors[d]
          /\ ListedWithin(d, errors[d])

WorksOn(a, d) == attempt[a].pc # "off" /\ attempt[a].id = d

(* One call at a time, which no recovery has still before it.              *)
Alone(d) ==
    /\ \A a, b \in Actors : WorksOn(a, d) /\ WorksOn(b, d) => a = b
    /\ ListedOnce(d)
    /\ Listed(d) => \A a \in Actors : ~WorksOn(a, d)

(* An entry that nobody works on: nothing was sent without a failure, and  *)
(* each failure was counted.                                               *)
Ready(d) ==
    /\ errors[d] = 0 => \A p \in 1..Payloads : sends[d][p] = 0
    /\ kind[d] = "strict" => queue[d] = errors[d]

(* A call that has met no failure has sent what it has passed, once.       *)
Clean(a) ==
    /\ attempt[a].pc \in {"write", "send", "ack"} /\ ~attempt[a].partial
    /\ attempt[a].pc # "ack" =>
          \A p \in 1..Payloads : attempt[a].next <= p => sends[attempt[a].id][p] = 0

(* The count is, or is about to be, the number of failures.                *)
Counting(a) ==
    LET d == attempt[a].id IN
    /\ attempt[a].pc = "write" => errors[d] = 0
    /\ attempt[a].pc = "send" /\ d \in Pending => queue[d] = errors[d]
    /\ attempt[a].pc = "read" /\ d \in Pending => Smaller(queue[d] + 1, MaxRetries) = errors[d]
    /\ attempt[a].pc = "rewrite" => Smaller(attempt[a].raw + 1, MaxRetries) = errors[d]

Underway(a) ==
    /\ errors[attempt[a].id] = 0 => Clean(a)
    /\ kind[attempt[a].id] = "strict" => Counting(a)

(* A delivery that met no fault and no overlap.                            *)
Undisturbed(d) ==
    /\ Alone(d)
    /\ Listed(d) => d \in Pending
    /\ errors[d] = 0 => \A p \in 1..Payloads : sends[d][p] < 2
    /\ d \in Pending /\ (\A a \in Actors : ~WorksOn(a, d)) => Ready(d)
    /\ \A a \in Actors : WorksOn(a, d) => Underway(a)

(* What has not been requested, or not been written, is untouched.         *)
Untouched ==
    /\ \A d \in Deliveries \ started :
          errors[d] = 0 /\ \A p \in 1..Payloads : sends[d][p] = 0
    /\ \A d \in Deliveries : attempt[d].pc = "write" => ~attempt[d].partial
    /\ \A i, j \in 1..Len(written) : written[i] = written[j] => i = j

Counted ==
    /\ Untouched
    /\ \A d \in Deliveries : Tally(d)
    /\ \A d \in Deliveries \ disturbed : Undisturbed(d)

-----------------------------------------------------------------------------
(* Numbers of owing calls.                                                 *)
LEMMA OwingLess ==
  ASSUME NEW S, NEW T, NEW a, IsFiniteSet(S), T \subseteq S \cup {a}
  PROVE  /\ IsFiniteSet(T) /\ Cardinality(T) \in Nat /\ Cardinality(S) \in Nat
         /\ Cardinality(T) <= Cardinality(S) + 1
         /\ T \subseteq S => Cardinality(T) <= Cardinality(S)
         /\ T \subseteq S \ {a} /\ a \in S => Cardinality(T) + 1 <= Cardinality(S)
  <1>1. IsFiniteSet(S \cup {a}) /\ Cardinality(S \cup {a}) \in Nat /\ Cardinality(S) \in Nat
        /\ Cardinality(S \cup {a}) <= Cardinality(S) + 1
    <2>1. Cardinality(S) \in Nat
      BY FS_CardinalityType
    <2>2. IsFiniteSet(S \cup {a}) /\ Cardinality(S \cup {a}) \in {Cardinality(S), Cardinality(S) + 1}
      BY FS_AddElement
    <2> QED BY <2>1, <2>2
  <1>2. IsFiniteSet(T) /\ Cardinality(T) \in Nat /\ Cardinality(T) <= Cardinality(S) + 1
    BY <1>1, FS_Subset, FS_CardinalityType
  <1>3. T \subseteq S => Cardinality(T) <= Cardinality(S)
    BY FS_Subset
  <1>4. ASSUME T \subseteq S \ {a}, a \in S
        PROVE  Cardinality(T) + 1 <= Cardinality(S)
    <2>1. IsFiniteSet(S \ {a}) /\ Cardinality(S \ {a}) = Cardinality(S) - 1
      BY <1>4, FS_RemoveElement
    <2>2. Cardinality(T) <= Cardinality(S \ {a})
      BY <1>4, <2>1, FS_Subset
    <2> QED BY <1>1, <1>2, <2>1, <2>2
  <1> QED BY <1>1, <1>2, <1>3, <1>4

-----------------------------------------------------------------------------
(* A step of one call: it touches no other delivery, and no list.          *)
Same(d) ==
    /\ errors'[d] = errors[d] /\ sends'[d] = sends[d]
    /\ d \in Pending' <=> d \in Pending
    /\ d \in Pending => queue'[d] = queue[d]

CallStep(a) ==
    /\ attempt[a].pc # "off"
    /\ attempt' \in [Actors -> Attempt] /\ attempt'[a].pc # "write"
    /\ attempt'[a].pc = "off" \/ attempt'[a].id = attempt[a].id
    /\ \A b \in Actors : b # a => attempt'[b] = attempt[b]
    /\ \A r \in Recoveries : recovery'[r].todo = recovery[r].todo
    /\ UNCHANGED <<kind, failed, started>> /\ disturbed \subseteq disturbed'
    /\ \A d \in Deliveries : d # attempt[a].id => Same(d)

LEMMA ListsStay ==
  ASSUME \A r \in Recoveries : recovery'[r].todo = recovery[r].todo, NEW d, NEW n
  PROVE  /\ Listed(d)' <=> Listed(d)
         /\ ListedOnce(d) => ListedOnce(d)'
         /\ ListedWithin(d, n)' <=> ListedWithin(d, n)
  <1>1. Listed(d)' <=> Listed(d)
    BY DEF Listed
  <1>2. ASSUME ListedOnce(d) PROVE ListedOnce(d)'
    <2> SUFFICES ASSUME NEW q \in Recoveries, NEW r \in Recoveries,
                        NEW i \in 1..Len(recovery'[q].todo), NEW j \in 1..Len(recovery'[r].todo),
                        recovery'[q].todo[i].id = d, recovery'[r].todo[j].id = d
                 PROVE  q = r /\ i = j
      BY DEF ListedOnce
    <2>1. recovery'[q].todo = recovery[q].todo /\ recovery'[r].todo = recovery[r].todo
      OBVIOUS
    <2> QED BY <1>2, <2>1 DEF ListedOnce
  <1>3. ListedWithin(d, n)' <=> ListedWithin(d, n)
    BY DEF ListedWithin
  <1> QED BY <1>1, <1>2, <1>3

LEMMA OtherTally ==
  ASSUME Inv, NEW a \in Actors, CallStep(a), NEW d \in Deliveries, d # attempt[a].id, Tally(d)
  PROVE  Tally(d)'
  <1>1. Owing(d)' = Owing(d)
    BY DEF Owing, CallStep
  <1>2. \A b \in Actors : (attempt'[b].pc = "rewrite" /\ attempt'[b].id = d) =>
            attempt'[b] = attempt[b]
    BY DEF CallStep
  <1>3. ListedWithin(d, errors[d]) => ListedWithin(d, errors[d])'
    BY DEF CallStep, Same, ListedWithin
  <1> QED BY <1>1, <1>2, <1>3 DEF CallStep, Same, Tally

LEMMA OtherUndisturbed ==
  ASSUME Inv, NEW a \in Actors, CallStep(a), NEW d \in Deliveries, d # attempt[a].id, Undisturbed(d)
  PROVE  Undisturbed(d)'
  <1>1. \A b \in Actors : WorksOn(b, d)' <=> WorksOn(b, d)
    BY DEF CallStep, WorksOn
  <1>2. \A b \in Actors : WorksOn(b, d) => attempt'[b] = attempt[b]
    BY DEF CallStep, WorksOn
  <1>3. Alone(d)' /\ (Listed(d)' <=> Listed(d))
    BY <1>1, ListsStay DEF CallStep, Undisturbed, Alone
  <1>4. \A b \in Actors : WorksOn(b, d)' => Underway(b)'
    <2> SUFFICES ASSUME NEW b \in Actors, WorksOn(b, d) PROVE Underway(b)'
      BY <1>1
    <2>1. attempt'[b] = attempt[b] /\ attempt[b].id = d /\ Underway(b)
      BY <1>2 DEF WorksOn, Undisturbed
    <2>2. Clean(b) => Clean(b)'
      BY <2>1 DEF Clean, CallStep, Same
    <2>3. Counting(b) => Counting(b)'
      BY <2>1 DEF Counting, CallStep, Same
    <2> QED BY <2>1, <2>2, <2>3 DEF Underway, CallStep, Same
  <1>5. Ready(d) /\ d \in Pending => Ready(d)'
    BY DEF Ready, CallStep, Same
  <1> QED BY <1>1, <1>3, <1>4, <1>5 DEF Undisturbed, CallStep, Same

LEMMA UnderwayStays ==
  ASSUME NEW a, Underway(a), attempt'[a] = attempt[a], UNCHANGED <<kind, queue, sends, errors>>
  PROVE  Underway(a)'
  <1>1. Clean(a) => Clean(a)'
    BY DEF Clean
  <1>2. Counting(a) => Counting(a)'
    BY DEF Counting, Pending
  <1> QED BY <1>1, <1>2 DEF Underway

(* What remains to show of a step of a call: the delivery it is about.     *)
LEMMA CallCounted ==
  ASSUME Inv, Counted, NEW a \in Actors, CallStep(a), NEW d \in Deliveries, d = attempt[a].id,
         \A i, j \in 1..Len(written') : written'[i] = written'[j] => i = j,
         Tally(d)', d \notin disturbed' => Undisturbed(d)'
  PROVE  Counted'
  <1>1. attempt[a].id \in started
    BY CallKnown DEF CallStep
  <1>2. Untouched'
    <2>1. \A e \in Deliveries \ started' : Same(e) /\ e \notin started
      BY <1>1 DEF CallStep
    <2>2. \A e \in Deliveries : attempt'[e].pc = "write" => attempt'[e] = attempt[e]
      BY DEF CallStep, Actors
    <2> QED BY <2>1, <2>2 DEF Counted, Untouched, Same
  <1>3. \A e \in Deliveries : Tally(e)'
    <2> SUFFICES ASSUME NEW e \in Deliveries, e # d PROVE Tally(e)'
      OBVIOUS
    <2> QED BY OtherTally DEF Counted
  <1>4. \A e \in Deliveries \ disturbed' : Undisturbed(e)'
    <2> SUFFICES ASSUME NEW e \in Deliveries, e \notin disturbed', e # d
                 PROVE  Undisturbed(e)'
      OBVIOUS
    <2>1. Undisturbed(e)
      BY DEF Counted, CallStep
    <2> QED BY <2>1, OtherUndisturbed
  <1> QED BY <1>2, <1>3, <1>4 DEF Counted

(* The delivery of the call stays undisturbed if the call does it right.   *)
LEMMA HereUndisturbed ==
  ASSUME Inv, Counted, NEW a \in Actors, CallStep(a), NEW d \in Deliveries, d = attempt[a].id,
         d \notin disturbed,
         errors'[d] = 0 => \A p \in 1..Payloads : sends'[d][p] < 2,
         attempt'[a].pc = "off" /\ d \in Pending' => Ready(d)',
         attempt'[a].pc # "off" => Underway(a)'
  PROVE  Undisturbed(d)'
  <1>1. Undisturbed(d) /\ WorksOn(a, d)
    BY DEF Counted, CallStep, WorksOn
  <1>2. \A b \in Actors : WorksOn(b, d)' => b = a /\ attempt'[a].pc # "off"
    BY <1>1 DEF CallStep, WorksOn, Undisturbed, Alone
  <1>3. ~Listed(d)' /\ ListedOnce(d)'
    BY <1>1, ListsStay DEF CallStep, Undisturbed, Alone
  <1>4. Alone(d)'
    BY <1>2, <1>3 DEF Alone
  <1>5. (\A b \in Actors : ~WorksOn(b, d)') => attempt'[a].pc = "off"
    BY DEF WorksOn, CallStep
  <1> QED BY <1>2, <1>3, <1>4, <1>5 DEF Undisturbed

LEMMA TodoEntry ==
  ASSUME Inv, NEW r \in Recoveries, NEW i \in 1..Len(recovery[r].todo)
  PROVE  /\ recovery[r].todo \in Seq(Entry) /\ recovery[r].todo[i] \in Entry
         /\ recovery[r].todo[i].id \in Deliveries /\ recovery[r].todo[i].retry \in Nat
  <1>1. recovery[r].todo \in Seq(Entry)
    BY DEF Inv, CallsOK, Recovery
  <1>2. recovery[r].todo[i] \in Entry
    BY <1>1
  <1> QED BY <1>1, <1>2, DeliveryAssumption DEF Entry, Counts

(* The tally of the delivery stands, if who owes anew brings a failure.    *)
LEMMA HereTally ==
  ASSUME Inv, Counted, NEW a \in Actors, CallStep(a), NEW d \in Deliveries, d = attempt[a].id,
         attempt'[a].pc = "rewrite" /\ errors'[d] < MaxRetries =>
            attempt'[a].raw + 1 + Cardinality(Owing(d)') <= errors'[d],
         d \in Pending' /\ ~(d \in Pending /\ queue'[d] = queue[d]) /\ errors'[d] < MaxRetries =>
            queue'[d] + Cardinality(Owing(d)') <= errors'[d],
         \/ Owing(d)' \subseteq Owing(d) /\ errors'[d] = errors[d]
         \/ errors'[d] = Smaller(errors[d] + 1, MaxRetries)
  PROVE  Tally(d)'
  <1>1. Tally(d) /\ MaxRetries \in Nat /\ errors[d] \in 0..MaxRetries
    BY DeliveryAssumption DEF Counted, Inv, HistoryOK
  <1>2. Owing(d)' \subseteq Owing(d) \cup {a}
    BY DEF Owing, CallStep
  <1> DEFINE m == Cardinality(Owing(d))
             n == Cardinality(Owing(d)')
  <1>3. /\ IsFiniteSet(Owing(d)') /\ m \in Nat /\ n \in Nat /\ n <= m + 1
        /\ Owing(d)' \subseteq Owing(d) => n <= m
    BY <1>1, <1>2, OwingLess DEF Tally
  <1>4. errors'[d] < MaxRetries => errors[d] < MaxRetries /\ errors'[d] - errors[d] >= n - m
                                   /\ errors'[d] \in Nat /\ errors'[d] >= errors[d]
    BY <1>1, <1>3 DEF Smaller
  <1>5. d \in failed' => errors'[d] = MaxRetries
    BY <1>1 DEF Tally, CallStep, Smaller
  <1>6. ASSUME errors'[d] < MaxRetries, d \in Pending'
        PROVE  queue'[d] + n <= errors'[d]
    <2> SUFFICES ASSUME d \in Pending, queue'[d] = queue[d]
                 PROVE  queue'[d] + n <= errors'[d]
      BY <1>6
    <2>1. queue[d] \in Nat /\ queue[d] + m <= errors[d]
      BY <1>1, <1>4, <1>6 DEF Tally, Inv, DiskOK, Counts
    <2> HIDE DEF m, n
    <2> QED BY <1>1, <1>3, <1>4, <1>6, <2>1
  <1>7. ASSUME errors'[d] < MaxRetries, NEW b \in Actors,
               attempt'[b].pc = "rewrite" /\ attempt'[b].id = d
        PROVE  attempt'[b].raw + 1 + n <= errors'[d]
    <2> SUFFICES ASSUME b # a PROVE attempt'[b].raw + 1 + n <= errors'[d]
      BY <1>7
    <2>1. attempt'[b] = attempt[b] /\ attempt[b].raw \in Nat
      <3>1. attempt'[b] = attempt[b]
        BY <1>7 DEF CallStep
      <3> QED BY <3>1, <1>1, ActorType DEF Inv, Attempt, Counts
    <2>2. attempt[b].raw + 1 + m <= errors[d]
      BY <1>1, <1>4, <1>7, <2>1 DEF Tally
    <2> HIDE DEF m, n
    <2> QED BY <1>1, <1>3, <1>4, <1>7, <2>1, <2>2
  <1>8. errors'[d] < MaxRetries => ListedWithin(d, errors[d])'
    <2> SUFFICES ASSUME errors'[d] < MaxRetries, NEW r \in Recoveries,
                        NEW i \in 1..Len(recovery'[r].todo), recovery'[r].todo[i].id = d
                 PROVE  recovery'[r].todo[i].retry <= errors'[d]
      BY DEF ListedWithin
    <2>1. recovery'[r].todo = recovery[r].todo
      BY DEF CallStep
    <2>2. recovery[r].todo[i].retry \in Nat
      BY <2>1, TodoEntry
    <2>3. recovery[r].todo[i].retry <= errors[d]
      BY <1>1, <1>4, <2>1 DEF Tally, ListedWithin
    <2> QED BY <1>1, <1>4, <2>1, <2>2, <2>3
  <1> HIDE DEF m, n
  <1> QED BY <1>3, <1>5, <1>6, <1>7, <1>8 DEF Tally, m, n

-----------------------------------------------------------------------------
(* The shapes of a step of a call.                                         *)
LEMMA SettleStep ==
  ASSUME Inv, NEW a \in Actors, attempt[a].pc = "send", NEW how \in {"ack", "read"}, Settle(a, how)
  PROVE  /\ attempt' \in [Actors -> Attempt] /\ attempt'[a].pc \in {how, "off"}
         /\ \A b \in Actors : b # a => attempt'[b] = attempt[b]
         /\ attempt'[a].pc = how =>
               /\ attempt'[a].id = attempt[a].id /\ attempt'[a].next = attempt[a].next
               /\ attempt'[a].partial = attempt[a].partial
         /\ attempt'[a].pc = "off" => attempt[a].id \notin Pending
  <1>1. /\ attempt[a] \in Attempt /\ attempt \in [Actors -> Attempt] /\ Fine(a)
        /\ Live(a) => attempt[a].id = a
    BY CallKnown
  <1>2. Off \in Attempt /\ [attempt[a] EXCEPT !.pc = how] \in Attempt
    <2>1. [attempt[a] EXCEPT !.pc = how] \in Attempt
      BY <1>1 DEF Attempt
    <2> QED BY <2>1, OffType
  <1>3. /\ attempt' \in [Actors -> Attempt]
        /\ attempt'[a] = IF HasEntry(a) THEN [attempt[a] EXCEPT !.pc = how] ELSE Off
        /\ \A b \in Actors : b # a => attempt'[b] = attempt[b]
    BY <1>1, <1>2 DEF Settle
  <1>4. CASE HasEntry(a)
    BY <1>1, <1>3, <1>4 DEF Attempt
  <1>5. CASE ~HasEntry(a)
    <2>1. a \in Deliveries /\ attempt[a].id = a /\ attempt'[a].pc = "off"
      BY <1>1, <1>3, <1>5 DEF HasEntry, Live, Off
    <2>2. a \notin ToSet(written)
      BY <1>5, <2>1, EntryWritten DEF Written, Inv, HistoryOK
    <2> QED BY <1>3, <2>1, <2>2 DEF Inv, DiskOK
  <1> QED BY <1>4, <1>5

LEMMA FinishStep ==
  ASSUME Inv, NEW a \in Actors, attempt[a].pc # "off", Finish(a)
  PROVE  /\ attempt' \in [Actors -> Attempt] /\ attempt'[a].pc = "off"
         /\ \A b \in Actors : b # a => attempt'[b] = attempt[b]
         /\ \A r \in Recoveries : recovery'[r].todo = recovery[r].todo
  <1>1. attempt' \in [Actors -> Attempt] /\ attempt'[a].pc = "off"
        /\ \A b \in Actors : b # a => attempt'[b] = attempt[b]
    BY OffType, ActorType DEF Finish, Off, Inv
  <1>2. \A r \in Recoveries : recovery'[r].todo = recovery[r].todo
    BY DEF Finish, Inv, CallsOK, Recovery
  <1> QED BY <1>1, <1>2

LEMMA SpendStep ==
  ASSUME Inv, NEW a \in Actors, NEW t, recovery' = Spend(a, t)
  PROVE  \A r \in Recoveries : recovery'[r].todo = recovery[r].todo
  BY DEF Spend, Inv, CallsOK, Recovery

(* What is known of the delivery of a call.                                *)
LEMMA HereKnown ==
  ASSUME Inv, Counted, NEW a \in Actors, attempt[a].pc # "off"
  PROVE  /\ attempt[a].id \in Deliveries
         /\ MaxRetries \in Nat \ {0} /\ Payloads \in Nat \ {0}
         /\ errors[attempt[a].id] \in 0..MaxRetries
         /\ attempt[a].id \in Pending => queue[attempt[a].id] \in 0..MaxRetries
         /\ sends[attempt[a].id] \in [1..Payloads -> 0..2]
         /\ attempt[a].id \notin disturbed =>
               /\ Underway(a)
               /\ errors[attempt[a].id] = 0 => \A p \in 1..Payloads : sends[attempt[a].id][p] < 2
         /\ \A i, j \in 1..Len(written) : written[i] = written[j] => i = j
  <1>1. attempt[a].id \in Deliveries
    BY CallKnown
  <1>2. attempt[a].id \notin disturbed => Undisturbed(attempt[a].id)
    BY <1>1 DEF Counted
  <1>3. WorksOn(a, attempt[a].id)
    BY DEF WorksOn
  <1> QED BY <1>1, <1>2, <1>3, DeliveryAssumption
          DEF Undisturbed, Counted, Untouched, Inv, HistoryOK, DiskOK, Counts

-----------------------------------------------------------------------------
(* The calls.                                                              *)
LEMMA PayloadSentCounted ==
  ASSUME Inv, Counted, NEW a \in Actors, NEW t \in SendTimes, PayloadSent(a, t)
  PROVE  Counted'
  <1> DEFINE n == attempt[a].next
  <1>1. PICK d \in Deliveries : d = attempt[a].id
    BY HereKnown DEF PayloadSent
  <1>2. /\ attempt[a] \in Attempt /\ attempt[a].pc = "send" /\ n \in 1..Payloads
        /\ attempt \in [Actors -> Attempt]
    BY CallKnown, HereKnown DEF PayloadSent, Attempt
  <1>3. /\ attempt' = [attempt EXCEPT ![a].next = n + 1]
        /\ sends' = [sends EXCEPT ![d][n] = Smaller(sends[d][n] + 1, 2)]
        /\ recovery' = Spend(a, t)
        /\ UNCHANGED <<kind, queue, failed, up, started, written, errors, disturbed>>
    BY <1>1 DEF PayloadSent
  <1>4. [attempt[a] EXCEPT !.next = n + 1] \in Attempt
    BY <1>2, HereKnown DEF Attempt
  <1>5. /\ attempt' \in [Actors -> Attempt] /\ attempt'[a].pc = "send" /\ attempt'[a].id = d
        /\ attempt'[a].next = n + 1 /\ attempt'[a].partial = attempt[a].partial
        /\ \A b \in Actors : b # a => attempt'[b] = attempt[b]
    BY <1>1, <1>2, <1>3, <1>4 DEF Attempt
  <1>6. /\ sends'[d][n] = Smaller(sends[d][n] + 1, 2)
        /\ \A p \in 1..Payloads : p # n => sends'[d][p] = sends[d][p]
        /\ \A e \in Deliveries : e # d => sends'[e] = sends[e]
    BY <1>2, <1>3 DEF Inv, HistoryOK
  <1>7. CallStep(a)
    BY <1>1, <1>2, <1>3, <1>5, <1>6, SpendStep DEF CallStep, Same, Pending
  <1>8. Tally(d)'
    <2>1. Owing(d)' = Owing(d)
      BY <1>1, <1>2, <1>5 DEF Owing
    <2>2. d \in Pending' => d \in Pending /\ queue'[d] = queue[d]
      BY <1>3 DEF Pending
    <2> QED BY <1>1, <1>3, <1>5, <1>7, <2>1, <2>2, HereTally
  <1>9. ASSUME d \notin disturbed'
        PROVE  Undisturbed(d)'
    <2>1. Underway(a) /\ (errors[d] = 0 => \A p \in 1..Payloads : sends[d][p] < 2) /\ d \notin disturbed
      BY <1>1, <1>2, <1>3, <1>9, HereKnown
    <2>2. ASSUME errors[d] = 0
          PROVE  Clean(a)' /\ \A p \in 1..Payloads : sends'[d][p] < 2
      <3>1. Clean(a)
        BY <1>1, <2>1, <2>2 DEF Underway
      <3>2. sends[d][n] = 0 /\ sends'[d][n] = 1
        BY <1>1, <1>2, <1>6, <3>1 DEF Clean, Smaller
      <3>3. Clean(a)'
        BY <1>1, <1>2, <1>5, <1>6, <3>1 DEF Clean
      <3> QED BY <1>2, <1>6, <2>1, <2>2, <3>2, <3>3
    <2>3. Underway(a)'
      BY <1>1, <1>2, <1>3, <1>5, <2>1, <2>2 DEF Underway, Counting, Pending
    <2> QED BY <1>1, <1>3, <1>5, <1>7, <2>1, <2>2, <2>3, HereUndisturbed
  <1> QED BY <1>1, <1>2, <1>3, <1>7, <1>8, <1>9, CallCounted, HereKnown

(* A failure that ends the call: it is to be counted.                      *)
LEMMA FailureCounted ==
  ASSUME Inv, Counted, NEW a \in Actors, NEW d \in Deliveries, d = attempt[a].id,
         attempt[a].pc = "send", Settle(a, "read"), errors' = Failing(d),
         \A r \in Recoveries : recovery'[r].todo = recovery[r].todo,
         UNCHANGED <<kind, queue, failed, started, written, sends, disturbed>>
  PROVE  Counted'
  <1>1. /\ attempt' \in [Actors -> Attempt] /\ attempt'[a].pc \in {"read", "off"}
        /\ \A b \in Actors : b # a => attempt'[b] = attempt[b]
        /\ attempt'[a].pc = "read" => attempt'[a].id = d
        /\ attempt'[a].pc = "off" => d \notin Pending
    BY SettleStep
  <1>2. /\ errors'[d] = Smaller(errors[d] + 1, MaxRetries) /\ errors'[d] # 0
        /\ \A e \in Deliveries : e # d => errors'[e] = errors[e]
    BY HereKnown DEF Failing, Smaller, Inv, HistoryOK
  <1>3. CallStep(a)
    BY <1>1, <1>2 DEF CallStep, Same, Pending
  <1>4. Tally(d)'
    <2>1. d \in Pending' => d \in Pending /\ queue'[d] = queue[d]
      BY DEF Pending
    <2> QED BY <1>1, <1>2, <1>3, <2>1, HereTally
  <1>5. ASSUME d \notin disturbed'
        PROVE  Undisturbed(d)'
    <2>1. Underway(a) /\ d \notin disturbed
      BY <1>5, HereKnown
    <2>2. attempt'[a].pc # "off" => Underway(a)'
      BY <1>1, <1>2, <2>1 DEF Underway, Counting, Pending
    <2> QED BY <1>1, <1>2, <1>3, <2>1, <2>2, HereUndisturbed DEF Pending
  <1> QED BY <1>3, <1>4, <1>5, CallCounted, HereKnown

LEMMA PayloadFailsCounted ==
  ASSUME Inv, Counted, NEW a \in Actors, NEW t \in SendTimes, PayloadFails(a, t)
  PROVE  Counted'
  <1>1. PICK d \in Deliveries : d = attempt[a].id
    BY HereKnown DEF PayloadFails
  <1>2. /\ attempt[a] \in Attempt /\ attempt[a].pc = "send" /\ attempt[a].next \in 1..Payloads
        /\ attempt \in [Actors -> Attempt]
    BY CallKnown, HereKnown DEF PayloadFails, Attempt
  <1>3. /\ errors' = Failing(d) /\ recovery' = Spend(a, t)
        /\ UNCHANGED <<kind, queue, failed, up, started, written, sends, disturbed>>
    BY <1>1 DEF PayloadFails
  <1>4. \A r \in Recoveries : recovery'[r].todo = recovery[r].todo
    BY <1>3, SpendStep
  <1>5. CASE kind[d] = "strict"
    <2>1. Settle(a, "read")
      BY <1>1, <1>5 DEF PayloadFails
    <2> QED BY <1>1, <1>2, <1>3, <1>4, <2>1, FailureCounted
  <1>6. CASE kind[d] # "strict"
    <2> DEFINE n == attempt[a].next + 1
               partial == attempt[a].partial \/ (Live(a) /\ kind[d] = "tracked")
               c == [attempt[a] EXCEPT !.next = n, !.partial = partial]
    <2>1. attempt' = [attempt EXCEPT ![a] = c]
      BY <1>1, <1>2, <1>6 DEF PayloadFails
    <2>2. c \in Attempt /\ c.pc = "send" /\ c.id = d
      <3>1. n \in 1..(Payloads + 1)
        BY <1>2, DeliveryAssumption
      <3>2. partial \in BOOLEAN
        BY <1>2 DEF Attempt
      <3> HIDE DEF n, partial
      <3> QED BY <1>1, <1>2, <3>1, <3>2 DEF Attempt
    <2> HIDE DEF c
    <2>3. /\ attempt' \in [Actors -> Attempt] /\ attempt'[a].pc = "send" /\ attempt'[a].id = d
          /\ \A b \in Actors : b # a => attempt'[b] = attempt[b]
      BY <1>2, <2>1, <2>2
    <2>4. /\ errors'[d] = Smaller(errors[d] + 1, MaxRetries) /\ errors'[d] # 0
          /\ \A e \in Deliveries : e # d => errors'[e] = errors[e]
      BY <1>1, <1>2, <1>3, HereKnown DEF Failing, Smaller, Inv, HistoryOK
    <2>5. CallStep(a)
      BY <1>1, <1>2, <1>3, <1>4, <2>3, <2>4 DEF CallStep, Same, Pending
    <2>6. d \in Pending' => d \in Pending /\ queue'[d] = queue[d]
      BY <1>3 DEF Pending
    <2>7. Tally(d)'
      BY <1>1, <2>3, <2>4, <2>5, <2>6, HereTally
    <2>8. Underway(a)'
      BY <1>3, <1>6, <2>3, <2>4 DEF Underway
    <2>9. d \notin disturbed' => Undisturbed(d)'
      BY <1>1, <1>3, <2>3, <2>4, <2>5, <2>8, HereUndisturbed
    <2> QED BY <1>1, <1>2, <1>3, <2>5, <2>7, <2>9, CallCounted, HereKnown
  <1> QED BY <1>5, <1>6

(* The call ends without a failure that was not noted before.              *)
LEMMA SettledCounted ==
  ASSUME Inv, Counted, NEW a \in Actors, NEW d \in Deliveries, d = attempt[a].id,
         attempt[a].pc = "send", NEW how \in {"ack", "read"}, Settle(a, how),
         how = "read" => attempt[a].partial,
         UNCHANGED <<kind, queue, failed, recovery, started, written, sends, errors, disturbed>>
  PROVE  Counted'
  <1>1. /\ attempt' \in [Actors -> Attempt] /\ attempt'[a].pc \in {how, "off"}
        /\ \A b \in Actors : b # a => attempt'[b] = attempt[b]
        /\ attempt'[a].pc = how =>
              /\ attempt'[a].id = d /\ attempt'[a].next = attempt[a].next
              /\ attempt'[a].partial = attempt[a].partial
        /\ attempt'[a].pc = "off" => d \notin Pending
    BY SettleStep
  <1>2. CallStep(a)
    BY <1>1 DEF CallStep, Same, Pending
  <1>3. Tally(d)'
    <2>1. d \in Pending' => d \in Pending /\ queue'[d] = queue[d]
      BY DEF Pending
    <2>2. Owing(d)' \subseteq Owing(d)
      BY <1>1 DEF Owing
    <2> QED BY <1>1, <1>2, <2>1, <2>2, HereTally
  <1>4. ASSUME d \notin disturbed'
        PROVE  Undisturbed(d)'
    <2>1. /\ Underway(a) /\ d \notin disturbed /\ Fine(a)
          /\ errors[d] = 0 => \A p \in 1..Payloads : sends[d][p] < 2
      BY <1>4, CallKnown, HereKnown
    <2>2. attempt'[a].pc # "off" => Underway(a)'
      BY <1>1, <2>1 DEF Underway, Counting, Clean, Fine
    <2> QED BY <1>1, <1>2, <2>1, <2>2, HereUndisturbed DEF Pending
  <1> QED BY <1>2, <1>3, <1>4, CallCounted, HereKnown

LEMMA TakenForAbortCounted ==
  ASSUME Inv, Counted, NEW a \in Deliveries, TakenForAbort(a)
  PROVE  Counted'
  <1>1. a \in Actors /\ attempt[a].pc = "send" /\ attempt[a].id = a
    BY CallKnown DEF TakenForAbort, Actors, Live, Fine
  <1>2. /\ Settle(a, "ack")
        /\ UNCHANGED <<kind, queue, failed, recovery, started, written, sends, errors, disturbed>>
    BY DEF TakenForAbort
  <1> QED BY <1>1, <1>2, SettledCounted

LEMMA AbortCounted ==
  ASSUME Inv, Counted, NEW a \in Deliveries, Abort(a)
  PROVE  Counted'
  <1>1. /\ a \in Actors /\ attempt[a] \in Attempt /\ attempt[a].pc = "send" /\ attempt[a].id = a
        /\ attempt \in [Actors -> Attempt]
    BY CallKnown DEF Abort, Actors
  <1>2. UNCHANGED <<kind, queue, failed, recovery, started, written, sends, errors, disturbed>>
    BY DEF Abort
  <1>3. CASE kind[a] = "strict"
    BY <1>1, <1>2, <1>3, SettledCounted DEF Abort
  <1>4. CASE kind[a] # "strict"
    <2> DEFINE c == [attempt[a] EXCEPT !.next = Payloads + 1]
    <2>1. attempt' = [attempt EXCEPT ![a] = c]
      BY <1>1, <1>4 DEF Abort
    <2>2. /\ c \in Attempt /\ c.pc = "send" /\ c.id = a
          /\ c.partial = attempt[a].partial /\ c.next = Payloads + 1
      <3>1. Payloads + 1 \in 1..(Payloads + 1)
        BY DeliveryAssumption
      <3> QED BY <1>1, <3>1 DEF Attempt
    <2> HIDE DEF c
    <2>3. /\ attempt' \in [Actors -> Attempt] /\ attempt'[a] = c
          /\ \A b \in Actors : b # a => attempt'[b] = attempt[b]
      BY <1>1, <2>1, <2>2
    <2>4. CallStep(a)
      BY <1>1, <1>2, <2>2, <2>3 DEF CallStep, Same, Pending
    <2>5. Tally(a)'
      <3>1. a \in Pending' => a \in Pending /\ queue'[a] = queue[a]
        BY <1>2 DEF Pending
      <3>2. Owing(a)' \subseteq Owing(a)
        BY <1>1, <2>2, <2>3 DEF Owing
      <3> QED BY <1>1, <1>2, <2>2, <2>3, <2>4, <3>1, <3>2, HereTally
    <2>6. ASSUME a \notin disturbed'
          PROVE  Undisturbed(a)'
      <3>1. /\ Underway(a) /\ a \notin disturbed
            /\ errors[a] = 0 => \A p \in 1..Payloads : sends[a][p] < 2
        BY <1>1, <1>2, <2>6, HereKnown
      <3>2. Underway(a)'
        BY <1>1, <1>2, <1>4, <2>2, <2>3, <3>1, DeliveryAssumption DEF Underway, Clean
      <3> QED BY <1>1, <1>2, <2>2, <2>3, <2>4, <3>1, <3>2, HereUndisturbed
    <2> QED BY <1>1, <1>2, <2>4, <2>5, <2>6, CallCounted, HereKnown
  <1> QED BY <1>3, <1>4

LEMMA CoreCounted ==
  ASSUME Inv, Counted, NEW a \in Actors, CoreThrows(a) \/ CoreReturns(a)
  PROVE  Counted'
  <1>1. PICK d \in Deliveries : d = attempt[a].id
    BY HereKnown DEF CoreThrows, CoreReturns
  <1>2. CASE CoreThrows(a)
    BY <1>1, <1>2, FailureCounted DEF CoreThrows
  <1>3. CASE CoreReturns(a)
    BY <1>1, <1>3, SettledCounted DEF CoreReturns, history
  <1> QED BY <1>2, <1>3

(* A call that is over leaves what nobody works on.                        *)
LEMMA FinishedCounted ==
  ASSUME Inv, Counted, NEW a \in Actors, attempt[a].pc # "off", Finish(a),
         NEW d \in Deliveries, d = attempt[a].id,
         UNCHANGED <<kind, failed, started, written, sends, errors>>, disturbed \subseteq disturbed',
         \A e \in Deliveries : e # d => Same(e),
         d \in Pending' /\ ~(d \in Pending /\ queue'[d] = queue[d]) /\ errors[d] < MaxRetries =>
            queue'[d] + Cardinality(Owing(d)') <= errors[d],
         d \in Pending' /\ d \notin disturbed' => Ready(d)'
  PROVE  Counted'
  <1>1. /\ attempt' \in [Actors -> Attempt] /\ attempt'[a].pc = "off"
        /\ \A b \in Actors : b # a => attempt'[b] = attempt[b]
        /\ \A r \in Recoveries : recovery'[r].todo = recovery[r].todo
    BY FinishStep
  <1>2. CallStep(a)
    BY <1>1 DEF CallStep
  <1>3. Tally(d)'
    <2>1. Owing(d)' \subseteq Owing(d)
      BY <1>1 DEF Owing
    <2> QED BY <1>1, <1>2, <2>1, HereTally
  <1>4. d \notin disturbed' => Undisturbed(d)'
    BY <1>1, <1>2, HereUndisturbed, HereKnown
  <1> QED BY <1>2, <1>3, <1>4, CallCounted, HereKnown

LEMMA AckCounted == ASSUME Inv, Counted, NEW a \in Actors, Ack(a) PROVE Counted'
  <1>1. PICK d \in Deliveries : d = attempt[a].id
    BY HereKnown DEF Ack
  <1>2. /\ queue' = Without(queue, d) /\ Finish(a) /\ attempt[a].pc = "ack"
        /\ UNCHANGED <<kind, failed, started, written, sends, errors, disturbed>>
    BY <1>1 DEF Ack, ackDelivery, history
  <1>3. d \notin Pending' /\ \A e \in Deliveries : e # d => Same(e)
    BY <1>2 DEF Without, Same, Pending
  <1> QED BY <1>1, <1>2, <1>3, FinishedCounted

LEMMA FailDeliveryFailsCounted ==
  ASSUME Inv, Counted, NEW a \in Actors, FailDeliveryFails(a)
  PROVE  Counted'
  <1>1. PICK d \in Deliveries : d = attempt[a].id
    BY HereKnown DEF FailDeliveryFails
  <1>2. /\ Finish(a) /\ attempt[a].pc # "off" /\ disturbed' = disturbed \cup {d}
        /\ UNCHANGED <<kind, queue, failed, started, written, sends, errors>>
    BY <1>1 DEF FailDeliveryFails
  <1>3. \A e \in Deliveries : Same(e)
    BY <1>2 DEF Same, Pending
  <1>4. d \in Pending' => d \in Pending /\ queue'[d] = queue[d]
    BY <1>2 DEF Pending
  <1> QED BY <1>1, <1>2, <1>3, <1>4, FinishedCounted

LEMMA AckFailsCounted == ASSUME Inv, Counted, NEW a \in Actors, AckFails(a) PROVE Counted'
  <1>1. PICK d \in Deliveries : d = attempt[a].id
    BY HereKnown DEF AckFails
  <1>2. /\ attempt[a].pc = "ack" /\ disturbed' = disturbed \cup {d}
        /\ UNCHANGED <<kind, queue, failed, started, written, sends>>
    BY <1>1 DEF AckFails
  <1>3. d \in Pending' => d \in Pending /\ queue'[d] = queue[d]
    BY <1>2 DEF Pending
  <1>4. CASE Live(a)
    <2>1. Finish(a) /\ errors' = errors
      BY <1>4 DEF AckFails
    <2>2. \A e \in Deliveries : Same(e)
      BY <1>2, <2>1 DEF Same, Pending
    <2> QED BY <1>1, <1>2, <1>3, <2>1, <2>2, FinishedCounted
  <1>5. CASE ~Live(a)
    <2> DEFINE c == [attempt[a] EXCEPT !.pc = "read"]
    <2>1. attempt' = [attempt EXCEPT ![a] = c] /\ errors' = Failing(d) /\ recovery' = recovery
      BY <1>1, <1>2, <1>5, CallKnown DEF AckFails, Attempt
    <2>2. c \in Attempt /\ c.pc = "read" /\ c.id = d
      BY <1>1, <1>2, CallKnown DEF Attempt
    <2> HIDE DEF c
    <2>3. /\ attempt' \in [Actors -> Attempt] /\ attempt'[a] = c
          /\ \A b \in Actors : b # a => attempt'[b] = attempt[b]
      BY <1>2, <2>1, <2>2, CallKnown
    <2>4. /\ errors'[d] = Smaller(errors[d] + 1, MaxRetries)
          /\ \A e \in Deliveries : e # d => errors'[e] = errors[e]
      BY <1>1, <2>1 DEF Failing, Inv, HistoryOK
    <2>5. CallStep(a)
      BY <1>1, <1>2, <2>1, <2>2, <2>3, <2>4 DEF CallStep, Same, Pending
    <2>6. Tally(d)'
      BY <1>1, <1>3, <2>2, <2>3, <2>4, <2>5, HereTally
    <2> QED BY <1>1, <1>2, <2>5, <2>6, CallCounted, HereKnown
  <1> QED BY <1>4, <1>5

(* The entry is read and counted up later: the failure is no longer owed.  *)
LEMMA FailReadsCounted == ASSUME Inv, Counted, NEW a \in Actors, FailReads(a) PROVE Counted'
  <1>1. PICK d \in Deliveries : d = attempt[a].id
    BY HereKnown DEF FailReads
  <1>2. /\ attempt[a].pc = "read"
        /\ UNCHANGED <<kind, queue, failed, started, written, sends, errors, disturbed>>
    BY DEF FailReads, history
  <1>3. \A e \in Deliveries : Same(e)
    BY <1>2 DEF Same, Pending
  <1>4. d \in Pending' => d \in Pending /\ queue'[d] = queue[d]
    BY <1>2 DEF Pending
  <1>5. CASE d \notin Pending
    BY <1>1, <1>2, <1>3, <1>4, <1>5, FinishedCounted DEF FailReads
  <1>6. CASE d \in Pending
    <2> DEFINE c == [attempt[a] EXCEPT !.pc = "rewrite", !.raw = queue[d]]
    <2>1. attempt' = [attempt EXCEPT ![a] = c] /\ recovery' = recovery
      BY <1>1, <1>2, <1>6, CallKnown DEF FailReads, Attempt
    <2>2. c \in Attempt /\ c.pc = "rewrite" /\ c.id = d /\ c.raw = queue[d]
      BY <1>1, <1>2, <1>6, CallKnown, HereKnown DEF Attempt, Counts
    <2> HIDE DEF c
    <2>3. /\ attempt' \in [Actors -> Attempt] /\ attempt'[a] = c
          /\ \A b \in Actors : b # a => attempt'[b] = attempt[b]
      BY <1>2, <2>1, <2>2, CallKnown
    <2>4. CallStep(a)
      BY <1>1, <1>2, <1>3, <2>1, <2>2, <2>3 DEF CallStep
    <2>5. Tally(d)'
      <3>1. a \in Owing(d) /\ Owing(d)' \subseteq Owing(d) \ {a}
        BY <1>1, <1>2, <2>2, <2>3 DEF Owing
      <3>2. Tally(d)
        BY DEF Counted
      <3>3. /\ Cardinality(Owing(d)') \in Nat /\ Cardinality(Owing(d)) \in Nat
            /\ Cardinality(Owing(d)') + 1 <= Cardinality(Owing(d))
        BY <3>1, <3>2, OwingLess DEF Tally
      <3>4. errors[d] < MaxRetries => queue[d] + 1 + Cardinality(Owing(d)') <= errors[d]
        <4>1. errors[d] < MaxRetries => queue[d] + Cardinality(Owing(d)) <= errors[d]
          BY <1>6, <3>2 DEF Tally
        <4>2. queue[d] \in Nat /\ errors[d] \in Nat
          BY <1>1, <1>2, <1>6, HereKnown
        <4> QED BY <3>3, <4>1, <4>2
      <3> QED BY <1>1, <1>2, <1>4, <2>2, <2>3, <2>4, <3>1, <3>4, HereTally
    <2>6. ASSUME d \notin disturbed'
          PROVE  Undisturbed(d)'
      <3>1. /\ Underway(a) /\ d \notin disturbed
            /\ errors[d] = 0 => \A p \in 1..Payloads : sends[d][p] < 2
        BY <1>1, <1>2, <2>6, HereKnown
      <3>2. Underway(a)'
        BY <1>1, <1>2, <1>6, <2>2, <2>3, <3>1 DEF Underway, Clean, Counting, Pending
      <3> QED BY <1>1, <1>2, <2>2, <2>3, <2>4, <3>1, <3>2, HereUndisturbed
    <2> QED BY <1>1, <1>2, <2>4, <2>5, <2>6, CallCounted, HereKnown
  <1> QED BY <1>5, <1>6

LEMMA FailWritesCounted == ASSUME Inv, Counted, NEW a \in Actors, FailWrites(a) PROVE Counted'
  <1> DEFINE n == Smaller(attempt[a].raw + 1, MaxRetries)
  <1>1. PICK d \in Deliveries : d = attempt[a].id
    BY HereKnown DEF FailWrites
  <1>2. /\ attempt[a].pc = "rewrite" /\ queue' = With(queue, d, n) /\ Finish(a)
        /\ UNCHANGED <<kind, failed, started, written, sends, errors, disturbed>>
    BY <1>1 DEF FailWrites, RewriteEntry, history
  <1>3. queue'[d] = n /\ \A e \in Deliveries : e # d => Same(e)
    BY <1>2 DEF With, Same, Pending
  <1>4. attempt[a].raw \in Nat /\ errors[d] \in Nat /\ MaxRetries \in Nat
    BY <1>1, <1>2, CallKnown, HereKnown DEF Attempt, Counts
  <1>5. ASSUME errors[d] < MaxRetries
        PROVE  queue'[d] + Cardinality(Owing(d)') <= errors[d]
    <2>1. Owing(d)' \subseteq Owing(d)
      BY <1>1, <1>2, FinishStep DEF Owing
    <2>2. Tally(d)
      BY DEF Counted
    <2>3. /\ Cardinality(Owing(d)') \in Nat /\ Cardinality(Owing(d)) \in Nat
          /\ Cardinality(Owing(d)') <= Cardinality(Owing(d))
      BY <2>1, <2>2, OwingLess DEF Tally
    <2>4. attempt[a].raw + 1 + Cardinality(Owing(d)) <= errors[d]
      BY <1>1, <1>2, <1>5, <2>2 DEF Tally
    <2> QED BY <1>3, <1>4, <1>5, <2>3, <2>4 DEF Smaller
  <1>6. ASSUME d \notin disturbed'
        PROVE  Ready(d)'
    <2>1. Underway(a)
      BY <1>1, <1>2, <1>6, HereKnown
    <2>2. errors[d] # 0
      BY <1>1, <1>2, <2>1 DEF Underway, Clean
    <2>3. kind[d] = "strict" => n = errors[d]
      BY <1>1, <1>2, <2>1 DEF Underway, Counting
    <2> QED BY <1>2, <1>3, <2>2, <2>3 DEF Ready
  <1> QED BY <1>1, <1>2, <1>3, <1>5, <1>6, FinishedCounted

(* The write of the entry, or its failure.                                 *)
LEMMA EnqueueCounted ==
  ASSUME Inv, Counted, NEW d \in Deliveries, enqueueDelivery(d) \/ EnqueueFails(d)
  PROVE  Counted'
  <1> DEFINE c == [attempt[d] EXCEPT !.pc = "send"]
  <1>1. /\ d \in Actors /\ attempt[d].pc = "write" /\ attempt[d].id = d
        /\ attempt[d] \in Attempt /\ attempt \in [Actors -> Attempt]
    BY CallKnown DEF enqueueDelivery, EnqueueFails, Actors, Live
  <1>2. /\ attempt' = [attempt EXCEPT ![d] = c]
        /\ UNCHANGED <<kind, failed, recovery, started, sends, errors, disturbed>>
    BY DEF enqueueDelivery, EnqueueFails, history
  <1>3. /\ c \in Attempt /\ c.pc = "send" /\ c.id = d /\ ~c.partial
        /\ c.next = attempt[d].next
    BY <1>1 DEF Attempt, Counted, Untouched
  <1> HIDE DEF c
  <1>4. /\ attempt' \in [Actors -> Attempt] /\ attempt'[d] = c
        /\ \A b \in Actors : b # d => attempt'[b] = attempt[b]
    BY <1>1, <1>2, <1>3
  <1>5. d \notin ToSet(written) /\ d \notin Pending
    BY <1>1 DEF Inv, Waiting, Written, DiskOK
  <1>6. /\ d \in Pending' => queue'[d] = 0
        /\ \A e \in Deliveries : e # d => Same(e)
    <2>1. CASE enqueueDelivery(d)
      BY <1>2, <2>1 DEF enqueueDelivery, With, Same, Pending
    <2>2. CASE EnqueueFails(d)
      BY <1>2, <1>5, <2>2 DEF EnqueueFails, history, Same, Pending
    <2> QED BY <2>1, <2>2
  <1>7. CallStep(d)
    BY <1>1, <1>2, <1>3, <1>4, <1>6 DEF CallStep
  <1>8. \A i, j \in 1..Len(written') : written'[i] = written'[j] => i = j
    <2>1. CASE enqueueDelivery(d)
      <3>1. written' = Append(written, d) /\ written \in Seq(Deliveries)
        BY <2>1 DEF enqueueDelivery, Inv, HistoryOK
      <3>2. /\ Len(written') = Len(written) + 1 /\ Len(written) \in Nat
            /\ \A i \in 1..Len(written) : written'[i] = written[i] /\ written'[i] # d
            /\ written'[Len(written) + 1] = d
        BY <1>5, <3>1 DEF ToSet
      <3> QED BY <3>2 DEF Counted, Untouched
    <2>2. CASE EnqueueFails(d)
      BY <2>2 DEF EnqueueFails, history, Counted, Untouched
    <2> QED BY <2>1, <2>2
  <1>9. Tally(d)'
    <2>1. Owing(d)' = {}
      <3> SUFFICES ASSUME NEW b \in Actors, b # d, attempt[b].id = d, attempt[b].pc \in {"read", "send"}
                   PROVE  FALSE
        BY <1>3, <1>4 DEF Owing
      <3>1. Fine(b) /\ b \notin Deliveries
        BY CallKnown DEF Live
      <3> QED BY <1>5, <3>1 DEF Fine, Live, Written
    <2>2. Cardinality(Owing(d)') = 0 /\ errors[d] \in Nat
      BY <1>1, <2>1, FS_EmptySet, HereKnown
    <2>3. d \in Pending' => queue'[d] + Cardinality(Owing(d)') <= errors'[d]
      BY <1>2, <1>6, <2>2
    <2>4. attempt'[d].pc # "rewrite" /\ Owing(d)' \subseteq Owing(d) /\ errors'[d] = errors[d]
      BY <1>2, <1>3, <1>4, <2>1
    <2> QED BY <1>1, <1>7, <2>3, <2>4, HereTally
  <1>10. ASSUME d \notin disturbed'
         PROVE  Undisturbed(d)'
    <2>1. /\ Underway(d) /\ d \notin disturbed
          /\ errors[d] = 0 => \A p \in 1..Payloads : sends[d][p] < 2
      BY <1>1, <1>2, <1>10, HereKnown
    <2>2. Clean(d) => Clean(d)'
      BY <1>1, <1>2, <1>3, <1>4 DEF Clean
    <2>3. Counting(d) => Counting(d)'
      BY <1>1, <1>2, <1>3, <1>4, <1>6 DEF Counting
    <2>4. Underway(d)'
      BY <1>1, <1>2, <1>3, <1>4, <2>1, <2>2, <2>3 DEF Underway
    <2> QED BY <1>1, <1>2, <1>3, <1>4, <1>7, <2>1, <2>4, HereUndisturbed
  <1> QED BY <1>1, <1>7, <1>8, <1>9, <1>10, CallCounted

(* A delivery that nobody has heard of begins.                             *)
LEMMA DeliverCounted == ASSUME Inv, Counted, NEW d \in Deliveries, Deliver(d) PROVE Counted'
  <1>1. /\ d \in Actors /\ d \notin started /\ started' = started \cup {d}
        /\ attempt' = [attempt EXCEPT ![d] = [Sending(d) EXCEPT !.pc = "write"]]
        /\ UNCHANGED <<kind, queue, failed, recovery, written, sends, errors, disturbed>>
    BY DEF Deliver, Actors
  <1>2. /\ attempt'[d].pc = "write" /\ attempt'[d].id = d /\ ~attempt'[d].partial
        /\ \A b \in Actors : b # d => attempt'[b] = attempt[b]
    BY <1>1, ActorType DEF Inv, Sending, Off
  <1>3. \A b \in Actors : ~WorksOn(b, d)
    BY <1>1, CallKnown DEF WorksOn
  <1>4. attempt[d].pc = "off"
    BY <1>1, CallKnown DEF Live
  <1>5. d \notin Pending /\ ~Listed(d)
    BY <1>1 DEF Inv, DiskOK, HistoryOK, TodoKnown, Listed, Written
  <1>6. Untouched'
    BY <1>1, <1>2 DEF Counted, Untouched, Actors
  <1>7. ASSUME NEW e \in Deliveries PROVE Tally(e)'
    <2>1. Tally(e)
      BY DEF Counted
    <2>2. Owing(e)' = Owing(e)
      BY <1>2, <1>4 DEF Owing
    <2>3. ListedWithin(e, errors[e])' <=> ListedWithin(e, errors[e])
      BY <1>1 DEF ListedWithin
    <2>4. \A b \in Actors : attempt'[b].pc = "rewrite" => attempt'[b] = attempt[b]
      BY <1>2
    <2> QED BY <1>1, <2>1, <2>2, <2>3, <2>4 DEF Tally, Pending
  <1>8. ASSUME NEW e \in Deliveries \ disturbed' PROVE Undisturbed(e)'
    <2>1. Undisturbed(e) /\ (Listed(e)' <=> Listed(e)) /\ (ListedOnce(e) => ListedOnce(e)')
      BY <1>1, ListsStay DEF Counted
    <2>2. CASE e # d
      <3>1. \A a \in Actors : WorksOn(a, e)' <=> WorksOn(a, e)
        BY <1>2, <1>4, <2>2 DEF WorksOn
      <3>2. \A a \in Actors : WorksOn(a, e) => attempt'[a] = attempt[a]
        BY <1>2, <1>4 DEF WorksOn
      <3>3. Alone(e)'
        BY <2>1, <3>1 DEF Undisturbed, Alone
      <3>4. \A a \in Actors : WorksOn(a, e) => Underway(a)'
        BY <1>1, <2>1, <3>2, UnderwayStays DEF Undisturbed
      <3> QED BY <1>1, <2>1, <3>1, <3>3, <3>4 DEF Undisturbed, Ready, Pending
    <2>3. CASE e = d
      <3>1. \A a \in Actors : WorksOn(a, d)' <=> a = d
        BY <1>1, <1>2, <1>3 DEF WorksOn
      <3>2. Alone(d)'
        BY <1>5, <2>1, <2>3, <3>1 DEF Undisturbed, Alone
      <3>3. errors[d] = 0 /\ \A p \in 1..Payloads : sends[d][p] = 0
        BY <1>1 DEF Counted, Untouched
      <3>4. Underway(d)'
        BY <1>1, <1>2, <3>3 DEF Underway, Clean, Counting
      <3> QED BY <1>1, <1>5, <2>1, <2>3, <3>1, <3>2, <3>3, <3>4 DEF Undisturbed, Pending
    <2> QED BY <2>2, <2>3
  <1> QED BY <1>6, <1>7, <1>8 DEF Counted

-----------------------------------------------------------------------------
(* The recoveries.  From a list entries are only taken, from its head on.  *)
Shortened(shift) ==
    \A r \in Recoveries : \A i \in 1..Len(recovery'[r].todo) :
       /\ i + shift[r] \in 1..Len(recovery[r].todo)
       /\ recovery'[r].todo[i] = recovery[r].todo[i + shift[r]]

LEMMA ListsShorten ==
  ASSUME NEW shift \in [Recoveries -> Nat], Shortened(shift), NEW d, NEW n
  PROVE  /\ Listed(d)' => Listed(d)
         /\ ListedOnce(d) => ListedOnce(d)'
         /\ ListedWithin(d, n) => ListedWithin(d, n)'
  <1>1. Listed(d)' => Listed(d)
    BY DEF Shortened, Listed
  <1>2. ASSUME ListedOnce(d) PROVE ListedOnce(d)'
    <2> SUFFICES ASSUME NEW q \in Recoveries, NEW r \in Recoveries,
                        NEW i \in 1..Len(recovery'[q].todo), NEW j \in 1..Len(recovery'[r].todo),
                        recovery'[q].todo[i].id = d, recovery'[r].todo[j].id = d
                 PROVE  q = r /\ i = j
      BY DEF ListedOnce
    <2>1. /\ i + shift[q] \in 1..Len(recovery[q].todo) /\ recovery[q].todo[i + shift[q]].id = d
          /\ j + shift[r] \in 1..Len(recovery[r].todo) /\ recovery[r].todo[j + shift[r]].id = d
      BY DEF Shortened
    <2>2. q = r /\ i + shift[q] = j + shift[r]
      BY <1>2, <2>1 DEF ListedOnce
    <2>3. i \in Int /\ j \in Int /\ shift[q] \in Int
      OBVIOUS
    <2> QED BY <2>2, <2>3
  <1>3. ASSUME ListedWithin(d, n) PROVE ListedWithin(d, n)'
    <2> SUFFICES ASSUME NEW r \in Recoveries, NEW i \in 1..Len(recovery'[r].todo),
                        recovery'[r].todo[i].id = d
                 PROVE  recovery'[r].todo[i].retry <= n
      BY DEF ListedWithin
    <2>1. i + shift[r] \in 1..Len(recovery[r].todo)
          /\ recovery'[r].todo[i] = recovery[r].todo[i + shift[r]]
      BY DEF Shortened
    <2> QED BY <1>3, <2>1 DEF ListedWithin
  <1> QED BY <1>1, <1>2, <1>3

(* A step that takes from the lists, and leaves the calls and the disk.    *)
LEMMA ListCounted ==
  ASSUME Inv, Counted, NEW shift \in [Recoveries -> Nat], Shortened(shift),
         UNCHANGED <<kind, queue, failed, attempt, started, written, sends, errors>>,
         disturbed \subseteq disturbed'
  PROVE  Counted'
  <1>1. Untouched'
    BY DEF Counted, Untouched
  <1>2. ASSUME NEW d \in Deliveries PROVE Tally(d)'
    <2>1. Tally(d) /\ Owing(d)' = Owing(d)
      BY DEF Counted, Owing
    <2>2. ListedWithin(d, errors[d]) => ListedWithin(d, errors[d])'
      <3>1. PICK n : n = errors[d]
        OBVIOUS
      <3>2. ListedWithin(d, n) => ListedWithin(d, n)'
        BY ListsShorten
      <3> QED BY <3>1, <3>2 DEF ListedWithin
    <2> QED BY <2>1, <2>2 DEF Tally, Pending
  <1>3. ASSUME NEW d \in Deliveries \ disturbed' PROVE Undisturbed(d)'
    <2>1. Undisturbed(d) /\ (Listed(d)' => Listed(d)) /\ (ListedOnce(d) => ListedOnce(d)')
      BY ListsShorten DEF Counted
    <2>2. \A a \in Actors : WorksOn(a, d)' <=> WorksOn(a, d)
      BY DEF WorksOn
    <2>3. Alone(d)'
      BY <2>1, <2>2 DEF Undisturbed, Alone
    <2>4. \A a \in Actors : WorksOn(a, d) => Underway(a)'
      BY <2>1, UnderwayStays DEF Undisturbed
    <2> QED BY <2>1, <2>2, <2>3, <2>4 DEF Undisturbed, Ready, Pending
  <1> QED BY <1>1, <1>2, <1>3 DEF Counted

(* The list of r is as before, or ends, or has lost its head.              *)
LEMMA ListStep ==
  ASSUME Inv, NEW r \in Recoveries,
         \A q \in Recoveries : q # r => recovery'[q].todo = recovery[q].todo,
         \/ recovery'[r].todo = recovery[r].todo
         \/ Len(recovery'[r].todo) = 0
         \/ recovery[r].todo # <<>> /\ recovery'[r].todo = Tail(recovery[r].todo)
  PROVE  \E shift \in [Recoveries -> Nat] : Shortened(shift)
  <1>1. CASE recovery[r].todo # <<>> /\ recovery'[r].todo = Tail(recovery[r].todo)
    <2> DEFINE shift == [q \in Recoveries |-> IF q = r THEN 1 ELSE 0]
               todo == recovery[r].todo
    <2>1. todo \in Seq(Entry)
      BY DEF Inv, CallsOK, Recovery
    <2>2. /\ Len(Tail(todo)) = Len(todo) - 1 /\ Len(todo) \in Nat
          /\ \A i \in 1..(Len(todo) - 1) : Tail(todo)[i] = todo[i + 1]
      BY <1>1, <2>1
    <2>3. \A i \in 1..Len(recovery'[r].todo) :
             i + 1 \in 1..Len(todo) /\ recovery'[r].todo[i] = todo[i + 1]
      BY <1>1, <2>2
    <2>4. \A q \in Recoveries : \A i \in 1..Len(recovery'[q].todo) :
             q # r => i + 0 = i /\ recovery'[q].todo = recovery[q].todo
      OBVIOUS
    <2>5. shift \in [Recoveries -> Nat] /\ Shortened(shift)
      BY <2>3, <2>4 DEF Shortened
    <2> QED BY <2>5
  <1>2. CASE recovery'[r].todo = recovery[r].todo \/ Len(recovery'[r].todo) = 0
    <2> DEFINE shift == [q \in Recoveries |-> 0]
    <2>1. \A q \in Recoveries : \A i \in 1..Len(recovery'[q].todo) :
             i + 0 = i /\ recovery'[q].todo = recovery[q].todo
      BY <1>2
    <2>2. shift \in [Recoveries -> Nat] /\ Shortened(shift)
      BY <2>1 DEF Shortened
    <2> QED BY <2>2
  <1> QED BY <1>1, <1>2

LEMMA RecoveryEndsCounted == ASSUME Inv, Counted, NEW r \in Recoveries, RecoveryEnds(r) PROVE Counted'
  <1>1. recovery' = [recovery EXCEPT ![r] = NoRecovery] /\ recovery \in [Recoveries -> Recovery]
    BY DEF RecoveryEnds, Inv, CallsOK
  <1>2. Len(recovery'[r].todo) = 0 /\ \A q \in Recoveries : q # r => recovery'[q].todo = recovery[q].todo
    BY <1>1 DEF NoRecovery
  <1>3. PICK shift \in [Recoveries -> Nat] : Shortened(shift)
    BY <1>2, ListStep
  <1> QED BY <1>3, ListCounted DEF RecoveryEnds, history

LEMMA StartCounted == ASSUME Inv, Counted, Start \/ RestartInProcess PROVE Counted'
  <1>1. PICK r \in Recoveries : StartRecovery(r)
    BY DEF Start, RestartInProcess
  <1>2. recovery' = [recovery EXCEPT ![r].pc = "load"] /\ recovery \in [Recoveries -> Recovery]
    BY <1>1 DEF StartRecovery, Inv, CallsOK
  <1>3. \A q \in Recoveries : recovery'[q].todo = recovery[q].todo
    BY <1>2 DEF Recovery
  <1>4. PICK shift \in [Recoveries -> Nat] : Shortened(shift)
    BY <1>3, ListStep
  <1> QED BY <1>1, <1>4, ListCounted DEF StartRecovery, history

LEMMA StopCounted == ASSUME Inv, Counted, Stop PROVE Counted'
  <1>1. UNCHANGED <<kind, queue, failed, attempt, recovery, started, written, sends, errors, disturbed>>
    BY DEF Stop, history
  <1> DEFINE shift == [q \in Recoveries |-> 0]
  <1>2. shift \in [Recoveries -> Nat] /\ Shortened(shift)
    BY <1>1 DEF Shortened
  <1> QED BY <1>1, <1>2, ListCounted

(* The entry at the head, and the list without it.                         *)
LEMMA HeadTaken ==
  ASSUME Inv, NEW r \in Recoveries, recovery[r].todo # <<>>, recovery'[r].todo = Tail(recovery[r].todo),
         \A q \in Recoveries : q # r => recovery'[q].todo = recovery[q].todo,
         NEW d, d = HeadOf(r).id
  PROVE  /\ Listed(d) /\ (ListedOnce(d) => ~Listed(d)')
         /\ HeadOf(r).retry \in Counts
         /\ \A n : ListedWithin(d, n) => HeadOf(r).retry <= n
  <1> DEFINE todo == recovery[r].todo
  <1>1. todo \in Seq(Entry)
    BY DEF Inv, CallsOK, Recovery
  <1>2. /\ Len(todo) \in Nat /\ 1 \in 1..Len(todo) /\ todo[1] = HeadOf(r) /\ todo[1] \in Entry
        /\ Len(Tail(todo)) = Len(todo) - 1
        /\ \A i \in 1..(Len(todo) - 1) : Tail(todo)[i] = todo[i + 1]
    BY <1>1 DEF HeadOf
  <1>3. Listed(d) /\ HeadOf(r).retry \in Counts /\ \A n : ListedWithin(d, n) => HeadOf(r).retry <= n
    BY <1>2 DEF Listed, ListedWithin, Entry
  <1>4. ASSUME ListedOnce(d), NEW q \in Recoveries, NEW i \in 1..Len(recovery'[q].todo),
               recovery'[q].todo[i].id = d
        PROVE  FALSE
    <2>1. CASE q = r
      <3>1. i \in 1..(Len(todo) - 1) /\ recovery'[q].todo[i] = todo[i + 1]
        BY <1>2, <2>1
      <3>2. i + 1 \in 1..Len(todo) /\ todo[i + 1].id = d /\ i + 1 # 1
        BY <1>2, <1>4, <3>1
      <3> QED BY <1>2, <1>4, <3>2 DEF ListedOnce
    <2>2. CASE q # r
      <3>1. i \in 1..Len(recovery[q].todo) /\ recovery[q].todo[i].id = d
        BY <1>4, <2>2
      <3> QED BY <1>2, <1>4, <2>2, <3>1 DEF ListedOnce
    <2> QED BY <2>1, <2>2
  <1> QED BY <1>3, <1>4 DEF Listed

(* An entry is given up: what its list says of its retries is true.        *)
LEMMA GiveUpCounted ==
  ASSUME Inv, Counted, NEW r \in Recoveries, GiveUp(r) \/ GiveUpFails(r)
  PROVE  Counted'
  <1> DEFINE todo == recovery[r].todo
  <1>1. /\ todo # <<>> /\ recovery' = [recovery EXCEPT ![r].todo = Tail(@)]
        /\ UNCHANGED <<kind, attempt, started, written, sends, errors, disturbed>>
    BY DEF GiveUp, GiveUpFails, history
  <1>2. /\ recovery'[r].todo = Tail(todo)
        /\ \A q \in Recoveries : q # r => recovery'[q].todo = recovery[q].todo
    BY <1>1 DEF Inv, CallsOK, Recovery
  <1>3. PICK shift \in [Recoveries -> Nat] : Shortened(shift)
    BY <1>1, <1>2, ListStep
  <1>4. CASE GiveUpFails(r)
    BY <1>1, <1>3, <1>4, ListCounted DEF GiveUpFails
  <1>5. CASE GiveUp(r)
    <2>1. PICK d \in Deliveries : d = HeadOf(r).id
      BY <1>1, HeadKnown DEF Entry
    <2>2. /\ Listed(d) /\ (ListedOnce(d) => ~Listed(d)') /\ HeadOf(r).retry \in Counts
          /\ \A n : ListedWithin(d, n) => HeadOf(r).retry <= n
      BY <1>1, <1>2, <2>1, HeadTaken
    <2>3. /\ queue' = Without(queue, d) /\ failed' = IF d \in Pending THEN failed \cup {d} ELSE failed
          /\ HeadOf(r).retry >= MaxRetries
      BY <1>5, <2>1 DEF GiveUp, moveToFailed, GivenUp
    <2>4. /\ d \notin Pending' /\ \A e \in Deliveries : e # d => Same(e)
      BY <1>1, <2>3 DEF Without, Same, Pending
    <2>5. Untouched'
      BY <1>1 DEF Counted, Untouched
    <2>6. ASSUME NEW e \in Deliveries PROVE Tally(e)'
      <3>1. Tally(e) /\ Owing(e)' = Owing(e) /\ errors[e] \in 0..MaxRetries /\ MaxRetries \in Nat
        BY <1>1, DeliveryAssumption DEF Counted, Owing, Inv, HistoryOK
      <3>2. ListedWithin(e, errors[e]) => ListedWithin(e, errors[e])'
        <4>1. PICK n : n = errors[e]
          OBVIOUS
        <4>2. ListedWithin(e, n) => ListedWithin(e, n)'
          BY <1>3, ListsShorten
        <4> QED BY <1>1, <4>1, <4>2 DEF ListedWithin
      <3>3. e \in failed' => errors[e] = MaxRetries
        <4> SUFFICES ASSUME e = d, errors[e] < MaxRetries PROVE FALSE
          BY <2>3, <3>1 DEF Tally
        <4>1. HeadOf(r).retry <= errors[e]
          BY <2>2, <3>1 DEF Tally
        <4> QED BY <2>2, <2>3, <3>1, <4>1 DEF Counts
      <3>4. e \in Pending' => e \in Pending /\ queue'[e] = queue[e]
        BY <2>4 DEF Same
      <3> QED BY <1>1, <3>1, <3>2, <3>3, <3>4 DEF Tally
    <2>7. ASSUME NEW e \in Deliveries \ disturbed' PROVE Undisturbed(e)'
      <3>1. /\ Undisturbed(e) /\ (Listed(e)' => Listed(e)) /\ (ListedOnce(e) => ListedOnce(e)')
        BY <1>1, <1>3, ListsShorten DEF Counted
      <3>2. \A a \in Actors : WorksOn(a, e)' <=> WorksOn(a, e)
        BY <1>1 DEF WorksOn
      <3>3. Alone(e)'
        BY <3>1, <3>2 DEF Undisturbed, Alone
      <3>4. CASE e # d
        <4>1. Same(e)
          BY <2>4, <3>4
        <4>2. \A a \in Actors : WorksOn(a, e) => Underway(a)'
          BY <1>1, <3>1, <4>1 DEF Undisturbed, Underway, Clean, Counting, WorksOn, Same
        <4>3. Ready(e) /\ e \in Pending => Ready(e)'
          BY <1>1, <4>1 DEF Ready, Same
        <4> QED BY <1>1, <3>1, <3>2, <3>3, <4>1, <4>2, <4>3 DEF Undisturbed, Same
      <3>5. CASE e = d
        <4>1. ~Listed(d)' /\ \A a \in Actors : ~WorksOn(a, d)
          BY <2>2, <3>1, <3>5 DEF Undisturbed, Alone
        <4> QED BY <1>1, <2>4, <3>1, <3>2, <3>3, <3>5, <4>1 DEF Undisturbed
      <3> QED BY <3>4, <3>5
    <2> QED BY <2>5, <2>6, <2>7 DEF Counted
  <1> QED BY <1>4, <1>5

(* An entry is tried again: nobody else is at it.                          *)
LEMMA RetryCounted == ASSUME Inv, Counted, NEW r \in Recoveries, Retry(r) PROVE Counted'
  <1> DEFINE todo == recovery[r].todo
  <1>1. /\ todo # <<>> /\ recovery[r].pc = "next" /\ r \in Actors /\ r \notin Deliveries
        /\ recovery' = [recovery EXCEPT ![r] = Taken(r, Delay(r))]
        /\ attempt' = [attempt EXCEPT ![r] = Sending(HeadOf(r).id)]
        /\ UNCHANGED <<kind, queue, failed, started, written, sends, errors, disturbed>>
    BY DeliveryAssumption DEF Retry, history, Actors
  <1>2. PICK d \in Deliveries : d = HeadOf(r).id
    BY <1>1, HeadKnown DEF Entry
  <1>3. /\ recovery'[r].todo = Tail(todo)
        /\ \A q \in Recoveries : q # r => recovery'[q].todo = recovery[q].todo
    BY <1>1 DEF Taken, Inv, CallsOK, Recovery
  <1>4. PICK shift \in [Recoveries -> Nat] : Shortened(shift)
    BY <1>1, <1>3, ListStep
  <1>5. /\ attempt[r].pc = "off" /\ attempt'[r] = Sending(d)
        /\ \A b \in Actors : b # r => attempt'[b] = attempt[b]
    BY <1>1, <1>2 DEF Inv, CallsOK
  <1>6. /\ attempt'[r].pc = "send" /\ attempt'[r].id = d /\ attempt'[r].next = 1
        /\ ~attempt'[r].partial
    BY <1>5 DEF Sending, Off
  <1>7. Untouched'
    BY <1>1, <1>5 DEF Counted, Untouched, Actors
  <1>8. ASSUME NEW e \in Deliveries PROVE Tally(e)'
    <2>1. Tally(e)
      BY DEF Counted
    <2>2. Owing(e)' = Owing(e)
      BY <1>5, <1>6 DEF Owing
    <2>3. ListedWithin(e, errors[e]) => ListedWithin(e, errors[e])'
      <3>1. PICK n : n = errors[e]
        OBVIOUS
      <3>2. ListedWithin(e, n) => ListedWithin(e, n)'
        BY <1>4, ListsShorten
      <3> QED BY <1>1, <3>1, <3>2 DEF ListedWithin
    <2>4. \A b \in Actors : attempt'[b].pc = "rewrite" => attempt'[b] = attempt[b]
      BY <1>5, <1>6
    <2> QED BY <1>1, <2>1, <2>2, <2>3, <2>4 DEF Tally, Pending
  <1>9. ASSUME NEW e \in Deliveries \ disturbed' PROVE Undisturbed(e)'
    <2>1. /\ Undisturbed(e) /\ (Listed(e)' => Listed(e)) /\ (ListedOnce(e) => ListedOnce(e)')
      BY <1>1, <1>4, ListsShorten DEF Counted
    <2>2. CASE e # d
      <3>1. \A a \in Actors : WorksOn(a, e)' <=> WorksOn(a, e)
        BY <1>5, <1>6, <2>2 DEF WorksOn
      <3>2. \A a \in Actors : WorksOn(a, e) => attempt'[a] = attempt[a]
        BY <1>5 DEF WorksOn
      <3>3. Alone(e)'
        BY <2>1, <3>1 DEF Undisturbed, Alone
      <3>4. \A a \in Actors : WorksOn(a, e) => Underway(a)'
        BY <1>1, <2>1, <3>2, UnderwayStays DEF Undisturbed
      <3> QED BY <1>1, <2>1, <3>1, <3>3, <3>4 DEF Undisturbed, Ready, Pending
    <2>3. CASE e = d
      <3>1. Listed(d) /\ ~Listed(d)'
        BY <1>1, <1>2, <1>3, <2>1, <2>3, HeadTaken DEF Undisturbed, Alone
      <3>2. d \in Pending /\ (\A a \in Actors : ~WorksOn(a, d)) /\ Ready(d)
        BY <2>1, <2>3, <3>1 DEF Undisturbed, Alone
      <3>3. \A a \in Actors : WorksOn(a, d)' <=> a = r
        BY <1>5, <1>6, <3>2 DEF WorksOn
      <3>4. Alone(d)'
        BY <2>1, <2>3, <3>1, <3>3 DEF Undisturbed, Alone
      <3>5. Underway(r)'
        BY <1>1, <1>6, <3>2 DEF Ready, Underway, Clean, Counting, Pending
      <3> QED BY <1>1, <2>1, <2>3, <3>1, <3>3, <3>4, <3>5 DEF Undisturbed
    <2> QED BY <2>2, <2>3
  <1> QED BY <1>7, <1>8, <1>9 DEF Counted

(* A recovery reads the queue: whom it overlaps with is disturbed from now *)
(* on, and each entry is listed once.                                      *)
LEMMA LoadCounted == ASSUME Inv, Counted, NEW r \in Recoveries, Load(r) PROVE Counted'
  <1>1. /\ UNCHANGED <<kind, queue, failed, attempt, started, written, sends, errors>>
        /\ disturbed' = disturbed \cup (Pending \cap InHand)
    BY DEF Load
  <1>2. PICK todo \in loadPendingDeliveries :
          recovery' = [recovery EXCEPT ![r] = [pc |-> "next", todo |-> todo, spent |-> 0]]
    BY DEF Load
  <1> DEFINE n == Cardinality(Pending)
  <1>3. PICK order \in [1..n -> Pending] :
          /\ \A i, j \in DOMAIN order : i < j => Older(order[i], order[j])
          /\ todo = [i \in 1..n |-> [id |-> order[i], retry |-> queue[order[i]]]]
    BY DEF loadPendingDeliveries
  <1> HIDE DEF n
  <1>4. /\ recovery'[r].todo = todo /\ todo \in Seq(Entry)
        /\ \A q \in Recoveries : q # r => recovery'[q].todo = recovery[q].todo
    <2>1. Inv'
      BY LoadInv
    <2>2. recovery'[r] = [pc |-> "next", todo |-> todo, spent |-> 0]
          /\ \A q \in Recoveries : q # r => recovery'[q] = recovery[q]
      BY <1>2 DEF Inv, CallsOK
    <2> QED BY <2>1, <2>2 DEF Inv, CallsOK, Recovery
  <1>5. \A i \in 1..Len(todo) :
           i \in 1..n /\ todo[i].id = order[i] /\ todo[i].retry = queue[order[i]] /\ order[i] \in Pending
    <2>1. DOMAIN todo = 1..n
      BY <1>3
    <2>2. DOMAIN todo = 1..Len(todo)
      BY <1>4
    <2> QED BY <1>3, <2>1, <2>2
  <1>6. \A i, j \in 1..Len(todo) : todo[i].id = todo[j].id => i = j
    <2> SUFFICES ASSUME NEW i \in 1..Len(todo), NEW j \in 1..Len(todo), i < j, order[i] = order[j]
                 PROVE  FALSE
      BY <1>5
    <2>1. Older(order[i], order[j])
      BY <1>3, <1>5
    <2>2. PICK k \in 1..Len(written), l \in 1..Len(written) :
             k < l /\ written[k] = order[i] /\ written[l] = order[j]
      BY <2>1 DEF Older
    <2> QED BY <2>2 DEF Counted, Untouched
  <1>7. Untouched'
    BY <1>1 DEF Counted, Untouched
  <1>8. ASSUME NEW e \in Deliveries PROVE Tally(e)'
    <2>1. Tally(e) /\ Owing(e)' = Owing(e) /\ errors[e] \in Nat
      BY <1>1, DeliveryAssumption DEF Counted, Owing, Inv, HistoryOK
    <2>2. errors[e] < MaxRetries => ListedWithin(e, errors[e])'
      <3> SUFFICES ASSUME errors[e] < MaxRetries, NEW q \in Recoveries,
                          NEW i \in 1..Len(recovery'[q].todo), recovery'[q].todo[i].id = e
                   PROVE  recovery'[q].todo[i].retry <= errors[e]
        BY <1>1 DEF ListedWithin
      <3>1. CASE q = r
        <4>1. e \in Pending /\ recovery'[q].todo[i].retry = queue[e]
          BY <1>4, <1>5, <3>1
        <4>2. Cardinality(Owing(e)) \in Nat /\ queue[e] \in Nat
          BY <2>1, <4>1, FS_CardinalityType DEF Tally, Inv, DiskOK, Counts
        <4> QED BY <2>1, <4>1, <4>2 DEF Tally
      <3>2. CASE q # r
        BY <1>4, <2>1, <3>2 DEF Tally, ListedWithin
      <3> QED BY <3>1, <3>2
    <2> QED BY <1>1, <2>1, <2>2 DEF Tally, Pending
  <1>9. ASSUME NEW e \in Deliveries \ disturbed' PROVE Undisturbed(e)'
    <2>1. Undisturbed(e) /\ (e \in Pending => e \notin InHand)
      BY <1>1 DEF Counted
    <2>2. e \in Pending => (\A a \in Actors : ~WorksOn(a, e)) /\ ~Listed(e)
      BY <2>1 DEF InHand, WorksOn, Listed
    <2>3. \A i \in 1..Len(todo) : todo[i].id = e => e \in Pending
      BY <1>5
    <2>4. Listed(e)' => e \in Pending
      BY <1>4, <2>1, <2>3 DEF Undisturbed, Listed
    <2>5. \A a \in Actors : WorksOn(a, e)' <=> WorksOn(a, e)
      BY <1>1 DEF WorksOn
    <2>6. ListedOnce(e)'
      <3> SUFFICES ASSUME NEW q \in Recoveries, NEW p \in Recoveries,
                          NEW i \in 1..Len(recovery'[q].todo), NEW j \in 1..Len(recovery'[p].todo),
                          recovery'[q].todo[i].id = e, recovery'[p].todo[j].id = e
                   PROVE  q = p /\ i = j
        BY DEF ListedOnce
      <3>1. CASE q = r /\ p = r
        BY <1>4, <1>6, <3>1
      <3>2. CASE q # r /\ p # r
        <4>1. recovery'[q].todo = recovery[q].todo /\ recovery'[p].todo = recovery[p].todo
          BY <1>4, <3>2
        <4>2. ListedOnce(e)
          BY <2>1 DEF Undisturbed, Alone
        <4> QED BY <4>1, <4>2 DEF ListedOnce
      <3>3. CASE (q = r /\ p # r) \/ (q # r /\ p = r)
        <4>1. e \in Pending
          BY <1>4, <2>3, <3>3
        <4>2. Listed(e)
          BY <1>4, <3>3 DEF Listed
        <4> QED BY <2>2, <4>1, <4>2
      <3> QED BY <3>1, <3>2, <3>3
    <2>7. Alone(e)'
      BY <2>1, <2>2, <2>4, <2>5, <2>6 DEF Undisturbed, Alone
    <2>8. \A a \in Actors : WorksOn(a, e) => Underway(a)'
      BY <1>1, <2>1, UnderwayStays DEF Undisturbed
    <2> QED BY <1>1, <2>1, <2>4, <2>5, <2>7, <2>8 DEF Undisturbed, Ready, Pending
  <1> QED BY <1>7, <1>8, <1>9 DEF Counted

LEMMA CrashCounted == ASSUME Inv, Counted, Crash PROVE Counted'
  <1>1. /\ UNCHANGED <<kind, queue, failed, started, written, sends, errors>>
        /\ disturbed' = disturbed \cup {attempt[a].id : a \in {b \in Actors : attempt[b].pc # "off"}}
        /\ \A a \in Actors : attempt'[a].pc = "off"
        /\ \A r \in Recoveries : Len(recovery'[r].todo) = 0
    BY DEF Crash, Off, NoRecovery
  <1>2. Untouched'
    BY <1>1 DEF Counted, Untouched, Actors
  <1>3. ASSUME NEW e \in Deliveries PROVE ~Listed(e)' /\ ListedOnce(e)' /\ ListedWithin(e, errors[e])'
    BY <1>1 DEF Listed, ListedOnce, ListedWithin
  <1>4. ASSUME NEW e \in Deliveries PROVE Tally(e)'
    <2>1. Tally(e) /\ Owing(e)' = {} /\ errors[e] \in Nat
      BY <1>1, DeliveryAssumption DEF Counted, Owing, Inv, HistoryOK
    <2>2. IsFiniteSet(Owing(e)') /\ Cardinality(Owing(e)') = 0
      BY <2>1, FS_EmptySet
    <2>3. ASSUME errors[e] < MaxRetries, e \in Pending PROVE queue[e] + 0 <= errors[e]
      <3>1. Cardinality(Owing(e)) \in Nat /\ queue[e] \in Nat
        BY <2>1, <2>3, FS_CardinalityType DEF Tally, Inv, DiskOK, Counts
      <3> QED BY <2>1, <2>3, <3>1 DEF Tally
    <2> QED BY <1>1, <1>3, <2>1, <2>2, <2>3 DEF Tally, Pending
  <1>5. ASSUME NEW e \in Deliveries \ disturbed' PROVE Undisturbed(e)'
    <2>1. Undisturbed(e) /\ \A a \in Actors : ~WorksOn(a, e) /\ ~WorksOn(a, e)'
      BY <1>1 DEF Counted, WorksOn
    <2>2. Alone(e)' /\ ~Listed(e)'
      BY <1>3, <2>1 DEF Alone
    <2> QED BY <1>1, <2>1, <2>2 DEF Undisturbed, Ready, Pending
  <1> QED BY <1>2, <1>4, <1>5 DEF Counted

-----------------------------------------------------------------------------
LEMMA InitCounted == Init => Counted
  <1> SUFFICES ASSUME Init PROVE Counted
    OBVIOUS
  <1>1. Pending = {} /\ failed = {} /\ Len(written) = 0 /\ MaxRetries \in Nat
    BY DeliveryAssumption DEF Init, Pending
  <1>2. \A a \in Actors : attempt[a].pc = "off"
    BY DEF Init, Off
  <1>3. \A r \in Recoveries : Len(recovery[r].todo) = 0
    BY DEF Init, NoRecovery
  <1>4. Untouched
    BY <1>1, <1>2 DEF Init, Untouched, Actors
  <1>5. ASSUME NEW d \in Deliveries PROVE ~Listed(d) /\ ListedOnce(d) /\ ListedWithin(d, errors[d])
    BY <1>3 DEF Listed, ListedOnce, ListedWithin
  <1>6. ASSUME NEW d \in Deliveries PROVE Tally(d)
    <2>1. Owing(d) = {}
      BY <1>2 DEF Owing
    <2>2. IsFiniteSet(Owing(d))
      BY <2>1, FS_EmptySet
    <2> QED BY <1>1, <1>2, <1>5, <2>2 DEF Tally
  <1>7. ASSUME NEW d \in Deliveries PROVE Undisturbed(d)
    <2>1. \A a \in Actors : ~WorksOn(a, d)
      BY <1>2 DEF WorksOn
    <2>2. Alone(d) /\ ~Listed(d)
      BY <1>5, <2>1 DEF Alone
    <2> QED BY <1>1, <2>1, <2>2 DEF Undisturbed, Init
  <1> QED BY <1>4, <1>6, <1>7 DEF Counted

LEMMA NextCounted == Inv /\ Counted /\ [Next]_vars => Counted'
  <1> SUFFICES ASSUME Inv, Counted, [Next]_vars PROVE Counted'
    OBVIOUS
  <1>1. ASSUME NEW d \in Deliveries, Deliver(d) \/ enqueueDelivery(d) \/ EnqueueFails(d) \/ Abort(d)
                                   \/ TakenForAbort(d)
        PROVE  Counted'
    BY <1>1, DeliverCounted, EnqueueCounted, AbortCounted, TakenForAbortCounted
  <1>2. ASSUME NEW a \in Actors, DeliveryStep(a) \/ DeliveryFaults(a)
        PROVE  Counted'
    <2>1. CASE \E t \in SendTimes : PayloadSent(a, t) \/ PayloadFails(a, t)
      BY <2>1, PayloadSentCounted, PayloadFailsCounted
    <2>2. CASE CoreThrows(a) \/ CoreReturns(a)
      BY <2>2, CoreCounted
    <2>3. CASE Ack(a) \/ FailReads(a) \/ FailWrites(a)
      BY <2>3, AckCounted, FailReadsCounted, FailWritesCounted
    <2>4. CASE AckFails(a) \/ FailDeliveryFails(a)
      BY <2>4, AckFailsCounted, FailDeliveryFailsCounted
    <2> QED BY <1>2, <2>1, <2>2, <2>3, <2>4 DEF DeliveryStep, DeliveryFaults
  <1>3. ASSUME NEW r \in Recoveries, RecoveryStep(r) \/ GiveUpFails(r)
        PROVE  Counted'
    BY <1>3, LoadCounted, RecoveryEndsCounted, RetryCounted, GiveUpCounted DEF RecoveryStep
  <1>4. CASE UNCHANGED vars
    <2>1. UNCHANGED <<kind, queue, failed, attempt, recovery, started, written, sends, errors, disturbed>>
      BY <1>4 DEF vars
    <2> DEFINE shift == [q \in Recoveries |-> 0]
    <2>2. shift \in [Recoveries -> Nat] /\ Shortened(shift)
      BY <2>1 DEF Shortened
    <2> QED BY <2>1, <2>2, ListCounted
  <1> QED BY <1>1, <1>2, <1>3, <1>4, StartCounted, StopCounted, CrashCounted DEF Next

LEMMA SpecCounted == Spec => [](Inv /\ Counted)
  <1>1. Init => Inv /\ Counted
    BY InitInv, InitCounted
  <1>2. (Inv /\ Counted) /\ [Next]_vars => (Inv /\ Counted)'
    BY NextInv, NextCounted
  <1> QED BY <1>1, <1>2, PTL DEF Spec

(* Whatever calls overlap and whatever fails, no entry is given up before  *)
(* MaxRetries attempts on it have failed, and without faults and overlaps  *)
(* the count of an entry is exact (delivery-queue.ts 128-140, 244).        *)
THEOREM SpecRetriesCounted == Spec => []RetriesCounted
  <1>1. Inv => TypeOK
    BY DEF Inv, DiskOK, CallsOK, HistoryOK, TypeOK, Attempt, Recovery
  <1>2. Inv /\ Counted => GivenUpOnlyAfterRetries
    BY DEF Inv, DiskOK, HistoryOK, Counted, Tally, GivenUpOnlyAfterRetries
  <1>3. Inv /\ Counted => CountIsExact
    BY DEF Inv, DiskOK, HistoryOK, Counted, Undisturbed, WorksOn, Ready, CountIsExact
  <1>4. Inv /\ Counted => RetriesCounted
    BY <1>1, <1>2, <1>3 DEF RetriesCounted
  <1> QED BY <1>4, SpecCounted, PTL

(* A payload is not sent again unless an attempt failed, was cut short or  *)
(* overlapped with another (deliver.ts, delivery-queue.ts).                *)
THEOREM SpecNoGratuitousResend == Spec => []NoGratuitousResend
  <1>1. Inv /\ Counted => NoGratuitousResend
    BY DEF Counted, Undisturbed, NoGratuitousResend
  <1> QED BY <1>1, SpecCounted, PTL

-----------------------------------------------------------------------------
(* The queue is an outbox.                                                 *)

(* An entry that a failure is being counted for has not gone, unless other *)
(* attempts or faults came between.                                        *)
Held ==
    \A a \in Actors : attempt[a].pc = "rewrite" => attempt[a].id \in Pending \cup disturbed

(* Nobody takes the entry of an undisturbed delivery from a call on it.    *)
LEMMA HeldStays ==
  ASSUME Held, disturbed \subseteq disturbed',
         \A a \in Actors : attempt'[a].pc = "rewrite" =>
            \/ attempt'[a].id \in Pending'
            \/ /\ attempt[a].pc = "rewrite" /\ attempt'[a].id = attempt[a].id
               /\ attempt[a].id \in Pending \ disturbed => attempt[a].id \in Pending'
  PROVE  Held'
  BY DEF Held

(* What the actions that leave the entries alone have in common.           *)
LEMMA HeldUnmoved ==
  ASSUME Held, disturbed \subseteq disturbed', Pending \subseteq Pending',
         \A a \in Actors : attempt'[a].pc = "rewrite" => attempt'[a] = attempt[a]
  PROVE  Held'
  BY HeldStays

(* A call goes on, but not to count a failure.                             *)
LEMMA HeldGoesOn ==
  ASSUME Held, disturbed \subseteq disturbed', Pending' = Pending, NEW a \in Actors,
         attempt'[a].pc # "rewrite", \A b \in Actors : b # a => attempt'[b] = attempt[b]
  PROVE  Held'
  BY HeldUnmoved

LEMMA HeldLive ==
  ASSUME Inv, Held, NEW d \in Deliveries,
         Deliver(d) \/ enqueueDelivery(d) \/ EnqueueFails(d) \/ Abort(d) \/ TakenForAbort(d)
  PROVE  Held'
  <1>1. attempt \in [Actors -> Attempt] /\ d \in Actors
    BY DEF Inv, CallsOK, Actors
  <1>2. CASE Deliver(d)
    BY <1>1, <1>2, HeldUnmoved DEF Deliver, Sending, Off, Pending
  <1>3. CASE enqueueDelivery(d)
    BY <1>1, <1>3, HeldUnmoved DEF enqueueDelivery, With, Pending
  <1>4. CASE EnqueueFails(d)
    BY <1>1, <1>4, HeldUnmoved DEF EnqueueFails, history, Pending
  <1>5. CASE Abort(d)
    <2>1. attempt[d].pc = "send" /\ disturbed' = disturbed /\ Pending' = Pending
      BY <1>5 DEF Abort, Pending
    <2>2. CASE kind[d] = "strict"
      BY <1>1, <1>5, <2>1, <2>2, SettleStep, HeldGoesOn DEF Abort
    <2>3. CASE kind[d] # "strict"
      <3>1. attempt'[d].pc = "send" /\ \A b \in Actors : b # d => attempt'[b] = attempt[b]
        BY <1>1, <1>5, <2>1, <2>3 DEF Abort, Attempt
      <3> QED BY <1>1, <2>1, <3>1, HeldGoesOn
    <2> QED BY <2>2, <2>3
  <1>6. CASE TakenForAbort(d)
    <2>1. /\ attempt[d].pc = "send" /\ disturbed' = disturbed /\ Pending' = Pending
          /\ Settle(d, "ack")
      BY <1>6 DEF TakenForAbort, Pending
    <2> QED BY <1>1, <2>1, SettleStep, HeldGoesOn
  <1> QED BY <1>2, <1>3, <1>4, <1>5, <1>6

LEMMA HeldCall ==
  ASSUME Inv, Counted, Held, NEW a \in Actors, DeliveryStep(a) \/ DeliveryFaults(a)
  PROVE  Held'
  <1>1. attempt \in [Actors -> Attempt]
    BY DEF Inv, CallsOK
  <1>2. ASSUME NEW t \in SendTimes, PayloadSent(a, t) PROVE Held'
    BY <1>1, <1>2, HeldUnmoved DEF PayloadSent, Pending
  <1>3. ASSUME NEW t \in SendTimes, PayloadFails(a, t) PROVE Held'
    <2>1. attempt[a].pc = "send" /\ disturbed' = disturbed /\ Pending' = Pending
      BY <1>3 DEF PayloadFails, Pending
    <2>2. CASE kind[attempt[a].id] = "strict"
      BY <1>3, <2>1, <2>2, SettleStep, HeldGoesOn DEF PayloadFails
    <2>3. CASE kind[attempt[a].id] # "strict"
      <3>1. attempt'[a].pc = "send" /\ \A b \in Actors : b # a => attempt'[b] = attempt[b]
        BY <1>1, <1>3, <2>1, <2>3 DEF PayloadFails, Attempt
      <3> QED BY <2>1, <3>1, HeldGoesOn
    <2> QED BY <2>2, <2>3
  <1>4. CASE CoreThrows(a) \/ CoreReturns(a)
    <2>1. /\ attempt[a].pc = "send" /\ disturbed' = disturbed /\ Pending' = Pending
          /\ Settle(a, "read") \/ Settle(a, "ack")
      BY <1>4 DEF CoreThrows, CoreReturns, Pending, history
    <2>2. attempt'[a].pc # "rewrite" /\ \A b \in Actors : b # a => attempt'[b] = attempt[b]
      BY <2>1, SettleStep
    <2> QED BY <2>1, <2>2, HeldGoesOn
  <1>5. CASE Ack(a)
    <2>1. /\ attempt' = [attempt EXCEPT ![a] = Off] /\ queue' = Without(queue, attempt[a].id)
          /\ attempt[a].pc = "ack" /\ disturbed' = disturbed
      BY <1>5 DEF Ack, ackDelivery, Finish, history
    <2>2. \A b \in Actors : attempt'[b].pc = "rewrite" => b # a /\ attempt'[b] = attempt[b]
      BY <1>1, <2>1 DEF Off
    <2>3. Pending' = Pending \ {attempt[a].id}
      BY <2>1 DEF Without, Pending
    <2>4. ASSUME NEW b \in Actors, b # a, attempt[b].pc = "rewrite", attempt[b].id = attempt[a].id
          PROVE  attempt[b].id \in disturbed
      <3>1. attempt[b].id \in Deliveries
        BY <2>4, CallKnown
      <3>2. ~Alone(attempt[b].id)
        BY <2>1, <2>4 DEF Alone, WorksOn
      <3> QED BY <3>1, <3>2 DEF Counted, Undisturbed
    <2> QED BY <2>1, <2>2, <2>3, <2>4, HeldStays
  <1>6. CASE FailReads(a)
    <2>1. CASE attempt[a].id \in Pending
      <3>1. attempt'[a].id = attempt[a].id /\ \A b \in Actors : b # a => attempt'[b] = attempt[b]
        BY <1>1, <1>6, <2>1 DEF FailReads, Attempt
      <3>2. Pending' = Pending /\ disturbed' = disturbed
        BY <1>6 DEF FailReads, history, Pending
      <3> QED BY <2>1, <3>1, <3>2, HeldStays
    <2>2. CASE attempt[a].id \notin Pending
      BY <1>1, <1>6, <2>2, HeldUnmoved DEF FailReads, Finish, Off, history, Pending
    <2> QED BY <2>1, <2>2
  <1>7. CASE FailWrites(a)
    BY <1>1, <1>7, HeldUnmoved DEF FailWrites, RewriteEntry, With, Finish, Off, history, Pending
  <1>8. CASE AckFails(a)
    <2>1. disturbed \subseteq disturbed' /\ Pending' = Pending /\ attempt[a].pc = "ack"
      BY <1>8 DEF AckFails, Pending
    <2>2. attempt'[a].pc # "rewrite" /\ \A b \in Actors : b # a => attempt'[b] = attempt[b]
      <3>1. CASE Live(a)
        BY <1>1, <1>8, <3>1 DEF AckFails, Finish, Off
      <3>2. CASE ~Live(a)
        BY <1>1, <1>8, <3>2 DEF AckFails, Attempt
      <3> QED BY <3>1, <3>2
    <2> QED BY <2>1, <2>2, HeldGoesOn
  <1>9. CASE FailDeliveryFails(a)
    BY <1>1, <1>9, HeldUnmoved DEF FailDeliveryFails, Finish, Off, Pending
  <1> QED BY <1>2, <1>3, <1>4, <1>5, <1>6, <1>7, <1>8, <1>9 DEF DeliveryStep, DeliveryFaults

LEMMA HeldRecovery ==
  ASSUME Inv, Counted, Held, NEW r \in Recoveries, RecoveryStep(r) \/ GiveUpFails(r)
  PROVE  Held'
  <1>1. attempt \in [Actors -> Attempt] /\ r \in Actors
    BY DEF Inv, CallsOK, Actors
  <1>2. CASE Load(r) \/ RecoveryEnds(r) \/ GiveUpFails(r)
    BY <1>2, HeldUnmoved DEF Load, RecoveryEnds, GiveUpFails, history, Pending
  <1>3. CASE Retry(r)
    BY <1>1, <1>3, HeldUnmoved DEF Retry, Sending, Off, history, Pending
  <1>4. CASE GiveUp(r)
    <2> DEFINE d == HeadOf(r).id
    <2>1. /\ recovery[r].todo # <<>> /\ queue' = Without(queue, d)
          /\ UNCHANGED <<attempt, disturbed>>
      BY <1>4 DEF GiveUp, moveToFailed, history
    <2>2. Pending' = Pending \ {d}
      BY <2>1 DEF Without, Pending
    <2>3. ASSUME NEW a \in Actors, attempt[a].pc = "rewrite", attempt[a].id = d
          PROVE  d \in disturbed
      <3>1. d \in Deliveries
        BY <2>3, CallKnown
      <3>2. Listed(d)
        <4>1. recovery[r].todo \in Seq(Entry)
          BY DEF Inv, CallsOK, Recovery
        <4>2. 1 \in 1..Len(recovery[r].todo) /\ recovery[r].todo[1].id = d
          BY <2>1, <4>1 DEF HeadOf
        <4> QED BY <4>2 DEF Listed
      <3>3. ~Alone(d)
        BY <2>3, <3>2 DEF Alone, WorksOn
      <3> QED BY <3>1, <3>3 DEF Counted, Undisturbed
    <2> QED BY <2>1, <2>2, <2>3, HeldStays
  <1> QED BY <1>2, <1>3, <1>4 DEF RecoveryStep

LEMMA NextHeld == Inv /\ Counted /\ Held /\ [Next]_vars => Held'
  <1> SUFFICES ASSUME Inv, Counted, Held, [Next]_vars PROVE Held'
    OBVIOUS
  <1>1. CASE Start \/ RestartInProcess \/ Stop \/ UNCHANGED vars
    BY <1>1, HeldUnmoved DEF Start, RestartInProcess, StartRecovery, Stop, vars, history, Pending
  <1>2. CASE Crash
    BY <1>2, HeldUnmoved DEF Crash, Off, Pending
  <1> QED BY <1>1, <1>2, HeldLive, HeldCall, HeldRecovery DEF Next

(* What an outbox does not see.                                            *)
LEMMA OutboxUnseen ==
  ASSUME UNCHANGED <<kind, queue, failed, written, sends, errors, aborted, mistaken, disturbed>>
  PROVE  UNCHANGED OB!outboxVars
  BY DEF OB!outboxVars, Stage, Pending, Written, ToSet

(* Only the entry of d moves.                                              *)
LEMMA OutboxMoves ==
  ASSUME NEW d \in Deliveries, NEW to, Stage(d)' = to,
         \A e \in Deliveries \ {d} : Stage(e)' = Stage(e),
         UNCHANGED <<kind, sends, errors, aborted, mistaken, disturbed>>
  PROVE  OB!Moves(d, to)
  BY DEF OB!Moves

LEMMA OutboxMuddled ==
  ASSUME NEW ds \in SUBSET Deliveries, disturbed' = disturbed \cup ds,
         UNCHANGED <<kind, queue, failed, written, sends, errors, aborted, mistaken>>
  PROVE  OB!Muddle
  BY DEF OB!Muddle, Stage, Pending, Written, ToSet

(* An entry leaves the disk: it is done, or it is in failed/ already.      *)
LEMMA OutboxLeaves ==
  ASSUME Inv, Counted, Inv', Counted', NEW d \in Deliveries, d \in Pending, Written(d),
         Pending' = Pending \ {d}, failed' \subseteq failed \cup {d}, failed \subseteq failed',
         UNCHANGED <<kind, written, sends, errors, aborted, mistaken, disturbed>>
  PROVE  OB!Close(d) \/ OB!GiveUpOn(d)
  <1>1. \A e \in Deliveries \ {d} : Stage(e)' = Stage(e)
    BY DEF Stage, Written, ToSet
  <1>2. Stage(d) = "pending" /\ Written(d)' /\ d \notin Pending'
    BY DEF Stage, Written, ToSet
  <1>3. CASE d \in failed'
    <2>1. Stage(d)' = "failed"
      BY <1>2, <1>3 DEF Stage
    <2>2. errors[d] = MaxRetries
      BY <1>3 DEF Counted, Tally
    <2> QED BY <1>1, <1>2, <2>1, <2>2, OutboxMoves DEF OB!GiveUpOn
  <1>4. CASE d \notin failed'
    <2>1. Stage(d)' = "done"
      BY <1>2, <1>4 DEF Stage
    <2>2. kind[d] = "strict" /\ d \notin aborted \cup mistaken => \A p \in 1..Payloads : sends[d][p] > 0
      BY <1>2, <1>4 DEF Inv, NothingLost, KeptUntilSent, OnDisk, AllSent
    <2> QED BY <1>1, <1>2, <2>1, <2>2, OutboxMoves DEF OB!Close
  <1> QED BY <1>3, <1>4

LEMMA OutboxLive ==
  ASSUME Inv, NEW d \in Deliveries,
         Deliver(d) \/ enqueueDelivery(d) \/ EnqueueFails(d) \/ Abort(d) \/ TakenForAbort(d)
  PROVE  OB!OutboxNext \/ UNCHANGED OB!outboxVars
  <1>1. CASE Deliver(d) \/ EnqueueFails(d)
    BY <1>1, OutboxUnseen DEF Deliver, EnqueueFails, history
  <1>2. CASE enqueueDelivery(d)
    <2>1. ~Written(d)
      BY <1>2 DEF enqueueDelivery, Inv, Waiting
    <2>2. /\ \A e : Written(e)' <=> Written(e) \/ e = d
          /\ Pending' = Pending \cup {d} /\ failed' = failed
      BY <1>2, AppendWritten DEF enqueueDelivery, Inv, HistoryOK, Written, With, Pending
    <2>3. Stage(d) = "new" /\ Stage(d)' = "pending"
      BY <2>1, <2>2 DEF Stage, Inv, DiskOK, Written
    <2>4. \A e \in Deliveries \ {d} : Stage(e)' = Stage(e)
      BY <2>2 DEF Stage
    <2>5. OB!Accept(d)
      BY <1>2, <2>3, <2>4, OutboxMoves DEF OB!Accept, enqueueDelivery
    <2> QED BY <2>5 DEF OB!OutboxNext
  <1>3. CASE Abort(d)
    <2>1. /\ aborted' = aborted \cup {d}
          /\ UNCHANGED <<kind, queue, failed, written, sends, errors, mistaken, disturbed>>
      BY <1>3 DEF Abort
    <2>2. OB!Withdraw(d)
      BY <2>1 DEF OB!Withdraw, Stage, Pending, Written, ToSet
    <2> QED BY <2>2 DEF OB!OutboxNext
  <1>4. CASE TakenForAbort(d)
    <2>1. /\ mistaken' = mistaken \cup {d}
          /\ UNCHANGED <<kind, queue, failed, written, sends, errors, aborted, disturbed>>
      BY <1>4 DEF TakenForAbort
    <2>2. OB!Misjudge(d)
      BY <2>1 DEF OB!Misjudge, Stage, Pending, Written, ToSet
    <2> QED BY <2>2 DEF OB!OutboxNext
  <1> QED BY <1>1, <1>2, <1>3, <1>4

(* A failed attempt, seen by the outbox.                                   *)
LEMMA OutboxMisses ==
  ASSUME Inv, NEW d \in Deliveries, errors' = Failing(d),
         disturbed' \in {disturbed, disturbed \cup {d}},
         UNCHANGED <<kind, queue, failed, written, sends, aborted, mistaken>>
  PROVE  OB!OutboxNext
  <1>1. errors \in [Deliveries -> 0..MaxRetries] /\ MaxRetries \in Nat \ {0}
    BY DeliveryAssumption DEF Inv, HistoryOK
  <1>2. errors' = [errors EXCEPT ![d] = IF @ < MaxRetries THEN @ + 1 ELSE MaxRetries]
    <2>1. errors[d] \in Nat
      BY <1>1
    <2>2. Smaller(errors[d] + 1, MaxRetries)
              = IF errors[d] < MaxRetries THEN errors[d] + 1 ELSE MaxRetries
      BY <1>1, <2>1 DEF Smaller
    <2> QED BY <2>2 DEF Failing
  <1>3. OB!Miss(d)
    BY <1>2 DEF OB!Miss, Stage, Pending, Written, ToSet
  <1> QED BY <1>3 DEF OB!OutboxNext

LEMMA OutboxSends ==
  ASSUME Inv, Counted, Counted', NEW a \in Actors, NEW t \in SendTimes, PayloadSent(a, t)
  PROVE  OB!OutboxNext
  <1>1. PICK d \in Deliveries : d = attempt[a].id
    BY HereKnown DEF PayloadSent
  <1>2. PICK p \in 1..Payloads : p = attempt[a].next
    BY CallKnown DEF PayloadSent, Attempt
  <1>3. /\ sends' = [sends EXCEPT ![d][p] = Smaller(@ + 1, 2)]
        /\ UNCHANGED <<kind, queue, failed, written, errors, aborted, mistaken, disturbed>>
    BY <1>1, <1>2 DEF PayloadSent
  <1>4. sends \in [Deliveries -> [1..Payloads -> 0..2]] /\ errors[d] \in Nat
    BY DEF Inv, HistoryOK
  <1>5. /\ sends' = [sends EXCEPT ![d][p] = IF @ < 2 THEN @ + 1 ELSE 2]
        /\ sends'[d][p] = IF sends[d][p] < 2 THEN sends[d][p] + 1 ELSE 2
    <2>1. sends[d] \in [1..Payloads -> 0..2] /\ sends[d][p] \in 0..2
      BY <1>4
    <2>2. Smaller(sends[d][p] + 1, 2) = IF sends[d][p] < 2 THEN sends[d][p] + 1 ELSE 2
      BY <2>1 DEF Smaller
    <2> QED BY <1>3, <1>4, <2>1, <2>2
  <1>6. sends[d][p] > 0 => errors[d] > 0 \/ d \in disturbed
    <2> SUFFICES ASSUME sends[d][p] > 0, errors[d] = 0, d \notin disturbed PROVE FALSE
      BY <1>4
    <2>1. sends'[d][p] = 2
      <3>1. sends[d][p] \in 0..2
        BY <1>4
      <3> QED BY <1>5, <3>1
    <2>2. sends'[d][p] < 2
      BY <1>3 DEF Counted, Undisturbed
    <2> QED BY <2>1, <2>2
  <1>7. OB!Send(d, p)
    <2>1. \A e \in Deliveries : Stage(e)' = Stage(e)
      BY <1>3 DEF Stage, Pending, Written, ToSet
    <2> QED BY <1>3, <1>5, <1>6, <2>1 DEF OB!Send
  <1> QED BY <1>7 DEF OB!OutboxNext

LEMMA OutboxCall ==
  ASSUME Inv, Counted, Held, Inv', Counted', NEW a \in Actors,
         DeliveryStep(a) \/ DeliveryFaults(a)
  PROVE  OB!OutboxNext \/ UNCHANGED OB!outboxVars
  <1>0. attempt[a].pc # "off"
    BY DEF DeliveryStep, DeliveryFaults, PayloadSent, PayloadFails, CoreThrows, CoreReturns,
           Ack, FailReads, FailWrites, AckFails, FailDeliveryFails
  <1>1. PICK d \in Deliveries :
            /\ d = attempt[a].id
            /\ attempt[a].pc \in {"ack", "read", "rewrite"} => Written(d)
    BY <1>0, CallKnown DEF Fine
  <1>2. ASSUME NEW t \in SendTimes, PayloadFails(a, t) PROVE OB!OutboxNext
    BY <1>1, <1>2, OutboxMisses DEF PayloadFails
  <1>3. CASE CoreThrows(a)
    BY <1>1, <1>3, OutboxMisses DEF CoreThrows
  <1>4. CASE CoreReturns(a) \/ FailReads(a)
    BY <1>4, OutboxUnseen DEF CoreReturns, FailReads, history
  <1>5. CASE Ack(a)
    <2>1. /\ Pending' = Pending \ {d} /\ Written(d)
          /\ UNCHANGED <<kind, failed, written, sends, errors, aborted, mistaken, disturbed>>
      BY <1>1, <1>5 DEF Ack, ackDelivery, Without, Pending, history
    <2>2. CASE d \in Pending
      BY <1>1, <2>1, <2>2, OutboxLeaves DEF OB!OutboxNext
    <2>3. CASE d \notin Pending
      <3>1. \A e \in Deliveries : Stage(e)' = Stage(e)
        BY <2>1, <2>3 DEF Stage, Written, ToSet
      <3> QED BY <2>1, <3>1 DEF OB!outboxVars
    <2> QED BY <2>2, <2>3
  <1>6. CASE FailWrites(a)
    <2>1. /\ Pending' = Pending \cup {d} /\ Written(d) /\ attempt[a].pc = "rewrite"
          /\ UNCHANGED <<kind, failed, written, sends, errors, aborted, mistaken, disturbed>>
      BY <1>1, <1>6 DEF FailWrites, RewriteEntry, With, Pending, history
    <2>2. \A e \in Deliveries \ {d} : Stage(e)' = Stage(e)
      BY <2>1 DEF Stage, Written, ToSet
    <2>3. Stage(d)' = "pending"
      BY <2>1 DEF Stage
    <2>4. CASE d \in Pending
      <3>1. \A e \in Deliveries : Stage(e)' = Stage(e)
        BY <2>2, <2>3, <2>4 DEF Stage
      <3> QED BY <2>1, <3>1 DEF OB!outboxVars
    <2>5. CASE d \notin Pending
      <3>1. d \in disturbed /\ Stage(d) \in {"done", "failed"}
        BY <1>1, <2>1, <2>5 DEF Held, Stage
      <3>2. OB!Return(d)
        BY <1>1, <2>1, <2>2, <2>3, <3>1, OutboxMoves DEF OB!Return
      <3> QED BY <1>1, <3>2 DEF OB!OutboxNext
    <2> QED BY <2>4, <2>5
  <1>7. CASE AckFails(a)
    <2>1. CASE Live(a)
      <3>1. OB!Muddle
        BY <1>1, <1>7, <2>1, OutboxMuddled DEF AckFails
      <3> QED BY <3>1 DEF OB!OutboxNext
    <2>2. CASE ~Live(a)
      BY <1>1, <1>7, <2>2, OutboxMisses DEF AckFails
    <2> QED BY <2>1, <2>2
  <1>8. CASE FailDeliveryFails(a)
    <2>1. OB!Muddle
      BY <1>1, <1>8, OutboxMuddled DEF FailDeliveryFails
    <2> QED BY <2>1 DEF OB!OutboxNext
  <1> QED BY <1>2, <1>3, <1>4, <1>5, <1>6, <1>7, <1>8, OutboxSends
          DEF DeliveryStep, DeliveryFaults

LEMMA OutboxRecovery ==
  ASSUME Inv, Counted, Inv', Counted', NEW r \in Recoveries, RecoveryStep(r) \/ GiveUpFails(r)
  PROVE  OB!OutboxNext \/ UNCHANGED OB!outboxVars
  <1>1. CASE Load(r)
    <2>1. Pending \cap InHand \in SUBSET Deliveries
      BY DEF Inv, DiskOK, HistoryOK
    <2>2. OB!Muddle
      BY <1>1, <2>1, OutboxMuddled DEF Load
    <2> QED BY <2>2 DEF OB!OutboxNext
  <1>2. CASE RecoveryEnds(r) \/ Retry(r) \/ GiveUpFails(r)
    BY <1>2, OutboxUnseen DEF RecoveryEnds, Retry, GiveUpFails, history
  <1>3. CASE GiveUp(r)
    <2>0. PICK d \in Deliveries : d = HeadOf(r).id /\ Written(d)
      BY <1>3, HeadKnown DEF GiveUp, Entry
    <2>1. /\ recovery[r].todo # <<>> /\ Pending' = Pending \ {d}
          /\ failed' = IF d \in Pending THEN failed \cup {d} ELSE failed
          /\ UNCHANGED <<kind, written, sends, errors, aborted, mistaken, disturbed>>
      BY <1>3, <2>0 DEF GiveUp, moveToFailed, Without, Pending, history
    <2>3. CASE d \in Pending
      BY <2>0, <2>1, <2>3, OutboxLeaves DEF OB!OutboxNext
    <2>4. CASE d \notin Pending
      <3>1. \A e \in Deliveries : Stage(e)' = Stage(e)
        BY <2>1, <2>4 DEF Stage, Written, ToSet
      <3> QED BY <2>1, <3>1 DEF OB!outboxVars
    <2> QED BY <2>3, <2>4
  <1> QED BY <1>1, <1>2, <1>3 DEF RecoveryStep

LEMMA OutboxStep ==
  ASSUME Inv, Counted, Held, Inv', Counted', [Next]_vars
  PROVE  [OB!OutboxNext]_(OB!outboxVars)
  <1>1. CASE Start \/ RestartInProcess \/ Stop \/ UNCHANGED vars
    BY <1>1, OutboxUnseen DEF Start, RestartInProcess, StartRecovery, Stop, vars, history
  <1>2. CASE Crash
    <2> DEFINE ds == {attempt[a].id : a \in {b \in Actors : attempt[b].pc # "off"}}
    <2>1. ds \in SUBSET Deliveries
      BY CallKnown
    <2>2. OB!Muddle
      BY <1>2, <2>1, OutboxMuddled DEF Crash
    <2> QED BY <2>2 DEF OB!OutboxNext
  <1> QED BY <1>1, <1>2, OutboxLive, OutboxCall, OutboxRecovery DEF Next

LEMMA OutboxStart == Init => OB!OutboxInit /\ Held
  <1> SUFFICES ASSUME Init PROVE OB!OutboxInit /\ Held
    OBVIOUS
  <1>1. Pending = {} /\ failed = {} /\ \A d \in Deliveries : ~Written(d)
    BY DEF Init, Pending, Written, ToSet
  <1>2. \A d \in Deliveries : Stage(d) = "new"
    BY <1>1 DEF Stage
  <1>3. Held
    BY DEF Init, Held, Off
  <1> QED BY <1>2, <1>3 DEF Init, OB!OutboxInit

(* Whatever overlaps, fails or is cut short, the queue takes the steps of  *)
(* an outbox: an entry is done only when it was sent, given up only when   *)
(* it was tried often enough, and comes back only after a fault or an      *)
(* overlap (deliver.ts 226-283, delivery-queue.ts 111-182).                *)
THEOREM SpecImplementsOutbox == Spec => ImplementsOutbox
  <1>1. Inv /\ Counted /\ Held /\ (Inv /\ Counted)' /\ [Next]_vars => [OB!OutboxNext]_(OB!outboxVars)
    BY OutboxStep
  <1>2. Inv /\ Counted /\ Held /\ [Next]_vars => Held'
    BY NextHeld
  <1> QED BY <1>1, <1>2, OutboxStart, SpecCounted, PTL DEF Spec, ImplementsOutbox, OB!OutboxSpec

=============================================================================
