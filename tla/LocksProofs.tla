---------------------------- MODULE LocksProofs -----------------------------
(* Theorems about the two locks that processes compete for: the write lock *)
(* of a session file and the leader key of a cluster.                      *)
EXTENDS FileLock, ClusterLeader, FiniteSetTheorems, TLAPS

-----------------------------------------------------------------------------
(* The session file: the books of its lock are exact, and it has one       *)
(* writer until a lock is found stale or taken back, for any number of     *)
(* processes and callers.                                                  *)

Owner(c) == pc[c] \in {"opened", "holds", "closing"}
Sharers(p) == {c \in CallersOf(p) : Holds(c) /\ lock[c] = held[p].lock}

(* A lock belongs to one process, whoever refers to it.                    *)
OneProcess ==
    /\ \A c \in Callers : Owner(c) <=> lock[c] # None
    /\ \A c \in Callers :
          (Owner(c) /\ file # None /\ file.lock = lock[c]) => file.by = ProcOf[c]
    /\ \A p \in Procs :
          (held[p] # None /\ file # None /\ file.lock = held[p].lock) => file.by = p
    /\ \A c \in Callers, p \in Procs :
          (Owner(c) /\ held[p] # None /\ held[p].lock = lock[c]) => ProcOf[c] = p
    /\ \A c, d \in Callers :
          (Owner(c) /\ Owner(d) /\ lock[c] = lock[d]) => ProcOf[c] = ProcOf[d]

(* A lock that is being created or closed is nobody else's.                *)
Alone ==
    \A c \in Callers : pc[c] \in {"opened", "closing"} =>
        /\ \A d \in Callers : d # c => lock[d] # lock[c]
        /\ \A p \in Procs : held[p] # None => held[p].lock # lock[c]

(* Until a lock is suspected, the file is that of whoever has a lock.      *)
Trusted ==
    ~suspected =>
        /\ \A c \in Callers : pc[c] # "stale"
        /\ \A p \in Procs : forced[p] = None
        /\ \A c \in Callers : Owner(c) => file # None /\ file.lock = lock[c]
        /\ \A c \in Callers :
              Holds(c) => held[ProcOf[c]] # None /\ held[ProcOf[c]].lock = lock[c]

LockInv == LockTypeOK /\ OneProcess /\ Alone /\ CountIsHolders /\ NoOrphan /\ Trusted

-----------------------------------------------------------------------------
(* A count of at least one is somebody who holds the lock.                 *)
LEMMA Shared ==
  ASSUME LockInv, NEW p \in Procs, held[p] # None
  PROVE  \E c \in Callers : ProcOf[c] = p /\ Holds(c) /\ lock[c] = held[p].lock
  <1>1. Cardinality(Sharers(p)) # 0
    BY DEF LockInv, LockTypeOK, CountIsHolders, Sharers
  <1>2. Sharers(p) # {}
    BY <1>1, FS_EmptySet
  <1> QED BY <1>2 DEF Sharers, CallersOf

LEMMA FinitelyManySharers == ASSUME NEW p \in Procs PROVE IsFiniteSet(Sharers(p))
  BY CallerAssumption, FS_Subset DEF Sharers, CallersOf

(* What leaves a lock and those who share it alone keeps its count.        *)
LEMMA CountKept ==
  ASSUME LockInv, NEW q \in Procs, held[q] # None, held'[q] = held[q],
         \A c \in CallersOf(q) : /\ Holds(c)' <=> Holds(c)
                                 /\ Holds(c) => lock'[c] = lock[c]
  PROVE  held'[q].count = Cardinality(Sharers(q)')
  <1>1. Sharers(q)' = Sharers(q)
    BY DEF Sharers, CallersOf
  <1> QED BY <1>1 DEF LockInv, CountIsHolders, Sharers

LEMMA CountsHold ==
  ASSUME \A q \in Procs : held'[q] # None => held'[q].count = Cardinality(Sharers(q)')
  PROVE  CountIsHolders'
  BY DEF CountIsHolders, Sharers

LEMMA BeginInv == ASSUME LockInv, NEW c \in Callers, Begin(c) PROVE LockInv'
  <1> USE CallerAssumption, LockAssumption, NoneAssumption
  <1>1. LockTypeOK'
    BY DEF LockInv, Begin, LockTypeOK, Holds, Runs, File
  <1>2. OneProcess'
    BY DEF LockInv, Begin, LockTypeOK, OneProcess, Alone, CountIsHolders, NoOrphan,
       Trusted, Owner, Holds, Runs, CallersOf, File
  <1>3. Alone'
    BY DEF LockInv, Begin, LockTypeOK, OneProcess, Alone, CountIsHolders, NoOrphan,
       Trusted, Owner, Holds, Runs, CallersOf, File
  <1>4. CountIsHolders'
    BY DEF LockInv, Begin, LockTypeOK, OneProcess, Alone, CountIsHolders, NoOrphan,
       Trusted, Owner, Holds, Runs, CallersOf, File
  <1>5. NoOrphan'
    BY DEF LockInv, Begin, LockTypeOK, OneProcess, Alone, CountIsHolders, NoOrphan,
       Trusted, Owner, Holds, Runs, CallersOf, File
  <1>6. Trusted'
    BY DEF LockInv, Begin, LockTypeOK, OneProcess, Alone, CountIsHolders, NoOrphan,
       Trusted, Owner, Holds, Runs, CallersOf, File
  <1> QED BY <1>1, <1>2, <1>3, <1>4, <1>5, <1>6 DEF LockInv

LEMMA ReenterInv == ASSUME LockInv, NEW c \in Callers, Reenter(c) PROVE LockInv'
  <1> USE CallerAssumption, LockAssumption, NoneAssumption
  <1>1. LockTypeOK'
    BY DEF LockInv, Reenter, LockTypeOK, Holds, Runs, File
  <1>a. PICK h \in Callers : /\ ProcOf[h] = ProcOf[c] /\ Holds(h)
                              /\ lock[h] = held[ProcOf[c]].lock
    BY Shared DEF Reenter
  <1>d. held[ProcOf[c]] \in [lock : Locks, count : Nat \ {0}]
    BY DEF Reenter, LockInv, LockTypeOK
  <1>e. /\ held'[ProcOf[c]] = [lock |-> held[ProcOf[c]].lock, count |-> held[ProcOf[c]].count + 1]
        /\ held'[ProcOf[c]] \in [lock : Locks, count : Nat]
    <2>1. held'[ProcOf[c]] = [held[ProcOf[c]] EXCEPT !.count = held[ProcOf[c]].count + 1]
      BY DEF Reenter, LockInv, LockTypeOK
    <2> QED BY <2>1, <1>d
  <1>b. /\ held'[ProcOf[c]] # None /\ held'[ProcOf[c]].lock = held[ProcOf[c]].lock
        /\ held'[ProcOf[c]].count = held[ProcOf[c]].count + 1
        /\ \A q \in Procs : q # ProcOf[c] => held'[q] = held[q]
    BY <1>d, <1>e DEF Reenter, LockInv, LockTypeOK
  <1>c. /\ pc'[c] = "holds" /\ lock'[c] = lock[h] /\ lock'[c] # None /\ UNCHANGED file
        /\ \A d \in Callers : d # c => pc'[d] = pc[d] /\ lock'[d] = lock[d]
    BY <1>a DEF Reenter, LockInv, LockTypeOK
  <1>2. OneProcess'
    BY <1>a, <1>b, <1>c DEF LockInv, OneProcess, Owner, Holds
  <1>3. Alone'
    BY DEF LockInv, Reenter, LockTypeOK, OneProcess, Alone, CountIsHolders, NoOrphan,
       Trusted, Owner, Holds, Runs, CallersOf, File
  <1>4. CountIsHolders'
    <2> SUFFICES ASSUME NEW q \in Procs, held'[q] # None
                 PROVE  held'[q].count = Cardinality(Sharers(q)')
      BY CountsHold
    <2>1. CASE q # ProcOf[c]
      BY <2>1, <1>b, <1>c, CountKept DEF CallersOf, Holds
    <2>2. CASE q = ProcOf[c]
      <3>1. Sharers(q)' = Sharers(q) \cup {c} /\ c \notin Sharers(q)
        BY <2>2, <1>a, <1>b, <1>c DEF Sharers, CallersOf, Holds, Reenter
      <3>2. held[q].count = Cardinality(Sharers(q))
        BY <2>2 DEF Reenter, LockInv, CountIsHolders, Sharers
      <3> QED BY <3>1, <3>2, <2>2, <1>b, FinitelyManySharers, FS_AddElement
    <2> QED BY <2>1, <2>2
  <1>5. NoOrphan'
    BY DEF LockInv, Reenter, LockTypeOK, OneProcess, Alone, CountIsHolders, NoOrphan,
       Trusted, Owner, Holds, Runs, CallersOf, File
  <1>6. Trusted'
    BY <1>a, <1>b, <1>c DEF Reenter, LockInv, Trusted, Owner, Holds
  <1> QED BY <1>1, <1>2, <1>3, <1>4, <1>5, <1>6 DEF LockInv

LEMMA OpenInv == ASSUME LockInv, NEW c \in Callers, Open(c) PROVE LockInv'
  <1> USE CallerAssumption, LockAssumption, NoneAssumption
  <1>1. LockTypeOK'
    <2>1. CASE file = None
      <3>1. PICK t \in Locks : /\ file' = [lock |-> t, by |-> ProcOf[c], written |-> FALSE]
                              /\ lock' = [lock EXCEPT ![c] = t]
        BY <2>1 DEF Open
      <3>2. file' \in File
        BY <3>1 DEF File
      <3> QED BY <2>1, <3>1, <3>2 DEF Open, LockInv, LockTypeOK
    <2>2. CASE file # None
      BY <2>2 DEF Open, LockInv, LockTypeOK, Holds, Runs, File
    <2> QED BY <2>1, <2>2
  <1>2. OneProcess'
    BY DEF LockInv, Open, Fresh, Unused, LockTypeOK, OneProcess, Alone, CountIsHolders,
       NoOrphan, Trusted, Owner, Holds, Runs, CallersOf, File
  <1>3. Alone'
    BY DEF LockInv, Open, Fresh, Unused, LockTypeOK, OneProcess, Alone, CountIsHolders,
       NoOrphan, Trusted, Owner, Holds, Runs, CallersOf, File
  <1>4. CountIsHolders'
    BY DEF LockInv, Open, Fresh, Unused, LockTypeOK, OneProcess, Alone, CountIsHolders,
       NoOrphan, Trusted, Owner, Holds, Runs, CallersOf, File
  <1>5. NoOrphan'
    BY DEF LockInv, Open, Fresh, Unused, LockTypeOK, OneProcess, Alone, CountIsHolders,
       NoOrphan, Trusted, Owner, Holds, Runs, CallersOf, File
  <1>6. Trusted'
    <2>1. CASE file = None
      <3>1. /\ file' # None /\ file'.lock = lock'[c] /\ pc'[c] = "opened"
            /\ \A d \in Callers : d # c => pc'[d] = pc[d] /\ lock'[d] = lock[d]
            /\ UNCHANGED <<held, forced, suspected>>
        <4>1. PICK t \in Locks : /\ file' = [lock |-> t, by |-> ProcOf[c], written |-> FALSE]
                                /\ lock' = [lock EXCEPT ![c] = t]
          BY <2>1 DEF Open
        <4>2. file' \in [lock : Locks, by : Procs, written : BOOLEAN]
          BY <4>1
        <4> QED BY <2>1, <4>1, <4>2 DEF Open, LockInv, LockTypeOK
      <3> QED BY <3>1, <2>1 DEF LockInv, Trusted, Owner, Holds
    <2>2. CASE file # None
      BY <2>2 DEF Open, LockInv, LockTypeOK, Trusted, Owner, Holds
    <2> QED BY <2>1, <2>2
  <1> QED BY <1>1, <1>2, <1>3, <1>4, <1>5, <1>6 DEF LockInv

LEMMA WriteInv == ASSUME LockInv, NEW c \in Callers, Write(c) PROVE LockInv'
  <1> USE CallerAssumption, LockAssumption, NoneAssumption
  <1>c. lock[c] \in Locks /\ held'[ProcOf[c]] = [lock |-> lock[c], count |-> 1]
    BY DEF Write, LockInv, LockTypeOK, OneProcess, Owner
  <1>d. held'[ProcOf[c]] \in [lock : Locks, count : Nat]
    BY <1>c
  <1>a. /\ held'[ProcOf[c]] # None
        /\ \A q \in Procs : q # ProcOf[c] => held'[q] = held[q]
        /\ pc'[c] = "holds" /\ UNCHANGED <<lock, suspected, forced>>
        /\ \A d \in Callers : d # c => pc'[d] = pc[d]
    BY <1>d DEF Write, LockInv, LockTypeOK
  <1>b. /\ file' \in File \cup {None} /\ (file' = None <=> file = None)
        /\ file # None => file'.lock = file.lock
    <2>1. CASE file # None /\ file.lock = lock[c]
      BY <2>1 DEF Write, LockInv, LockTypeOK, File
    <2>2. CASE ~(file # None /\ file.lock = lock[c])
      BY <2>2 DEF Write, LockInv, LockTypeOK
    <2> QED BY <2>1, <2>2
  <1>1. LockTypeOK'
    <2>1. held'[ProcOf[c]] \in [lock : Locks, count : Nat \ {0}]
      BY <1>c
    <2> QED BY <1>a, <1>b, <2>1 DEF Write, LockInv, LockTypeOK
  <1>2. OneProcess'
    BY DEF LockInv, Write, LockTypeOK, OneProcess, Alone, CountIsHolders, NoOrphan,
       Trusted, Owner, Holds, Runs, CallersOf, File
  <1>3. Alone'
    BY DEF LockInv, Write, LockTypeOK, OneProcess, Alone, CountIsHolders, NoOrphan,
       Trusted, Owner, Holds, Runs, CallersOf, File
  <1>4. CountIsHolders'
    <2> SUFFICES ASSUME NEW q \in Procs, held'[q] # None
                 PROVE  held'[q].count = Cardinality(Sharers(q)')
      BY CountsHold
    <2>1. CASE q # ProcOf[c]
      BY <2>1, <1>a, CountKept DEF CallersOf, Holds
    <2>2. CASE q = ProcOf[c]
      <3>1. Sharers(q)' = {c}
        BY <2>2, <1>a, <1>c DEF Sharers, CallersOf, Holds, LockInv, Alone, Write
      <3>2. Cardinality({c}) = 1
        BY FS_Singleton
      <3> QED BY <3>1, <3>2, <2>2, <1>c
    <2> QED BY <2>1, <2>2
  <1>5. NoOrphan'
    BY DEF LockInv, Write, LockTypeOK, OneProcess, Alone, CountIsHolders, NoOrphan,
       Trusted, Owner, Holds, Runs, CallersOf, File
  <1>6. Trusted'
    BY <1>a, <1>b, <1>c DEF Write, LockInv, Trusted, Alone, Owner, Holds
  <1> QED BY <1>1, <1>2, <1>3, <1>4, <1>5, <1>6 DEF LockInv

LEMMA WriteFailsInv == ASSUME LockInv, NEW c \in Callers, WriteFails(c) PROVE LockInv'
  <1> USE CallerAssumption, LockAssumption, NoneAssumption
  <1>1. LockTypeOK'
    BY DEF LockInv, WriteFails, LockTypeOK, Holds, Runs, File
  <1>2. OneProcess'
    BY DEF LockInv, WriteFails, LockTypeOK, OneProcess, Alone, CountIsHolders, NoOrphan,
       Trusted, Owner, Holds, Runs, CallersOf, File
  <1>3. Alone'
    BY DEF LockInv, WriteFails, LockTypeOK, OneProcess, Alone, CountIsHolders, NoOrphan,
       Trusted, Owner, Holds, Runs, CallersOf, File
  <1>4. CountIsHolders'
    BY DEF LockInv, WriteFails, LockTypeOK, OneProcess, Alone, CountIsHolders, NoOrphan,
       Trusted, Owner, Holds, Runs, CallersOf, File
  <1>5. NoOrphan'
    BY DEF LockInv, WriteFails, LockTypeOK, OneProcess, Alone, CountIsHolders, NoOrphan,
       Trusted, Owner, Holds, Runs, CallersOf, File
  <1>6. Trusted'
    BY DEF LockInv, WriteFails, LockTypeOK, OneProcess, Alone, CountIsHolders, NoOrphan,
       Trusted, Owner, Holds, Runs, CallersOf, File
  <1> QED BY <1>1, <1>2, <1>3, <1>4, <1>5, <1>6 DEF LockInv

LEMMA InspectInv == ASSUME LockInv, NEW c \in Callers, Inspect(c) PROVE LockInv'
  <1> USE CallerAssumption, LockAssumption, NoneAssumption
  <1>1. LockTypeOK'
    BY DEF LockInv, Inspect, Stale, LockTypeOK, Holds, Runs, File
  <1>2. OneProcess'
    BY DEF LockInv, Inspect, Stale, LockTypeOK, OneProcess, Alone, CountIsHolders,
       NoOrphan, Trusted, Owner, Holds, Runs, CallersOf, File
  <1>3. Alone'
    BY DEF LockInv, Inspect, Stale, LockTypeOK, OneProcess, Alone, CountIsHolders,
       NoOrphan, Trusted, Owner, Holds, Runs, CallersOf, File
  <1>4. CountIsHolders'
    BY DEF LockInv, Inspect, Stale, LockTypeOK, OneProcess, Alone, CountIsHolders,
       NoOrphan, Trusted, Owner, Holds, Runs, CallersOf, File
  <1>5. NoOrphan'
    BY DEF LockInv, Inspect, Stale, LockTypeOK, OneProcess, Alone, CountIsHolders,
       NoOrphan, Trusted, Owner, Holds, Runs, CallersOf, File
  <1>6. Trusted'
    <2>1. CASE Stale
      BY <2>1 DEF Inspect, LockInv, LockTypeOK, Trusted
    <2>2. CASE ~Stale
      BY <2>2 DEF Inspect, LockInv, LockTypeOK, Trusted, Owner, Holds
    <2> QED BY <2>1, <2>2
  <1> QED BY <1>1, <1>2, <1>3, <1>4, <1>5, <1>6 DEF LockInv

LEMMA RemoveStaleInv == ASSUME LockInv, NEW c \in Callers, RemoveStale(c) PROVE LockInv'
  <1> USE CallerAssumption, LockAssumption, NoneAssumption
  <1>1. LockTypeOK'
    BY DEF LockInv, RemoveStale, PathFreed, LockTypeOK, Holds, Runs, File
  <1>2. OneProcess'
    BY DEF LockInv, RemoveStale, PathFreed, LockTypeOK, OneProcess, Alone, CountIsHolders,
       NoOrphan, Trusted, Owner, Holds, Runs, CallersOf, File
  <1>3. Alone'
    BY DEF LockInv, RemoveStale, PathFreed, LockTypeOK, OneProcess, Alone, CountIsHolders,
       NoOrphan, Trusted, Owner, Holds, Runs, CallersOf, File
  <1>4. CountIsHolders'
    BY DEF LockInv, RemoveStale, PathFreed, LockTypeOK, OneProcess, Alone, CountIsHolders,
       NoOrphan, Trusted, Owner, Holds, Runs, CallersOf, File
  <1>5. NoOrphan'
    BY DEF LockInv, RemoveStale, PathFreed, LockTypeOK, OneProcess, Alone, CountIsHolders,
       NoOrphan, Trusted, Owner, Holds, Runs, CallersOf, File
  <1>6. Trusted'
    BY DEF LockInv, RemoveStale, PathFreed, LockTypeOK, OneProcess, Alone, CountIsHolders,
       NoOrphan, Trusted, Owner, Holds, Runs, CallersOf, File
  <1> QED BY <1>1, <1>2, <1>3, <1>4, <1>5, <1>6 DEF LockInv

LEMMA RemoveStaleFailsInv ==
  ASSUME LockInv, NEW c \in Callers, RemoveStaleFails(c)
  PROVE  LockInv'
  <1> USE CallerAssumption, LockAssumption, NoneAssumption
  <1>1. LockTypeOK'
    BY DEF LockInv, RemoveStaleFails, LockTypeOK, Holds, Runs, File
  <1>2. OneProcess'
    BY DEF LockInv, RemoveStaleFails, LockTypeOK, OneProcess, Alone, CountIsHolders,
       NoOrphan, Trusted, Owner, Holds, Runs, CallersOf, File
  <1>3. Alone'
    BY DEF LockInv, RemoveStaleFails, LockTypeOK, OneProcess, Alone, CountIsHolders,
       NoOrphan, Trusted, Owner, Holds, Runs, CallersOf, File
  <1>4. CountIsHolders'
    BY DEF LockInv, RemoveStaleFails, LockTypeOK, OneProcess, Alone, CountIsHolders,
       NoOrphan, Trusted, Owner, Holds, Runs, CallersOf, File
  <1>5. NoOrphan'
    BY DEF LockInv, RemoveStaleFails, LockTypeOK, OneProcess, Alone, CountIsHolders,
       NoOrphan, Trusted, Owner, Holds, Runs, CallersOf, File
  <1>6. Trusted'
    BY DEF LockInv, RemoveStaleFails, LockTypeOK, OneProcess, Alone, CountIsHolders,
       NoOrphan, Trusted, Owner, Holds, Runs, CallersOf, File
  <1> QED BY <1>1, <1>2, <1>3, <1>4, <1>5, <1>6 DEF LockInv

LEMMA GiveUpInv == ASSUME LockInv, NEW c \in Callers, GiveUp(c) PROVE LockInv'
  <1> USE CallerAssumption, LockAssumption, NoneAssumption
  <1>1. LockTypeOK'
    BY DEF LockInv, GiveUp, LockTypeOK, Holds, Runs, File
  <1>2. OneProcess'
    BY DEF LockInv, GiveUp, LockTypeOK, OneProcess, Alone, CountIsHolders, NoOrphan,
       Trusted, Owner, Holds, Runs, CallersOf, File
  <1>3. Alone'
    BY DEF LockInv, GiveUp, LockTypeOK, OneProcess, Alone, CountIsHolders, NoOrphan,
       Trusted, Owner, Holds, Runs, CallersOf, File
  <1>4. CountIsHolders'
    BY DEF LockInv, GiveUp, LockTypeOK, OneProcess, Alone, CountIsHolders, NoOrphan,
       Trusted, Owner, Holds, Runs, CallersOf, File
  <1>5. NoOrphan'
    BY DEF LockInv, GiveUp, LockTypeOK, OneProcess, Alone, CountIsHolders, NoOrphan,
       Trusted, Owner, Holds, Runs, CallersOf, File
  <1>6. Trusted'
    BY DEF LockInv, GiveUp, LockTypeOK, OneProcess, Alone, CountIsHolders, NoOrphan,
       Trusted, Owner, Holds, Runs, CallersOf, File
  <1> QED BY <1>1, <1>2, <1>3, <1>4, <1>5, <1>6 DEF LockInv

LEMMA ReleaseInv == ASSUME LockInv, NEW c \in Callers, Release(c) PROVE LockInv'
  <1> USE CallerAssumption, LockAssumption, NoneAssumption
  <1>1. LockTypeOK'
    BY DEF LockInv, Release, LockTypeOK, Holds, Runs, File
  <1>2. OneProcess'
    BY DEF LockInv, Release, LockTypeOK, OneProcess, Alone, CountIsHolders, NoOrphan,
       Trusted, Owner, Holds, Runs, CallersOf, File
  <1> DEFINE p == ProcOf[c]
             mine == held[p] # None /\ held[p].lock = lock[c]
  <1>a. /\ p \in Procs /\ Holds(c) /\ lock[c] # None /\ UNCHANGED <<file, forced, suspected>>
        /\ \A d \in Callers : d # c => pc'[d] = pc[d] /\ lock'[d] = lock[d]
        /\ \A q \in Procs : q # p => held'[q] = held[q]
    BY DEF Release, LockInv, LockTypeOK, OneProcess, Owner, Holds
  <1>b. \/ /\ ~mine /\ held' = held /\ pc'[c] = "idle" /\ lock'[c] = None
        \/ /\ mine /\ held[p].count > 1 /\ pc'[c] = "idle" /\ lock'[c] = None
           /\ held'[p] = [lock |-> held[p].lock, count |-> held[p].count - 1]
        \/ /\ mine /\ held[p].count = 1 /\ pc'[c] = "closing" /\ lock'[c] = lock[c]
           /\ held'[p] = None
    BY DEF Release, LockInv, LockTypeOK, Holds
  <1>c. ASSUME mine, held[p].count = 1, NEW d \in Callers, d # c
        PROVE  lock[d] # lock[c]
    <2>1. Cardinality(Sharers(p)) = 1 /\ c \in Sharers(p)
      BY <1>a, <1>c DEF LockInv, CountIsHolders, Sharers, CallersOf
    <2>2. Sharers(p) = {c}
      BY <2>1, <1>a, FinitelyManySharers, FS_Singleton
    <2>3. d \notin Sharers(p)
      BY <2>2, <1>c
    <2> QED BY <2>3, <1>a, <1>c DEF Sharers, CallersOf, LockInv, OneProcess, Alone,
               Owner, Holds
  <1>3. Alone'
    BY <1>a, <1>b, <1>c DEF LockInv, OneProcess, Alone, Owner, Holds
  <1>4. CountIsHolders'
    <2> SUFFICES ASSUME NEW q \in Procs, held'[q] # None
                 PROVE  held'[q].count = Cardinality(Sharers(q)')
      BY CountsHold
    <2>1. CASE q # p
      BY <2>1, <1>a, CountKept DEF CallersOf, Holds
    <2>2. CASE q = p /\ ~mine
      <3>1. Sharers(q)' = Sharers(q) /\ held'[q] = held[q]
        BY <2>2, <1>a, <1>b DEF Sharers, CallersOf, Holds
      <3> QED BY <3>1 DEF LockInv, CountIsHolders, Sharers
    <2>3. CASE q = p /\ mine
      <3>1. Sharers(q)' = Sharers(q) \ {c} /\ c \in Sharers(q)
        BY <2>3, <1>a, <1>b DEF Sharers, CallersOf, Holds
      <3>2. held[q].count = Cardinality(Sharers(q)) /\ held'[q].count = held[q].count - 1
        BY <2>3, <1>b DEF LockInv, CountIsHolders, Sharers
      <3> QED BY <3>1, <3>2, FinitelyManySharers, FS_RemoveElement
    <2> QED BY <2>1, <2>2, <2>3
  <1>5. NoOrphan'
    BY DEF LockInv, Release, LockTypeOK, OneProcess, Alone, CountIsHolders, NoOrphan,
       Trusted, Owner, Holds, Runs, CallersOf, File
  <1>6. Trusted'
    <2> SUFFICES ASSUME ~suspected PROVE Trusted'
      BY <1>a DEF Trusted
    <2>1. mine
      BY <1>a DEF LockInv, Trusted
    <2>2. /\ \A d \in Callers : pc'[d] # "stale"
          /\ \A q \in Procs : forced'[q] = None
      BY <1>a, <1>b DEF LockInv, Trusted
    <2>3. \A d \in Callers : Owner(d)' => file' # None /\ file'.lock = lock'[d]
      BY <1>a, <1>b DEF LockInv, Trusted, Owner, Holds
    <2>4. ASSUME NEW d \in Callers, Holds(d)'
          PROVE  held'[ProcOf[d]] # None /\ held'[ProcOf[d]].lock = lock'[d]
      <3>1. d # c /\ Holds(d) /\ lock'[d] = lock[d] /\ lock[d] = lock[c] /\ ProcOf[d] = p
        BY <2>4, <1>a, <1>b DEF LockInv, OneProcess, Trusted, Owner, Holds
      <3>2. held[p].count # 1
        BY <2>1, <3>1, <1>c
      <3>3. /\ held'[p] = [lock |-> held[p].lock, count |-> held[p].count - 1]
            /\ held[p].count > 1
        BY <2>1, <3>2, <1>b
      <3>4. held'[p] \in [lock : Locks, count : Nat]
        BY <3>3, <2>1, <1>a DEF LockInv, LockTypeOK
      <3> QED BY <2>1, <3>1, <3>3, <3>4
    <2> QED BY <2>2, <2>3, <2>4 DEF Trusted
  <1> QED BY <1>1, <1>2, <1>3, <1>4, <1>5, <1>6 DEF LockInv

LEMMA UnlinkInv == ASSUME LockInv, NEW c \in Callers, Unlink(c) PROVE LockInv'
  <1> USE CallerAssumption, LockAssumption, NoneAssumption
  <1>1. LockTypeOK'
    BY DEF LockInv, Unlink, RemovePath, PathFreed, PathKept, LockTypeOK, Holds, Runs, File
  <1>2. OneProcess'
    BY DEF LockInv, Unlink, RemovePath, PathFreed, PathKept, LockTypeOK, OneProcess,
       Alone, CountIsHolders, NoOrphan,
       Trusted, Owner, Holds, Runs, CallersOf, File
  <1>3. Alone'
    BY DEF LockInv, Unlink, RemovePath, PathFreed, PathKept, LockTypeOK, OneProcess,
       Alone, CountIsHolders, NoOrphan,
       Trusted, Owner, Holds, Runs, CallersOf, File
  <1>4. CountIsHolders'
    BY DEF LockInv, Unlink, RemovePath, PathFreed, PathKept, LockTypeOK, OneProcess,
       Alone, CountIsHolders, NoOrphan,
       Trusted, Owner, Holds, Runs, CallersOf, File
  <1>5. NoOrphan'
    BY DEF LockInv, Unlink, RemovePath, PathFreed, PathKept, LockTypeOK, OneProcess,
       Alone, CountIsHolders, NoOrphan,
       Trusted, Owner, Holds, Runs, CallersOf, File
  <1>6. Trusted'
    BY DEF LockInv, Unlink, RemovePath, PathFreed, PathKept, LockTypeOK, OneProcess,
       Alone, CountIsHolders, NoOrphan,
       Trusted, Owner, Holds, Runs, CallersOf, File
  <1> QED BY <1>1, <1>2, <1>3, <1>4, <1>5, <1>6 DEF LockInv

LEMMA ForceReleaseInv == ASSUME LockInv, NEW p \in Procs, ForceRelease(p) PROVE LockInv'
  <1> USE CallerAssumption, LockAssumption, NoneAssumption
  <1>1. LockTypeOK'
    BY DEF LockInv, ForceRelease, LockTypeOK, Holds, Runs, File
  <1>2. OneProcess'
    BY DEF LockInv, ForceRelease, LockTypeOK, OneProcess, Alone, CountIsHolders,
       NoOrphan, Trusted, Owner, Holds, Runs, CallersOf, File
  <1>3. Alone'
    BY DEF LockInv, ForceRelease, LockTypeOK, OneProcess, Alone, CountIsHolders,
       NoOrphan, Trusted, Owner, Holds, Runs, CallersOf, File
  <1>4. CountIsHolders'
    BY DEF LockInv, ForceRelease, LockTypeOK, OneProcess, Alone, CountIsHolders,
       NoOrphan, Trusted, Owner, Holds, Runs, CallersOf, File
  <1>5. NoOrphan'
    <2>1. forced'[p] # None /\ \A q \in Procs : q # p => held'[q] = held[q] /\ forced'[q] = forced[q]
      BY DEF ForceRelease, LockInv, LockTypeOK
    <2> QED BY <2>1 DEF ForceRelease, LockInv, LockTypeOK, NoOrphan, CallersOf, File
  <1>6. Trusted'
    BY DEF LockInv, ForceRelease, LockTypeOK, OneProcess, Alone, CountIsHolders,
       NoOrphan, Trusted, Owner, Holds, Runs, CallersOf, File
  <1> QED BY <1>1, <1>2, <1>3, <1>4, <1>5, <1>6 DEF LockInv

LEMMA ForceUnlinkInv == ASSUME LockInv, NEW p \in Procs, ForceUnlink(p) PROVE LockInv'
  <1> USE CallerAssumption, LockAssumption, NoneAssumption
  <1>1. LockTypeOK'
    BY DEF LockInv, ForceUnlink, RemovePath, PathFreed, PathKept, LockTypeOK, Holds,
       Runs, File
  <1>2. OneProcess'
    BY DEF LockInv, ForceUnlink, RemovePath, PathFreed, PathKept, LockTypeOK,
       OneProcess, Alone, CountIsHolders,
       NoOrphan, Trusted, Owner, Holds, Runs, CallersOf, File
  <1>3. Alone'
    BY DEF LockInv, ForceUnlink, RemovePath, PathFreed, PathKept, LockTypeOK,
       OneProcess, Alone, CountIsHolders,
       NoOrphan, Trusted, Owner, Holds, Runs, CallersOf, File
  <1>4. CountIsHolders'
    BY DEF LockInv, ForceUnlink, RemovePath, PathFreed, PathKept, LockTypeOK,
       OneProcess, Alone, CountIsHolders,
       NoOrphan, Trusted, Owner, Holds, Runs, CallersOf, File
  <1>5. NoOrphan'
    BY DEF LockInv, ForceUnlink, RemovePath, PathFreed, PathKept, LockTypeOK,
       OneProcess, Alone, CountIsHolders,
       NoOrphan, Trusted, Owner, Holds, Runs, CallersOf, File
  <1>6. Trusted'
    BY DEF LockInv, ForceUnlink, RemovePath, PathFreed, PathKept, LockTypeOK,
       OneProcess, Alone, CountIsHolders,
       NoOrphan, Trusted, Owner, Holds, Runs, CallersOf, File
  <1> QED BY <1>1, <1>2, <1>3, <1>4, <1>5, <1>6 DEF LockInv

LEMMA CrashInv == ASSUME LockInv, NEW p \in Procs, Crash(p) PROVE LockInv'
  <1> USE CallerAssumption, LockAssumption, NoneAssumption
  <1>1. LockTypeOK'
    BY DEF LockInv, Crash, Gone, LockTypeOK, Holds, Runs, File
  <1>2. OneProcess'
    BY DEF LockInv, Crash, Gone, LockTypeOK, OneProcess, Alone, CountIsHolders,
       NoOrphan, Trusted, Owner, Holds, Runs, CallersOf, File
  <1>3. Alone'
    BY DEF LockInv, Crash, Gone, LockTypeOK, OneProcess, Alone, CountIsHolders,
       NoOrphan, Trusted, Owner, Holds, Runs, CallersOf, File
  <1>a. /\ held'[p] = None /\ \A q \in Procs : q # p => held'[q] = held[q]
        /\ \A c \in Callers : ProcOf[c] # p => pc'[c] = pc[c] /\ lock'[c] = lock[c]
        /\ \A c \in Callers : ProcOf[c] = p => pc'[c] = "idle" /\ lock'[c] = None
        /\ UNCHANGED suspected
    BY DEF Crash, Gone, LockInv, LockTypeOK
  <1>4. CountIsHolders'
    <2> SUFFICES ASSUME NEW q \in Procs, held'[q] # None
                 PROVE  held'[q].count = Cardinality(Sharers(q)')
      BY CountsHold
    <2> QED BY <1>a, CountKept DEF CallersOf, Holds
  <1>5. NoOrphan'
    BY DEF LockInv, Crash, Gone, LockTypeOK, OneProcess, Alone, CountIsHolders,
       NoOrphan, Trusted, Owner, Holds, Runs, CallersOf, File
  <1>6. Trusted'
    BY DEF LockInv, Crash, Gone, LockTypeOK, OneProcess, Alone, CountIsHolders,
       NoOrphan, Trusted, Owner, Holds, Runs, CallersOf, File
  <1> QED BY <1>1, <1>2, <1>3, <1>4, <1>5, <1>6 DEF LockInv

LEMMA TerminateInv == ASSUME LockInv, NEW p \in Procs, Terminate(p) PROVE LockInv'
  <1> USE CallerAssumption, LockAssumption, NoneAssumption
  <1>1. LockTypeOK'
    BY DEF LockInv, Terminate, Gone, Cleaned, RemovePath, PathFreed, PathKept,
       LockTypeOK, Holds, Runs, File
  <1>2. OneProcess'
    BY DEF LockInv, Terminate, Gone, Cleaned, RemovePath, PathFreed, PathKept,
       LockTypeOK, OneProcess, Alone,
       CountIsHolders, NoOrphan, Trusted, Owner, Holds, Runs, CallersOf, File
  <1>3. Alone'
    BY DEF LockInv, Terminate, Gone, Cleaned, RemovePath, PathFreed, PathKept,
       LockTypeOK, OneProcess, Alone,
       CountIsHolders, NoOrphan, Trusted, Owner, Holds, Runs, CallersOf, File
  <1>a. /\ held'[p] = None /\ \A q \in Procs : q # p => held'[q] = held[q]
        /\ \A c \in Callers : ProcOf[c] # p => pc'[c] = pc[c] /\ lock'[c] = lock[c]
        /\ \A c \in Callers : ProcOf[c] = p => pc'[c] = "idle" /\ lock'[c] = None
        /\ UNCHANGED suspected
    BY DEF Terminate, Gone, Cleaned, RemovePath, PathFreed, PathKept, LockInv, LockTypeOK
  <1>4. CountIsHolders'
    <2> SUFFICES ASSUME NEW q \in Procs, held'[q] # None
                 PROVE  held'[q].count = Cardinality(Sharers(q)')
      BY CountsHold
    <2> QED BY <1>a, CountKept DEF CallersOf, Holds
  <1>5. NoOrphan'
    BY DEF LockInv, Terminate, Gone, Cleaned, RemovePath, PathFreed, PathKept,
       LockTypeOK, OneProcess, Alone,
       CountIsHolders, NoOrphan, Trusted, Owner, Holds, Runs, CallersOf, File
  <1>6. Trusted'
    <2>1. ~suspected /\ held[p] # None => \A c \in Callers : Owner(c) => ProcOf[c] = p
      BY Shared DEF LockInv, OneProcess, Trusted, Owner, Holds
    <2>2. \A q \in Procs : forced[q] = None => forced'[q] = None
      BY DEF Terminate, Gone, LockInv, LockTypeOK
    <2> QED BY <2>1, <2>2, <1>a DEF Terminate, Cleaned, RemovePath, PathFreed, PathKept,
       LockInv, Trusted, Owner, Holds
  <1> QED BY <1>1, <1>2, <1>3, <1>4, <1>5, <1>6 DEF LockInv

LEMMA SignalInv == ASSUME LockInv, NEW p \in Procs, Signal(p) PROVE LockInv'
  <1> USE CallerAssumption, LockAssumption, NoneAssumption
  <1>1. LockTypeOK'
    BY DEF LockInv, Signal, Cleaned, RemovePath, PathFreed, PathKept, LockTypeOK, Holds,
       Runs, File
  <1>2. OneProcess'
    BY DEF LockInv, Signal, Cleaned, RemovePath, PathFreed, PathKept, LockTypeOK,
       OneProcess, Alone, CountIsHolders,
       NoOrphan, Trusted, Owner, Holds, Runs, CallersOf, File
  <1>3. Alone'
    BY DEF LockInv, Signal, Cleaned, RemovePath, PathFreed, PathKept, LockTypeOK,
       OneProcess, Alone, CountIsHolders,
       NoOrphan, Trusted, Owner, Holds, Runs, CallersOf, File
  <1>4. CountIsHolders'
    BY DEF LockInv, Signal, Cleaned, RemovePath, PathFreed, PathKept, LockTypeOK,
       OneProcess, Alone, CountIsHolders,
       NoOrphan, Trusted, Owner, Holds, Runs, CallersOf, File
  <1>5. NoOrphan'
    BY DEF LockInv, Signal, Cleaned, RemovePath, PathFreed, PathKept, LockTypeOK,
       OneProcess, Alone, CountIsHolders,
       NoOrphan, Trusted, Owner, Holds, Runs, CallersOf, File
  <1>6. Trusted'
    BY DEF LockInv, Signal, Cleaned, RemovePath, PathFreed, PathKept, LockTypeOK,
       OneProcess, Alone, CountIsHolders,
       NoOrphan, Trusted, Owner, Holds, Runs, CallersOf, File
  <1> QED BY <1>1, <1>2, <1>3, <1>4, <1>5, <1>6 DEF LockInv

LEMMA AgeInv == ASSUME LockInv, Age PROVE LockInv'
  <1> USE CallerAssumption, LockAssumption, NoneAssumption
  <1>1. LockTypeOK'
    BY DEF LockInv, Age, LockTypeOK, Holds, Runs, File
  <1>2. OneProcess'
    BY DEF LockInv, Age, LockTypeOK, OneProcess, Alone, CountIsHolders, NoOrphan,
       Trusted, Owner, Holds, Runs, CallersOf, File
  <1>3. Alone'
    BY DEF LockInv, Age, LockTypeOK, OneProcess, Alone, CountIsHolders, NoOrphan,
       Trusted, Owner, Holds, Runs, CallersOf, File
  <1>4. CountIsHolders'
    BY DEF LockInv, Age, LockTypeOK, OneProcess, Alone, CountIsHolders, NoOrphan,
       Trusted, Owner, Holds, Runs, CallersOf, File
  <1>5. NoOrphan'
    BY DEF LockInv, Age, LockTypeOK, OneProcess, Alone, CountIsHolders, NoOrphan,
       Trusted, Owner, Holds, Runs, CallersOf, File
  <1>6. Trusted'
    BY DEF LockInv, Age, LockTypeOK, OneProcess, Alone, CountIsHolders, NoOrphan,
       Trusted, Owner, Holds, Runs, CallersOf, File
  <1> QED BY <1>1, <1>2, <1>3, <1>4, <1>5, <1>6 DEF LockInv

-----------------------------------------------------------------------------
LEMMA InitInv == LockInit => LockInv
  <1> SUFFICES ASSUME LockInit PROVE LockInv
    OBVIOUS
  <1>1. LockTypeOK
    BY DEF LockInit, LockTypeOK
  <1> QED BY <1>1, CallerAssumption DEF LockInit, LockInv, OneProcess, Alone,
             CountIsHolders, NoOrphan, Trusted,
                                        Owner, Holds

LEMMA NextInv == LockInv /\ [LockNext]_lockVars => LockInv'
  <1> SUFFICES ASSUME LockInv, [LockNext]_lockVars PROVE LockInv'
    OBVIOUS
  <1>1. ASSUME NEW c \in Callers,
               Begin(c) \/ Reenter(c) \/ Acquire(c) \/ WriteFails(c) \/ RemoveStaleFails(c)
                 \/ GiveUp(c) \/ Release(c) \/ Unlink(c)
        PROVE  LockInv'
    BY <1>1, BeginInv, ReenterInv, OpenInv, WriteInv, WriteFailsInv, InspectInv,
       RemoveStaleInv, RemoveStaleFailsInv, GiveUpInv, ReleaseInv, UnlinkInv DEF Acquire
  <1>2. ASSUME NEW p \in Procs,
               ForceRelease(p) \/ ForceUnlink(p) \/ Crash(p) \/ Terminate(p) \/ Signal(p)
        PROVE  LockInv'
    BY <1>2, ForceReleaseInv, ForceUnlinkInv, CrashInv, TerminateInv, SignalInv
  <1>3. CASE UNCHANGED lockVars
    BY <1>3 DEF lockVars, LockInv, LockTypeOK, OneProcess, Alone, CountIsHolders,
       NoOrphan, Trusted,
                Owner, Holds, CallersOf
  <1> QED BY <1>1, <1>2, <1>3, AgeInv DEF LockNext

(* The inductive invariant holds in every reachable state.                 *)
THEOREM LockSpecInv == LockSpec => []LockInv
  BY InitInv, NextInv, PTL DEF LockSpec

(* Until a lock is found stale or taken back, two callers that hold the    *)
(* lock are of one process and share it, whatever crashes, overlapping     *)
(* acquisitions and releases come between (session-write-lock.ts 119-157,  *)
(* 399-449).                                                               *)
THEOREM SpecExclusive == LockSpec => []Exclusive
  <1>1. LockInv => Exclusive
    BY DEF LockInv, Trusted, OneProcess, Exclusive, Owner, Holds
  <1> QED BY <1>1, LockSpecInv, PTL

(* The map, the counts and the file agree with the callers, even after     *)
(* locks were taken back or removed as stale; the one file that a live     *)
(* process leaves without a holder is one whose removal failed             *)
(* (session-write-lock.ts 119-157, 182-243).                               *)
THEOREM SpecLocksAccounted == LockSpec => []LocksAccounted
  <1>1. LockInv => LocksAccounted
    BY DEF LockInv, LocksAccounted
  <1> QED BY <1>1, LockSpecInv, PTL

-----------------------------------------------------------------------------
(* The leader key: whoever is wrong about the leader is corrected within a *)
(* period, for any number of nodes, of commands in flight and of faults.   *)

Sent == [cmd : Commands, reply : Replies]
Items(q) == {q[i] : i \in DOMAIN q}
InFlight(n) == Items(pipe[n])

(* Who is out is out altogether.                                           *)
OutIsOut ==
    \A n \in Nodes : state[n] = "out" =>
        ~isLeader[n] /\ timer[n] = "off" /\ pipe[n] = <<>>

(* A heartbeat is still to come in this period, or on its way.             *)
Beating(n) == ~beat[n] \/ \E x \in InFlight(n) : x.cmd \in {"nx", "get"}
Staying == {"nx", "get", "rget", "rset"}

(* While a node is mistaken the lock is held, and always by it or always   *)
(* by others: no attempt succeeds, and its heartbeat will show it.         *)
Wrong(n) == Undisturbed(n) /\ Mistaken(n)
WillLearn(n) ==
    \A x \in InFlight(n) :
        /\ x.cmd \in Staying
        /\ x.cmd = "nx" => x.reply # "ok"
        /\ x.cmd = "get" => /\ x.reply # NoNode
                            /\ x.reply # Unanswered => (x.reply = n <=> leaderKey = n)
        /\ isLeader[n] => x.cmd # "rset" /\ (x.cmd = "rget" => x.reply # n)

(* While a leader has no renewal interval, its heartbeat will find the lock *)
(* its own, and set one.                                                   *)
DisarmedUp(n) == Undisturbed(n) /\ Disarmed(n)
WillArm(n) ==
    \A x \in InFlight(n) : /\ x.cmd \in Staying
                           /\ x.cmd = "get" => x.reply \in {Unanswered, n}

(* A leader that is cut off has a renewal before it, which will fail.      *)
WillYield(n) ==
    /\ \A x \in InFlight(n) : x.cmd # "delnode" => x.reply = Unanswered
    /\ state[n] = "up" => timer[n] = "due" \/ \E x \in InFlight(n) : x.cmd = "rget"

WrongOnce == \A n \in Nodes : wrongFor[n] = 0 \/
                 (wrongFor[n] = 1 /\ Wrong(n) /\ WillLearn(n) /\ Beating(n))
DisarmedOnce == \A n \in Nodes : unarmed[n] = 0 \/
                 (unarmed[n] = 1 /\ DisarmedUp(n) /\ WillArm(n) /\ Beating(n))
CutOnce == \A n \in Nodes : leadCut[n] = 0 \/
                 (leadCut[n] = 1 /\ LeadsCutOff(n) /\ WillYield(n))

ClusterInv == ClusterTypeOK /\ OutIsOut /\ WrongOnce /\ DisarmedOnce /\ CutOnce

-----------------------------------------------------------------------------
(* What the changes of a pipe do to what is in flight.                     *)

LEMMA Appended ==
  ASSUME NEW q \in Seq(Sent), NEW e \in Sent
  PROVE  /\ Append(q, e) \in Seq(Sent) /\ Len(Append(q, e)) = Len(q) + 1
         /\ Items(Append(q, e)) = Items(q) \cup {e}
  <1>1. Append(q, e) \in Seq(Sent) /\ Len(Append(q, e)) = Len(q) + 1
    OBVIOUS
  <1>2. /\ \A i \in DOMAIN q : i \in DOMAIN Append(q, e) /\ Append(q, e)[i] = q[i]
        /\ Len(q) + 1 \in DOMAIN Append(q, e) /\ Append(q, e)[Len(q) + 1] = e
        /\ \A i \in DOMAIN Append(q, e) : i \in DOMAIN q \/ i = Len(q) + 1
    BY <1>1
  <1> QED BY <1>1, <1>2 DEF Items

LEMMA Taken ==
  ASSUME NEW q \in Seq(Sent), q # <<>>
  PROVE  /\ Tail(q) \in Seq(Sent) /\ Len(Tail(q)) = Len(q) - 1
         /\ Head(q) \in Sent /\ Head(q) \in Items(q)
         /\ Items(Tail(q)) \subseteq Items(q)
         /\ Items(q) \subseteq Items(Tail(q)) \cup {Head(q)}
  <1>1. Tail(q) \in Seq(Sent) /\ Len(Tail(q)) = Len(q) - 1 /\ Head(q) \in Sent
    OBVIOUS
  <1>2. Len(q) \in Nat /\ Len(q) > 0 /\ Head(q) = q[1] /\ 1 \in DOMAIN q
    OBVIOUS
  <1>3. \A i \in DOMAIN Tail(q) : i + 1 \in DOMAIN q /\ Tail(q)[i] = q[i + 1]
    BY <1>1, <1>2
  <1>4. \A i \in DOMAIN q : i # 1 => i - 1 \in DOMAIN Tail(q) /\ Tail(q)[i - 1] = q[i]
    BY <1>1, <1>2
  <1>5. Head(q) \in Items(q)
    BY <1>2 DEF Items
  <1>6. Items(Tail(q)) \subseteq Items(q)
    BY <1>3 DEF Items
  <1>7. Items(q) \subseteq Items(Tail(q)) \cup {Head(q)}
    BY <1>2, <1>4 DEF Items
  <1> QED BY <1>1, <1>5, <1>6, <1>7

LEMMA Changed ==
  ASSUME NEW q \in Seq(Sent), NEW i \in DOMAIN q, NEW e \in Sent,
         NEW r, r = [q EXCEPT ![i] = e]
  PROVE  /\ r \in Seq(Sent) /\ Len(r) = Len(q) /\ e \in Items(r) /\ q[i] \in Items(q)
         /\ Items(r) \subseteq Items(q) \cup {e}
         /\ Items(q) \subseteq Items(r) \cup {q[i]}
  <1>1. r \in Seq(Sent) /\ Len(r) = Len(q) /\ DOMAIN r = DOMAIN q
    OBVIOUS
  <1>2. r[i] = e /\ \A j \in DOMAIN q : j # i => r[j] = q[j]
    BY <1>1
  <1> QED BY <1>1, <1>2 DEF Items

(* In a step of a node its pipe changes in one of four ways.               *)
Grows(n, e) == /\ pipe' = [pipe EXCEPT ![n] = Append(@, e)]
               /\ Len(pipe[n]) < MaxPipe
Turns(n, e) == pipe[n] # <<>> /\ pipe' = [pipe EXCEPT ![n] = Append(Tail(@), e)]
Shrinks(n) == pipe[n] # <<>> /\ pipe' = [pipe EXCEPT ![n] = Tail(@)]
Executes(n, i, v) ==
    /\ i \in DOMAIN pipe[n] /\ pipe[n][i].reply = Unanswered
    /\ pipe' = [pipe EXCEPT ![n] = [pipe[n] EXCEPT ![i].reply = v]]

PipesOK ==
    /\ pipe \in [Nodes -> Seq(Sent)]
    /\ \A n \in Nodes : Len(pipe[n]) <= MaxPipe

LEMMA GrowsKnown ==
  ASSUME PipesOK, NEW n \in Nodes, NEW e \in Sent, Grows(n, e)
  PROVE  /\ PipesOK' /\ \A m \in Nodes : m # n => pipe'[m] = pipe[m]
         /\ InFlight(n)' = InFlight(n) \cup {e} /\ pipe'[n] # <<>>
  <1>1. pipe'[n] = Append(pipe[n], e) /\ \A m \in Nodes : m # n => pipe'[m] = pipe[m]
    BY DEF Grows, PipesOK
  <1>2. MaxPipe \in Nat
    BY ClusterAssumption
  <1>3. pipe[n] \in Seq(Sent) /\ Len(pipe[n]) < MaxPipe
    BY DEF Grows, PipesOK
  <1>4. pipe'[n] \in Seq(Sent) /\ Len(pipe'[n]) = Len(pipe[n]) + 1
        /\ Items(pipe'[n]) = Items(pipe[n]) \cup {e}
    BY <1>1, <1>3, Appended
  <1>5. Len(pipe'[n]) <= MaxPipe /\ pipe'[n] # <<>>
    BY <1>2, <1>3, <1>4
  <1> QED BY <1>1, <1>4, <1>5 DEF PipesOK, Grows, InFlight

LEMMA TurnsKnown ==
  ASSUME PipesOK, NEW n \in Nodes, NEW e \in Sent, Turns(n, e)
  PROVE  /\ PipesOK' /\ \A m \in Nodes : m # n => pipe'[m] = pipe[m]
         /\ InFlight(n)' \subseteq InFlight(n) \cup {e} /\ e \in InFlight(n)'
         /\ InFlight(n) \subseteq InFlight(n)' \cup {First(n)}
         /\ First(n) \in InFlight(n) /\ First(n) \in Sent
  <1>1. pipe'[n] = Append(Tail(pipe[n]), e) /\ \A m \in Nodes : m # n => pipe'[m] = pipe[m]
    BY DEF Turns, PipesOK
  <1>2. pipe[n] \in Seq(Sent) /\ pipe[n] # <<>> /\ Len(pipe[n]) <= MaxPipe
    BY DEF Turns, PipesOK
  <1> DEFINE t == Tail(pipe[n])
  <1>3. /\ t \in Seq(Sent) /\ Len(t) = Len(pipe[n]) - 1
        /\ First(n) \in Sent /\ First(n) \in Items(pipe[n])
        /\ Items(t) \subseteq Items(pipe[n])
        /\ Items(pipe[n]) \subseteq Items(t) \cup {First(n)}
    BY <1>2, Taken DEF First
  <1>4. /\ pipe'[n] \in Seq(Sent) /\ Len(pipe'[n]) = Len(t) + 1
        /\ Items(pipe'[n]) = Items(t) \cup {e}
    BY <1>1, <1>3, Appended
  <1>5. Len(pipe'[n]) <= MaxPipe
    BY <1>2, <1>3, <1>4
  <1>6. PipesOK'
    BY <1>1, <1>4, <1>5 DEF PipesOK, Turns
  <1> QED BY <1>1, <1>3, <1>4, <1>6 DEF InFlight

LEMMA ShrinksKnown ==
  ASSUME PipesOK, NEW n \in Nodes, Shrinks(n)
  PROVE  /\ PipesOK' /\ \A m \in Nodes : m # n => pipe'[m] = pipe[m]
         /\ InFlight(n)' \subseteq InFlight(n)
         /\ InFlight(n) \subseteq InFlight(n)' \cup {First(n)}
         /\ First(n) \in InFlight(n) /\ First(n) \in Sent
  <1>1. pipe'[n] = Tail(pipe[n]) /\ \A m \in Nodes : m # n => pipe'[m] = pipe[m]
    BY DEF Shrinks, PipesOK
  <1>2. pipe[n] \in Seq(Sent) /\ pipe[n] # <<>> /\ Len(pipe[n]) <= MaxPipe
    BY DEF Shrinks, PipesOK
  <1>3. /\ pipe'[n] \in Seq(Sent) /\ Len(pipe'[n]) = Len(pipe[n]) - 1
        /\ First(n) \in Sent /\ First(n) \in Items(pipe[n])
        /\ Items(pipe'[n]) \subseteq Items(pipe[n])
        /\ Items(pipe[n]) \subseteq Items(pipe'[n]) \cup {First(n)}
    BY <1>1, <1>2, Taken DEF First
  <1>4. MaxPipe \in Nat
    BY ClusterAssumption
  <1>5. Len(pipe'[n]) <= MaxPipe
    BY <1>2, <1>3, <1>4
  <1>6. PipesOK'
    BY <1>1, <1>3, <1>5 DEF PipesOK, Shrinks
  <1> QED BY <1>1, <1>3, <1>6 DEF InFlight

LEMMA ExecutesKnown ==
  ASSUME PipesOK, NEW n \in Nodes, NEW i, NEW v \in Replies, Executes(n, i, v)
  PROVE  LET e == [cmd |-> pipe[n][i].cmd, reply |-> v] IN
         /\ PipesOK' /\ \A m \in Nodes : m # n => pipe'[m] = pipe[m]
         /\ InFlight(n)' \subseteq InFlight(n) \cup {e} /\ e \in InFlight(n)'
         /\ InFlight(n) \subseteq InFlight(n)' \cup {pipe[n][i]}
         /\ pipe[n][i] \in InFlight(n) /\ pipe[n][i] \in Sent
  <1> DEFINE e == [cmd |-> pipe[n][i].cmd, reply |-> v]
  <1>1. pipe[n] \in Seq(Sent) /\ i \in DOMAIN pipe[n] /\ Len(pipe[n]) <= MaxPipe
    BY DEF Executes, PipesOK
  <1>2. pipe[n][i] \in Sent /\ e \in Sent
    <2>1. pipe[n][i] \in Sent
      BY <1>1
    <2> QED BY <2>1 DEF Sent
  <1>3. [pipe[n][i] EXCEPT !.reply = v] = e
    BY <1>2 DEF Sent
  <1>4. pipe'[n] = [pipe[n] EXCEPT ![i] = e] /\ \A m \in Nodes : m # n => pipe'[m] = pipe[m]
    BY <1>1, <1>3 DEF Executes, PipesOK
  <1>5. /\ pipe'[n] \in Seq(Sent) /\ Len(pipe'[n]) = Len(pipe[n]) /\ e \in Items(pipe'[n])
        /\ pipe[n][i] \in Items(pipe[n])
        /\ Items(pipe'[n]) \subseteq Items(pipe[n]) \cup {e}
        /\ Items(pipe[n]) \subseteq Items(pipe'[n]) \cup {pipe[n][i]}
    BY <1>1, <1>2, <1>4, Changed
  <1>6. PipesOK'
    BY <1>1, <1>4, <1>5 DEF PipesOK, Executes
  <1> QED BY <1>2, <1>4, <1>5, <1>6 DEF InFlight

-----------------------------------------------------------------------------
(* Types, and that a step of a node leaves the other nodes alone.          *)

Shape ==
    /\ leaderKey \in Nodes \cup {NoNode} /\ ttl \in 0 .. Ttl
    /\ state \in [Nodes -> {"out", "joining", "up", "leaving", "quitting"}]
    /\ isLeader \in [Nodes -> BOOLEAN] /\ beat \in [Nodes -> BOOLEAN]
    /\ timer \in [Nodes -> {"off", "armed", "due"}]
    /\ PipesOK
    /\ cut \subseteq Nodes /\ stalled \subseteq Nodes /\ faults \in 0 .. MaxFaults

Same(m) ==
    /\ state'[m] = state[m] /\ isLeader'[m] = isLeader[m] /\ timer'[m] = timer[m]
    /\ beat'[m] = beat[m] /\ pipe'[m] = pipe[m]
    /\ (m \in cut' <=> m \in cut) /\ (m \in stalled' <=> m \in stalled)

StaysSane(n) == Shape' /\ \A m \in Nodes : m # n => Same(m)

LEMMA Constants ==
  /\ NoNode \notin Nodes /\ NoNode \notin {"none", "ok"}
  /\ \A n \in Nodes : n \notin {"none", "ok"}
  /\ Ttl \in Nat \ {0} /\ MaxFaults \in Nat
  BY ClusterAssumption

LEMMA Commanded ==
  ASSUME NEW c \in Commands
  PROVE  Command(c) \in Sent /\ Command(c).cmd = c
         /\ (c # "delnode" => Command(c).reply = Unanswered)
  BY DEF Command, Sent, Commands, Replies

(* What Redis does with a command.                                         *)
LEMMA ExecuteKnown ==
  ASSUME Shape, NEW n \in Nodes, Execute(n)
  PROVE  /\ n \notin cut /\ UNCHANGED <<state, isLeader, timer, beat, cut, stalled, faults>>
         /\ \E i \in DOMAIN pipe[n], v \in Replies :
              /\ Executes(n, i, v) /\ v # Unanswered
              /\ LET c == pipe[n][i].cmd IN
                 /\ c \in {"nx", "get", "rget", "rset", "dellock", "delnode"}
                 /\ c \in {"get", "rget"} => v = leaderKey /\ leaderKey' = leaderKey
                 /\ c = "nx" /\ leaderKey # NoNode => v = NoNode /\ leaderKey' = leaderKey
                 /\ c = "nx" /\ leaderKey = NoNode => v = "ok" /\ leaderKey' = n
                 /\ c = "rset" => leaderKey' = leaderKey \/ leaderKey' = n
                 /\ c = "dellock" => leaderKey' = NoNode
                 /\ c = "delnode" => leaderKey' = leaderKey
         /\ leaderKey' \in {leaderKey, n, NoNode} /\ ttl' \in 0 .. Ttl
  <1>1. PICK i \in DOMAIN pipe[n] :
          LET c == pipe[n][i].cmd
              Takes == \/ c = "nx" /\ leaderKey = NoNode
                       \/ c = "rset" /\ leaderKey # NoNode
          IN
          /\ pipe[n][i].reply = Unanswered
          /\ leaderKey' = IF Takes THEN n ELSE IF c = "dellock" THEN NoNode ELSE leaderKey
          /\ ttl' = IF Takes THEN LeaderKeyTtl ELSE IF c = "dellock" THEN 0 ELSE ttl
          /\ pipe' = [pipe EXCEPT ![n][i].reply =
                         CASE c \in {"get", "rget"} -> leaderKey
                           [] c = "nx" /\ ~Takes -> NoNode
                           [] OTHER -> "ok"]
    BY DEF Execute
  <1> DEFINE c == pipe[n][i].cmd
             v == CASE c \in {"get", "rget"} -> leaderKey
                    [] c = "nx" /\ leaderKey # NoNode -> NoNode
                    [] OTHER -> "ok"
  <1>2. c \in Commands
    <2>1. pipe[n][i] \in Sent
      BY DEF Shape, PipesOK
    <2> QED BY <2>1 DEF Sent
  <1>3. v \in Replies /\ v # Unanswered
    BY <1>2, Constants DEF Replies, Unanswered, Commands, Shape
  <1>4. (CASE c \in {"get", "rget"} -> leaderKey
           [] c = "nx" /\ ~(\/ c = "nx" /\ leaderKey = NoNode
                            \/ c = "rset" /\ leaderKey # NoNode) -> NoNode
           [] OTHER -> "ok") = v
    OBVIOUS
  <1>5. Executes(n, i, v)
    <2>1. pipe' = [pipe EXCEPT ![n][i].reply = v]
      BY <1>1, <1>4
    <2> QED BY <1>1, <2>1 DEF Executes
  <1>6. /\ c \in {"nx", "get", "rget", "rset", "dellock", "delnode"}
        /\ c \in {"get", "rget"} => v = leaderKey /\ leaderKey' = leaderKey
        /\ c = "nx" /\ leaderKey # NoNode => v = NoNode /\ leaderKey' = leaderKey
        /\ c = "nx" /\ leaderKey = NoNode => v = "ok" /\ leaderKey' = n
        /\ c = "rset" => leaderKey' = leaderKey \/ leaderKey' = n
        /\ c = "dellock" => leaderKey' = NoNode
        /\ c = "delnode" => leaderKey' = leaderKey
    BY <1>1, <1>2 DEF Commands
  <1>7. leaderKey' \in {leaderKey, n, NoNode} /\ ttl' \in 0 .. Ttl
    BY <1>1, Constants DEF Shape, LeaderKeyTtl
  <1>8. n \notin cut /\ UNCHANGED <<state, isLeader, timer, beat, cut, stalled, faults>>
    BY DEF Execute
  <1> HIDE DEF v
  <1> QED BY <1>3, <1>5, <1>6, <1>7, <1>8

(* A step of a node keeps the types, and what is another node's.           *)
LEMMA Keeps ==
  ASSUME Shape, NEW n \in Nodes,
         PipesOK', \A m \in Nodes : m # n => pipe'[m] = pipe[m],
         leaderKey' \in Nodes \cup {NoNode}, ttl' \in 0 .. Ttl, faults' \in 0 .. MaxFaults,
         NEW s \in {"out", "joining", "up", "leaving", "quitting"},
         state' = [state EXCEPT ![n] = s],
         NEW l \in BOOLEAN, isLeader' = [isLeader EXCEPT ![n] = l],
         NEW t \in {"off", "armed", "due"}, timer' = [timer EXCEPT ![n] = t],
         NEW b \in BOOLEAN, beat' = [beat EXCEPT ![n] = b],
         cut' \in {cut, cut \cup {n}, cut \ {n}},
         stalled' \in {stalled, stalled \cup {n}, stalled \ {n}}
  PROVE  StaysSane(n)
  <1>1. Shape'
    BY DEF Shape
  <1>2. \A m \in Nodes : m # n => Same(m)
    BY DEF Shape, Same
  <1> QED BY <1>1, <1>2 DEF StaysSane

LEMMA Unchanged ==
  ASSUME Shape, NEW n \in Nodes
  PROVE  /\ state[n] \in {"out", "joining", "up", "leaving", "quitting"}
         /\ isLeader[n] \in BOOLEAN /\ beat[n] \in BOOLEAN
         /\ timer[n] \in {"off", "armed", "due"}
         /\ [state EXCEPT ![n] = state[n]] = state
         /\ [isLeader EXCEPT ![n] = isLeader[n]] = isLeader
         /\ [beat EXCEPT ![n] = beat[n]] = beat
         /\ [timer EXCEPT ![n] = timer[n]] = timer
  BY DEF Shape

LEMMA ExecuteSane ==
  ASSUME Shape, NEW n \in Nodes, Execute(n)
  PROVE  StaysSane(n)
  <1>1. PICK i \in DOMAIN pipe[n], v \in Replies : Executes(n, i, v)
    BY ExecuteKnown
  <1>2. PipesOK' /\ \A m \in Nodes : m # n => pipe'[m] = pipe[m]
    BY <1>1, ExecutesKnown DEF Shape
  <1>3. /\ leaderKey' \in Nodes \cup {NoNode} /\ ttl' \in 0 .. Ttl
        /\ UNCHANGED <<state, isLeader, timer, beat, cut, stalled, faults>>
    BY ExecuteKnown DEF Shape
  <1> QED BY <1>2, <1>3 DEF Shape, StaysSane, Same

(* What an answer makes of its pipe.                                       *)
LEMMA ReplyPipe ==
  ASSUME Shape, NEW n \in Nodes, Reply(n)
  PROVE  Shrinks(n) \/ \E c \in Commands : Turns(n, Command(c))
  <1>1. pipe[n] # <<>>
    BY DEF Reply, NxReplies, GetReplies, RgetReplies, RsetReplies, DelnodeReplies,
       DellockReplies, Answered
  <1>2. Done(n) => Shrinks(n)
    BY <1>1 DEF Done, Shrinks
  <1>3. \A c \in Commands : Then(n, c) => Turns(n, Command(c))
    BY <1>1 DEF Then, Turns
  <1>4. Done(n) \/ \E c \in Commands : Then(n, c)
    <2>1. CASE NxReplies(n)
      BY <2>1 DEF NxReplies, Acquired, Commands
    <2>2. CASE GetReplies(n)
      BY <2>2 DEF GetReplies, Acquired
    <2>3. CASE RgetReplies(n)
      BY <2>3 DEF RgetReplies, Commands
    <2>4. CASE RsetReplies(n)
      BY <2>4 DEF RsetReplies
    <2>5. CASE DelnodeReplies(n)
      BY <2>5 DEF DelnodeReplies, Removed, Commands
    <2>6. CASE DellockReplies(n)
      BY <2>6 DEF DellockReplies, Removed
    <2> QED BY <2>1, <2>2, <2>3, <2>4, <2>5, <2>6 DEF Reply
  <1> QED BY <1>2, <1>3, <1>4

LEMMA BelievesTyped ==
  ASSUME Shape, NEW n \in Nodes, NEW h
  PROVE  Believes(n, h) \in BOOLEAN
  BY Unchanged DEF Believes

(* What a step makes of the other variables of its node.                   *)
OneNode(n) ==
    \E s \in {"out", "joining", "up", "leaving", "quitting"}, l \in BOOLEAN,
       t \in {"off", "armed", "due"}, b \in BOOLEAN :
          /\ state' = [state EXCEPT ![n] = s] /\ isLeader' = [isLeader EXCEPT ![n] = l]
          /\ timer' = [timer EXCEPT ![n] = t] /\ beat' = [beat EXCEPT ![n] = b]

LEMMA AcquiredOne ==
  ASSUME Shape, NEW n \in Nodes, NEW l \in BOOLEAN, Acquired(n, l)
  PROVE  OneNode(n)
  <1>1. isLeader' = [isLeader EXCEPT ![n] = l]
    BY DEF Acquired
  <1>2. timer' = [timer EXCEPT ![n] = "armed"] \/ timer' = [timer EXCEPT ![n] = timer[n]]
    BY Unchanged DEF Acquired
  <1>3. \/ state' = [state EXCEPT ![n] = "up"] /\ beat' = [beat EXCEPT ![n] = TRUE]
        \/ /\ state' = [state EXCEPT ![n] = state[n]]
           /\ beat' = [beat EXCEPT ![n] = beat[n]]
    BY Unchanged DEF Acquired, Registered
  <1> QED BY <1>1, <1>2, <1>3, Unchanged DEF OneNode

LEMMA RemovedOne ==
  ASSUME Shape, NEW n \in Nodes, Removed(n), UNCHANGED beat,
         NEW l \in BOOLEAN, isLeader' = [isLeader EXCEPT ![n] = l]
  PROVE  OneNode(n)
  <1>1. state' = [state EXCEPT ![n] = "quitting"] /\ timer' = [timer EXCEPT ![n] = "off"]
        /\ beat' = [beat EXCEPT ![n] = beat[n]]
    BY Unchanged DEF Removed
  <1> QED BY <1>1, Unchanged DEF OneNode

LEMMA ReplyOne ==
  ASSUME Shape, NEW n \in Nodes, Reply(n)
  PROVE  OneNode(n)
  <1>1. CASE NxReplies(n)
    <2>1. CASE Acquired(n, TRUE)
      BY <2>1, AcquiredOne
    <2>2. CASE UNCHANGED <<state, isLeader, timer, beat>>
      BY <2>2, Unchanged DEF OneNode
    <2> QED BY <1>1, <2>1, <2>2 DEF NxReplies
  <1>2. CASE GetReplies(n)
    BY <1>2, BelievesTyped, AcquiredOne DEF GetReplies
  <1>3. CASE RgetReplies(n)
    <2>1. CASE UNCHANGED <<isLeader, timer>>
      BY <1>3, <2>1, Unchanged DEF RgetReplies, OneNode
    <2>2. CASE /\ isLeader' = [isLeader EXCEPT ![n] = FALSE]
               /\ timer' = [timer EXCEPT ![n] = "off"]
      BY <1>3, <2>2, Unchanged DEF RgetReplies, OneNode
    <2> QED BY <1>3, <2>1, <2>2 DEF RgetReplies
  <1>4. CASE RsetReplies(n)
    BY <1>4, Unchanged DEF RsetReplies, OneNode
  <1>5. CASE DelnodeReplies(n)
    <2>1. CASE UNCHANGED <<state, timer>>
      BY <1>5, <2>1, Unchanged DEF DelnodeReplies, OneNode
    <2>2. CASE Removed(n)
      BY <1>5, <2>2, RemovedOne, Unchanged DEF DelnodeReplies
    <2> QED BY <1>5, <2>1, <2>2 DEF DelnodeReplies
  <1>6. CASE DellockReplies(n)
    BY <1>6, RemovedOne DEF DellockReplies
  <1> QED BY <1>1, <1>2, <1>3, <1>4, <1>5, <1>6 DEF Reply

LEMMA ReplySane ==
  ASSUME Shape, NEW n \in Nodes, Reply(n)
  PROVE  StaysSane(n)
  <1>1. PipesOK' /\ \A m \in Nodes : m # n => pipe'[m] = pipe[m]
    <2>1. \A c \in Commands : Command(c) \in Sent
      BY Commanded
    <2> QED BY <2>1, ReplyPipe, ShrinksKnown, TurnsKnown DEF Shape
  <1>2. /\ leaderKey' \in Nodes \cup {NoNode} /\ ttl' \in 0 .. Ttl
        /\ faults' \in 0 .. MaxFaults /\ cut' = cut /\ stalled' = stalled
    BY DEF Reply, Shape
  <1> QED BY <1>1, <1>2, ReplyOne, Keeps DEF OneNode

LEMMA FailSane ==
  ASSUME Shape, NEW n \in Nodes, Fail(n)
  PROVE  StaysSane(n)
  <1>1. Shrinks(n)
    BY DEF Fail, Done, Shrinks
  <1>2. PipesOK' /\ \A m \in Nodes : m # n => pipe'[m] = pipe[m]
    BY <1>1, ShrinksKnown DEF Shape
  <1>3. /\ isLeader' = [isLeader EXCEPT ![n] = FALSE] \/ isLeader' = isLeader
        /\ state' = [state EXCEPT ![n] = "quitting"] \/ state' = state
        /\ UNCHANGED <<leaderKey, ttl, timer, beat, cut, stalled, faults>>
    BY DEF Fail, YieldOnRenewalError
  <1>4. OneNode(n)
    BY <1>3, Unchanged DEF OneNode
  <1>5. leaderKey' \in Nodes \cup {NoNode} /\ ttl' \in 0 .. Ttl /\ faults' \in 0 .. MaxFaults
    BY <1>3 DEF Shape
  <1> QED BY <1>2, <1>3, <1>4, <1>5, Keeps DEF OneNode

(* What a node sends by itself.                                            *)
LEMMA SendSane ==
  ASSUME Shape, NEW n \in Nodes, NEW c \in Commands, Send(n, c), OneNode(n),
         UNCHANGED <<leaderKey, ttl, cut, stalled, faults>>
  PROVE  StaysSane(n)
  <1>1. Grows(n, Command(c))
    BY DEF Send, Grows
  <1>2. PipesOK' /\ \A m \in Nodes : m # n => pipe'[m] = pipe[m]
    BY <1>1, Commanded, GrowsKnown DEF Shape
  <1>3. leaderKey' \in Nodes \cup {NoNode} /\ ttl' \in 0 .. Ttl /\ faults' \in 0 .. MaxFaults
    BY DEF Shape
  <1> QED BY <1>2, <1>3, Keeps DEF OneNode

LEMMA IntervalSane ==
  ASSUME Shape, NEW n \in Nodes, Join(n) \/ Beat(n) \/ RenewFires(n) \/ Leave(n)
  PROVE  StaysSane(n)
  <1>1. OneNode(n)
    BY Unchanged DEF Join, Beat, RenewFires, Leave, OneNode
  <1>2. \E c \in Commands : Send(n, c)
    BY DEF Join, Beat, RenewFires, Leave, Commands
  <1>3. UNCHANGED <<leaderKey, ttl, cut, stalled, faults>>
    BY DEF Join, Beat, RenewFires, Leave
  <1> QED BY <1>1, <1>2, <1>3, SendSane

LEMMA DisconnectSane ==
  ASSUME Shape, NEW n \in Nodes, Disconnect(n), UNCHANGED <<cut, stalled>>,
         faults' \in 0 .. MaxFaults
  PROVE  StaysSane(n)
  <1>1. PipesOK' /\ \A m \in Nodes : m # n => pipe'[m] = pipe[m]
    <2>1. pipe' = [pipe EXCEPT ![n] = <<>>] /\ PipesOK /\ MaxPipe \in Nat
      BY ClusterAssumption DEF Disconnect, Shape
    <2> QED BY <2>1 DEF PipesOK
  <1>2. OneNode(n)
    BY Unchanged DEF Disconnect, OneNode
  <1>3. leaderKey' \in Nodes \cup {NoNode} /\ ttl' \in 0 .. Ttl
    BY DEF Disconnect, Shape
  <1> QED BY <1>1, <1>2, <1>3, Keeps DEF OneNode

LEMMA FaultSane ==
  ASSUME Shape, NEW n \in Nodes, Cut(n) \/ Reconnect(n) \/ Stall(n) \/ Resume(n)
  PROVE  StaysSane(n)
  <1>1. /\ UNCHANGED <<leaderKey, ttl, nodeVars>> /\ faults' \in 0 .. MaxFaults
        /\ cut' \in {cut, cut \cup {n}, cut \ {n}}
        /\ stalled' \in {stalled, stalled \cup {n}, stalled \ {n}}
    BY Constants DEF Shape, Cut, Reconnect, Stall, Resume, Fault
  <1>2. OneNode(n)
    BY <1>1, Unchanged DEF nodeVars, OneNode
  <1>3. PipesOK' /\ \A m \in Nodes : m # n => pipe'[m] = pipe[m]
    BY <1>1 DEF nodeVars, Shape, PipesOK
  <1>4. leaderKey' \in Nodes \cup {NoNode} /\ ttl' \in 0 .. Ttl
    BY <1>1 DEF Shape
  <1> QED BY <1>1, <1>2, <1>3, <1>4, Keeps DEF OneNode

LEMMA StepSane ==
  ASSUME Shape, NEW n \in Nodes, Step(n)
  PROVE  StaysSane(n)
  <1>1. CASE Quit(n)
    BY <1>1, DisconnectSane DEF Quit, Shape
  <1>2. CASE NodeCrash(n)
    <2>1. faults' \in 0 .. MaxFaults
      BY <1>2, Constants DEF NodeCrash, Fault, Shape
    <2> QED BY <1>2, <2>1, DisconnectSane DEF NodeCrash
  <1> QED BY <1>1, <1>2, ExecuteSane, ReplySane, FailSane, IntervalSane,
             FaultSane DEF Step

-----------------------------------------------------------------------------
(* Who is out stays out, or joins.                                         *)
LEMMA OutStays ==
  ASSUME Shape, OutIsOut, NEW n \in Nodes, Step(n)
  PROVE  OutIsOut'
  <1>1. StaysSane(n)
    BY StepSane
  <1>2. \A m \in Nodes : m # n => (state'[m] = "out" => ~isLeader'[m] /\ timer'[m] = "off" /\ pipe'[m] = <<>>)
    BY <1>1 DEF OutIsOut, StaysSane, Same
  <1>3. state'[n] = "out" => ~isLeader'[n] /\ timer'[n] = "off" /\ pipe'[n] = <<>>
    <2>1. CASE Execute(n)
      <3>1. pipe[n] # <<>>
        BY <2>1 DEF Execute
      <3> QED BY <2>1, <3>1 DEF OutIsOut, Execute
    <2>2. CASE Reply(n)
      <3>1. pipe[n] # <<>>
        BY <2>2, ReplyPipe DEF Shrinks, Turns
      <3>2. state[n] # "out"
        BY <3>1 DEF OutIsOut
      <3>3. \/ state' = state \/ state' = [state EXCEPT ![n] = "up"]
            \/ state' = [state EXCEPT ![n] = "quitting"]
        BY <2>2 DEF Reply, NxReplies, GetReplies, RgetReplies, RsetReplies,
           DelnodeReplies,
           DellockReplies, Acquired, Registered, Removed
      <3> QED BY <3>2, <3>3 DEF Shape
    <2>3. CASE Fail(n)
      <3>1. state[n] # "out"
        BY <2>3 DEF OutIsOut, Fail
      <3> QED BY <2>3, <3>1 DEF Fail, Shape
    <2>4. CASE Join(n) \/ Beat(n) \/ RenewFires(n) \/ Leave(n)
      BY <2>4 DEF Join, Beat, RenewFires, Leave, OutIsOut, Shape
    <2>5. CASE Quit(n) \/ NodeCrash(n)
      BY <2>5 DEF Quit, NodeCrash, Disconnect, Shape, PipesOK
    <2>6. CASE Cut(n) \/ Reconnect(n) \/ Stall(n) \/ Resume(n)
      BY <2>6 DEF Cut, Reconnect, Stall, Resume, nodeVars, OutIsOut
    <2> QED BY <2>1, <2>2, <2>3, <2>4, <2>5, <2>6 DEF Step
  <1> QED BY <1>2, <1>3 DEF OutIsOut

-----------------------------------------------------------------------------
(* An undisturbed node that stays so answers, beats or renews.             *)
LEMMA UndisturbedSteps ==
  ASSUME Shape, NEW n \in Nodes, Step(n), Undisturbed(n), Undisturbed(n)'
  PROVE  Execute(n) \/ Reply(n) \/ Beat(n) \/ RenewFires(n)
  <1>1. n \notin stalled /\ n \notin cut /\ state[n] = "up"
        /\ n \notin stalled' /\ n \notin cut' /\ state'[n] = "up"
    BY DEF Undisturbed
  <1>2. ~Fail(n) /\ ~Join(n) /\ ~Quit(n) /\ ~Reconnect(n) /\ ~Resume(n)
    BY <1>1 DEF Fail, Join, Quit, Reconnect, Resume
  <1>3. ~Leave(n) /\ ~NodeCrash(n)
    BY <1>1 DEF Leave, NodeCrash, Disconnect, Shape
  <1>4. ~Cut(n) /\ ~Stall(n)
    BY <1>1 DEF Cut, Stall
  <1> QED BY <1>2, <1>3, <1>4 DEF Step

(* The heartbeat of a period goes on until it is done.                     *)
LEMMA BeatingGoesOn ==
  ASSUME NEW n \in Nodes, Beating(n), beat'[n] = beat[n],
         \A x \in InFlight(n) : x.cmd \in {"nx", "get"} =>
             \E y \in InFlight(n)' : y.cmd \in {"nx", "get"}
  PROVE  Beating(n)'
  BY DEF Beating

LEMMA MistakenMeans ==
  ASSUME Shape, NEW n \in Nodes, Mistaken(n)
  PROVE  leaderKey # NoNode /\ (leaderKey = n <=> ~isLeader[n])
  BY Constants DEF Mistaken, Shape

LEMMA WrongExecute ==
  ASSUME Shape, NEW n \in Nodes, Wrong(n), WillLearn(n), Beating(n), Wrong(n)', Shape', Execute(n)
  PROVE  WillLearn(n)' /\ Beating(n)'
  <1>1. /\ leaderKey # NoNode /\ (leaderKey = n <=> ~isLeader[n])
        /\ leaderKey' # NoNode /\ (leaderKey' = n <=> ~isLeader'[n])
    BY MistakenMeans, Constants DEF Wrong, Mistaken, Shape
  <1>2. PICK i \in DOMAIN pipe[n], v \in Replies :
          /\ Executes(n, i, v) /\ v # Unanswered
          /\ LET c == pipe[n][i].cmd IN
             /\ c \in {"get", "rget"} => v = leaderKey /\ leaderKey' = leaderKey
             /\ c = "nx" /\ leaderKey # NoNode => v = NoNode /\ leaderKey' = leaderKey
    BY ExecuteKnown
  <1>3. isLeader' = isLeader /\ beat' = beat
    BY DEF Execute
  <1> DEFINE c == pipe[n][i].cmd
             e == [cmd |-> c, reply |-> v]
  <1>4. /\ InFlight(n)' \subseteq InFlight(n) \cup {e} /\ e \in InFlight(n)'
        /\ InFlight(n) \subseteq InFlight(n)' \cup {pipe[n][i]}
        /\ pipe[n][i] \in InFlight(n)
    BY <1>2, ExecutesKnown DEF Shape
  <1>5. /\ c \in Staying /\ e.cmd = c /\ e.reply = v
        /\ isLeader[n] => c # "rset"
    BY <1>4 DEF WillLearn
  <1>6. /\ c = "nx" => v # "ok"
        /\ c = "get" => v # NoNode /\ (v = n <=> leaderKey' = n)
        /\ isLeader'[n] => c # "rset" /\ (c = "rget" => v # n)
    BY <1>1, <1>2, <1>3, <1>5, Constants
  <1>7. leaderKey' = n <=> leaderKey = n
    BY <1>1, <1>3
  <1>8. WillLearn(n)'
    <2>1. ASSUME NEW x \in InFlight(n)'
          PROVE  /\ x.cmd \in Staying
                 /\ x.cmd = "nx" => x.reply # "ok"
                 /\ x.cmd = "get" => /\ x.reply # NoNode
                                     /\ x.reply # Unanswered => (x.reply = n <=> leaderKey' = n)
                 /\ isLeader'[n] => x.cmd # "rset" /\ (x.cmd = "rget" => x.reply # n)
      <3>1. CASE x = e
        BY <3>1, <1>5, <1>6
      <3>2. CASE x \in InFlight(n)
        BY <3>2, <1>3, <1>7 DEF WillLearn
      <3> QED BY <1>4, <3>1, <3>2
    <2> QED BY <2>1 DEF WillLearn, Staying, Unanswered
  <1>9. Beating(n)'
    BY <1>3, <1>4, <1>5, BeatingGoesOn
  <1> QED BY <1>8, <1>9

LEMMA WrongReply ==
  ASSUME Shape, NEW n \in Nodes, Wrong(n), WillLearn(n), Beating(n), Wrong(n)', Shape', Reply(n)
  PROVE  WillLearn(n)' /\ Beating(n)'
  <1>1. /\ leaderKey # NoNode /\ (leaderKey = n <=> ~isLeader[n])
        /\ leaderKey' = leaderKey /\ (leaderKey' = n <=> ~isLeader'[n])
    <2>1. leaderKey' = leaderKey
      BY DEF Reply
    <2> QED BY <2>1, MistakenMeans, Constants DEF Wrong, Mistaken, Shape
  <1>2. isLeader'[n] = isLeader[n]
    BY <1>1 DEF Shape
  <1>3. First(n) \in InFlight(n) /\ First(n) \in Sent
    <2>1. \A c \in Commands : Command(c) \in Sent
      BY Commanded
    <2> QED BY <2>1, ReplyPipe, ShrinksKnown, TurnsKnown DEF Shape
  <1>4. /\ First(n).cmd \in Staying
        /\ First(n).cmd = "nx" => First(n).reply # "ok"
        /\ First(n).cmd = "get" =>
              /\ First(n).reply # NoNode
              /\ First(n).reply # Unanswered => (First(n).reply = n <=> leaderKey = n)
        /\ isLeader[n] => /\ First(n).cmd # "rset"
                          /\ First(n).cmd = "rget" => First(n).reply # n
    BY <1>3 DEF WillLearn
  <1>5. CASE NxReplies(n)
    <2>1. Then(n, "get") /\ UNCHANGED <<state, isLeader, timer, beat>>
      BY <1>4, <1>5 DEF NxReplies, Answered
    <2> DEFINE e == Command("get")
    <2>2. Turns(n, e) /\ e \in Sent /\ e.cmd = "get" /\ e.reply = Unanswered
      BY <1>5, <2>1, Commanded DEF Turns, Then, NxReplies, Answered, Commands
    <2>3. InFlight(n)' \subseteq InFlight(n) \cup {e} /\ e \in InFlight(n)'
      BY <2>2, TurnsKnown DEF Shape
    <2> HIDE DEF e
    <2>4. WillLearn(n)'
      BY <1>1, <2>1, <2>2, <2>3, Constants DEF WillLearn, Staying, Unanswered
    <2> QED BY <2>2, <2>3, <2>4 DEF Beating
  <1>6. CASE GetReplies(n)
    <2>1. First(n).reply # NoNode /\ (First(n).reply = n <=> leaderKey = n)
      BY <1>4, <1>6 DEF GetReplies, Answered
    <2>2. isLeader' = [isLeader EXCEPT ![n] = (First(n).reply = n)]
      BY <1>6, <2>1 DEF GetReplies, Acquired, Believes
    <2>3. isLeader'[n] <=> leaderKey = n
      BY <2>1, <2>2 DEF Shape
    <2> QED BY <1>1, <2>3
  <1>7. CASE RgetReplies(n)
    <2>1. /\ pipe[n] # <<>> /\ First(n).cmd = "rget" /\ UNCHANGED beat
      BY <1>7 DEF RgetReplies, Answered
    <2>2. CASE First(n).reply = n
      <3> DEFINE e == Command("rset")
      <3>1. Turns(n, e) /\ e \in Sent /\ e.cmd = "rset"
        <4>1. Then(n, "rset")
          BY <1>7, <2>2, Constants DEF RgetReplies
        <4>2. "rset" \in Commands
          BY DEF Commands
        <4> QED BY <2>1, <4>1, <4>2, Commanded DEF Turns, Then
      <3>2. /\ InFlight(n)' \subseteq InFlight(n) \cup {e}
            /\ InFlight(n) \subseteq InFlight(n)' \cup {First(n)}
        BY <3>1, TurnsKnown DEF Shape
      <3>3. ~isLeader[n]
        BY <1>4, <2>1, <2>2
      <3> HIDE DEF e
      <3>4. WillLearn(n)'
        BY <1>1, <1>2, <3>1, <3>2, <3>3 DEF WillLearn, Staying, Unanswered
      <3>5. Beating(n)'
        BY <2>1, <3>2, BeatingGoesOn
      <3> QED BY <3>4, <3>5
    <2>3. CASE First(n).reply # n
      <3>1. Shrinks(n)
        BY <1>7, <2>1, <2>3 DEF RgetReplies, Shrinks, Done
      <3>2. /\ InFlight(n)' \subseteq InFlight(n)
            /\ InFlight(n) \subseteq InFlight(n)' \cup {First(n)}
        BY <3>1, ShrinksKnown DEF Shape
      <3>3. WillLearn(n)'
        BY <1>1, <1>2, <3>2 DEF WillLearn, Staying, Unanswered
      <3>4. Beating(n)'
        BY <2>1, <3>2, BeatingGoesOn
      <3> QED BY <3>3, <3>4
    <2> QED BY <2>2, <2>3
  <1>8. CASE RsetReplies(n)
    <2>1. ~isLeader[n] /\ isLeader'[n]
      BY <1>4, <1>8 DEF RsetReplies, Answered, Shape
    <2> QED BY <1>2, <2>1
  <1>9. ~DelnodeReplies(n) /\ ~DellockReplies(n)
    BY <1>4 DEF DelnodeReplies, DellockReplies, Answered, Staying
  <1> QED BY <1>5, <1>6, <1>7, <1>8, <1>9 DEF Reply

LEMMA WrongSends ==
  ASSUME Shape, NEW n \in Nodes, WillLearn(n), Beating(n), Wrong(n), Beat(n) \/ RenewFires(n)
  PROVE  WillLearn(n)' /\ Beating(n)'
  <1>1. PICK c \in {"nx", "rget"} : Send(n, c) /\ (beat'[n] = beat[n] \/ c = "nx")
    BY DEF Beat, RenewFires
  <1>2. UNCHANGED <<leaderKey, isLeader>>
    BY DEF Beat, RenewFires
  <1> DEFINE e == Command(c)
  <1>3. Grows(n, e) /\ e \in Sent /\ e.cmd = c /\ e.reply = Unanswered
    BY <1>1, Commanded DEF Send, Grows, Commands
  <1>4. InFlight(n)' = InFlight(n) \cup {e}
    BY <1>3, GrowsKnown DEF Shape
  <1> HIDE DEF e
  <1>5. WillLearn(n)'
    BY <1>2, <1>3, <1>4, Constants DEF WillLearn, Staying, Unanswered
  <1>6. Beating(n)'
    BY <1>1, <1>3, <1>4 DEF Beating
  <1> QED BY <1>5, <1>6

(* A step that is not the node's own.                                      *)
LEMMA WrongOther ==
  ASSUME Shape, Shape', NEW n \in Nodes, Wrong(n), WillLearn(n), Beating(n), Wrong(n)', Same(n)
  PROVE  WillLearn(n)' /\ Beating(n)'
  <1>1. (leaderKey' = n <=> leaderKey = n) /\ isLeader'[n] = isLeader[n] /\ beat'[n] = beat[n]
    BY MistakenMeans, Constants DEF Wrong, Mistaken, Same, Shape
  <1>2. InFlight(n)' = InFlight(n)
    BY DEF Same, InFlight
  <1>3. WillLearn(n)'
    BY <1>1, <1>2 DEF WillLearn, Staying, Unanswered
  <1>4. Beating(n)'
    BY <1>1, <1>2 DEF Beating
  <1> QED BY <1>3, <1>4

-----------------------------------------------------------------------------
(* A leader without a renewal interval finds out in the same way.          *)
LEMMA DisarmedExecute ==
  ASSUME Shape, NEW n \in Nodes, DisarmedUp(n), WillArm(n), Beating(n), Execute(n)
  PROVE  WillArm(n)' /\ Beating(n)'
  <1>1. PICK i \in DOMAIN pipe[n], v \in Replies :
          Executes(n, i, v) /\ (pipe[n][i].cmd = "get" => v = leaderKey)
    BY ExecuteKnown
  <1>2. leaderKey = n /\ beat' = beat
    BY DEF DisarmedUp, Disarmed, Execute
  <1> DEFINE c == pipe[n][i].cmd
             e == [cmd |-> c, reply |-> v]
  <1>3. /\ InFlight(n)' \subseteq InFlight(n) \cup {e} /\ e \in InFlight(n)'
        /\ InFlight(n) \subseteq InFlight(n)' \cup {pipe[n][i]}
        /\ pipe[n][i] \in InFlight(n)
    BY <1>1, ExecutesKnown DEF Shape
  <1>4. c \in Staying /\ e.cmd = c /\ e.reply = v /\ (c = "get" => v = n)
    BY <1>1, <1>2, <1>3 DEF WillArm
  <1> HIDE DEF c, e
  <1>5. WillArm(n)'
    BY <1>3, <1>4 DEF WillArm, Staying, Unanswered
  <1>6. Beating(n)'
    BY <1>2, <1>3, <1>4, BeatingGoesOn DEF c
  <1> QED BY <1>5, <1>6

LEMMA DisarmedReply ==
  ASSUME Shape, NEW n \in Nodes, DisarmedUp(n), WillArm(n), Beating(n), DisarmedUp(n)', Reply(n)
  PROVE  WillArm(n)' /\ Beating(n)'
  <1>1. timer'[n] = "off" /\ isLeader'[n] = TRUE /\ leaderKey = n
    BY DEF DisarmedUp, Disarmed, Reply
  <1>2. First(n) \in InFlight(n) /\ First(n) \in Sent
    <2>1. \A c \in Commands : Command(c) \in Sent
      BY Commanded
    <2> QED BY <2>1, ReplyPipe, ShrinksKnown, TurnsKnown DEF Shape
  <1>3. First(n).cmd \in Staying /\ (First(n).cmd = "get" => First(n).reply \in {Unanswered, n})
    BY <1>2 DEF WillArm
  <1>4. ~Acquired(n, TRUE)
    <2>1. Acquired(n, TRUE) => timer'[n] = "armed"
      BY DEF Acquired, Shape
    <2> QED BY <1>1, <2>1
  <1>5. CASE NxReplies(n)
    <2>1. Then(n, "get") /\ pipe[n] # <<>> /\ UNCHANGED beat
      BY <1>4, <1>5 DEF NxReplies, Answered
    <2> DEFINE e == Command("get")
    <2>2. Turns(n, e) /\ e \in Sent /\ e.cmd = "get" /\ e.reply = Unanswered
      BY <2>1, Commanded DEF Turns, Then, Commands
    <2>3. InFlight(n)' \subseteq InFlight(n) \cup {e} /\ e \in InFlight(n)'
      BY <2>2, TurnsKnown DEF Shape
    <2> HIDE DEF e
    <2>4. WillArm(n)'
      BY <2>2, <2>3 DEF WillArm, Staying, Unanswered
    <2> QED BY <2>2, <2>3, <2>4 DEF Beating
  <1>6. ~GetReplies(n)
    <2>1. GetReplies(n) => First(n).reply = n
      BY <1>3 DEF GetReplies, Answered
    <2>2. Believes(n, n)
      BY Constants DEF Believes
    <2>3. Believes(n, n) = TRUE
      BY <2>2, BelievesTyped
    <2> QED BY <1>4, <2>1, <2>3 DEF GetReplies
  <1>7. CASE RgetReplies(n)
    <2>1. First(n).cmd = "rget" /\ pipe[n] # <<>> /\ UNCHANGED beat
      BY <1>7 DEF RgetReplies, Answered
    <2>2. Then(n, "rset") \/ Done(n)
      BY <1>7 DEF RgetReplies
    <2> DEFINE e == Command("rset")
    <2>3. e \in Sent /\ e.cmd = "rset"
      BY Commanded DEF Commands
    <2> HIDE DEF e
    <2>4. /\ InFlight(n)' \subseteq InFlight(n) \cup {e}
          /\ InFlight(n) \subseteq InFlight(n)' \cup {First(n)}
      <3>1. Turns(n, e) \/ Shrinks(n)
        BY <2>1, <2>2 DEF Turns, Then, Shrinks, Done, e
      <3> QED BY <2>3, <3>1, TurnsKnown, ShrinksKnown DEF Shape
    <2>5. WillArm(n)'
      BY <2>3, <2>4 DEF WillArm, Staying, Unanswered
    <2>6. Beating(n)'
      BY <2>1, <2>4, BeatingGoesOn
    <2> QED BY <2>5, <2>6
  <1>8. CASE RsetReplies(n)
    <2>1. First(n).cmd = "rset" /\ UNCHANGED beat /\ Shrinks(n)
      BY <1>8 DEF RsetReplies, Answered, Shrinks, Done
    <2>2. /\ InFlight(n)' \subseteq InFlight(n)
          /\ InFlight(n) \subseteq InFlight(n)' \cup {First(n)}
      BY <2>1, ShrinksKnown DEF Shape
    <2>3. WillArm(n)'
      BY <2>2 DEF WillArm, Staying, Unanswered
    <2>4. Beating(n)'
      BY <2>1, <2>2, BeatingGoesOn
    <2> QED BY <2>3, <2>4
  <1>9. ~DelnodeReplies(n) /\ ~DellockReplies(n)
    BY <1>3 DEF DelnodeReplies, DellockReplies, Answered, Staying
  <1> QED BY <1>5, <1>6, <1>7, <1>8, <1>9 DEF Reply

LEMMA DisarmedSends ==
  ASSUME Shape, NEW n \in Nodes, WillArm(n), Beating(n), Beat(n) \/ RenewFires(n)
  PROVE  WillArm(n)' /\ Beating(n)'
  <1>1. PICK c \in {"nx", "rget"} : Send(n, c) /\ (beat'[n] = beat[n] \/ c = "nx")
    BY DEF Beat, RenewFires
  <1> DEFINE e == Command(c)
  <1>2. Grows(n, e) /\ e \in Sent /\ e.cmd = c
    BY <1>1, Commanded DEF Send, Grows, Commands
  <1>3. InFlight(n)' = InFlight(n) \cup {e}
    BY <1>2, GrowsKnown DEF Shape
  <1> HIDE DEF e
  <1>4. WillArm(n)'
    BY <1>2, <1>3 DEF WillArm, Staying, Unanswered
  <1>5. Beating(n)'
    BY <1>1, <1>2, <1>3 DEF Beating
  <1> QED BY <1>4, <1>5

LEMMA DisarmedOther ==
  ASSUME NEW n \in Nodes, WillArm(n), Beating(n), Same(n)
  PROVE  WillArm(n)' /\ Beating(n)'
  <1>1. InFlight(n)' = InFlight(n) /\ beat'[n] = beat[n]
    BY DEF Same, InFlight
  <1> QED BY <1>1 DEF WillArm, Beating, Staying, Unanswered

-----------------------------------------------------------------------------
(* A leader that is cut off has a renewal that fails.                      *)
LEMMA YieldOther ==
  ASSUME NEW n \in Nodes, WillYield(n), Same(n)
  PROVE  WillYield(n)'
  <1>1. InFlight(n)' = InFlight(n) /\ state'[n] = state[n] /\ timer'[n] = timer[n]
    BY DEF Same, InFlight
  <1> QED BY <1>1 DEF WillYield, Unanswered

LEMMA YieldPipe ==
  ASSUME NEW n \in Nodes, WillYield(n), NEW e,
         InFlight(n)' \subseteq InFlight(n) \cup {e},
         e.cmd # "delnode" => e.reply = Unanswered,
         \A x \in InFlight(n) : x.cmd = "rget" => x \in InFlight(n)',
         state'[n] = "up" => state[n] = "up" /\ (timer[n] = "due" =>
             timer'[n] = "due" \/ \E x \in InFlight(n)' : x.cmd = "rget")
  PROVE  WillYield(n)'
  BY DEF WillYield, Unanswered

LEMMA YieldReply ==
  ASSUME Shape, NEW n \in Nodes, WillYield(n), Reply(n)
  PROVE  WillYield(n)'
  <1>1. First(n) \in InFlight(n) /\ First(n) \in Sent
    <2>1. \A c \in Commands : Command(c) \in Sent
      BY Commanded
    <2> QED BY <2>1, ReplyPipe, ShrinksKnown, TurnsKnown DEF Shape
  <1>2. First(n).cmd # "delnode" => First(n).reply = Unanswered
    BY <1>1 DEF WillYield
  <1>3. DelnodeReplies(n)
    BY <1>2 DEF Reply, NxReplies, GetReplies, RgetReplies, RsetReplies, DellockReplies,
       Answered
  <1>4. First(n).cmd = "delnode" /\ pipe[n] # <<>>
    BY <1>3 DEF DelnodeReplies, Answered
  <1> DEFINE e == Command("dellock")
  <1>5. e \in Sent /\ e.cmd = "dellock" /\ e.reply = Unanswered
    BY Commanded DEF Commands
  <1>6. CASE Then(n, "dellock") /\ UNCHANGED <<state, timer>>
    <2>1. Turns(n, e)
      BY <1>4, <1>6 DEF Then, Turns
    <2> HIDE DEF e
    <2>2. /\ InFlight(n)' \subseteq InFlight(n) \cup {e}
          /\ InFlight(n) \subseteq InFlight(n)' \cup {First(n)}
      BY <1>5, <2>1, TurnsKnown DEF Shape
    <2>3. \A x \in InFlight(n) : x.cmd = "rget" => x \in InFlight(n)'
      BY <1>4, <2>2
    <2> QED BY <1>5, <1>6, <2>2, <2>3, YieldPipe
  <1>7. CASE Removed(n)
    <2>1. Shrinks(n)
      BY <1>4, <1>7 DEF Removed, Done, Shrinks
    <2> HIDE DEF e
    <2>2. InFlight(n)' \subseteq InFlight(n) /\ InFlight(n) \subseteq InFlight(n)' \cup {First(n)}
      BY <2>1, ShrinksKnown DEF Shape
    <2>3. state'[n] = "quitting"
      BY <1>7 DEF Removed, Shape
    <2>4. \A x \in InFlight(n) : x.cmd = "rget" => x \in InFlight(n)'
      BY <1>4, <2>2
    <2> QED BY <1>5, <2>2, <2>3, <2>4, YieldPipe
  <1> QED BY <1>3, <1>6, <1>7 DEF DelnodeReplies

LEMMA YieldFail ==
  ASSUME Shape, NEW n \in Nodes, WillYield(n), Fail(n), isLeader'[n]
  PROVE  WillYield(n)'
  <1>1. Shrinks(n)
    BY DEF Fail, Done, Shrinks
  <1>2. /\ InFlight(n)' \subseteq InFlight(n) /\ InFlight(n) \subseteq InFlight(n)' \cup {First(n)}
        /\ First(n) \in InFlight(n)
    BY <1>1, ShrinksKnown DEF Shape
  <1>3. First(n).cmd # "rget"
    <2>1. First(n).cmd = "rget" => isLeader' = [isLeader EXCEPT ![n] = FALSE]
      BY DEF Fail, YieldOnRenewalError
    <2> QED BY <2>1 DEF Shape
  <1>4. \A x \in InFlight(n) : x.cmd = "rget" => x \in InFlight(n)'
    BY <1>2, <1>3
  <1>5. (state'[n] = "up" => state[n] = "up") /\ timer' = timer
    BY DEF Fail, Shape
  <1>6. First(n).cmd # "delnode" => First(n).reply = Unanswered
    BY <1>2 DEF WillYield
  <1> QED BY <1>2, <1>4, <1>5, <1>6, YieldPipe

LEMMA YieldSends ==
  ASSUME Shape, NEW n \in Nodes, WillYield(n), Join(n) \/ Beat(n) \/ RenewFires(n) \/ Leave(n)
  PROVE  WillYield(n)'
  <1>1. PICK c \in Commands :
          /\ Send(n, c)
          /\ state'[n] = "up" => state[n] = "up"
          /\ timer' = timer \/ c = "rget" \/ state'[n] # "up"
    BY DEF Join, Beat, RenewFires, Leave, Commands, Shape
  <1> DEFINE e == Command(c)
  <1>2. Grows(n, e) /\ e \in Sent /\ e.cmd = c /\ (c # "delnode" => e.reply = Unanswered)
    BY <1>1, Commanded DEF Send, Grows
  <1>3. InFlight(n)' = InFlight(n) \cup {e}
    BY <1>2, GrowsKnown DEF Shape
  <1> HIDE DEF e
  <1>4. state'[n] = "up" => state[n] = "up" /\ (timer[n] = "due" =>
             timer'[n] = "due" \/ \E x \in InFlight(n)' : x.cmd = "rget")
    BY <1>1, <1>2, <1>3
  <1> QED BY <1>2, <1>3, <1>4, YieldPipe

(* A step of a leader that is cut off before and after.                    *)
LEMMA YieldStep ==
  ASSUME Shape, NEW n \in Nodes, WillYield(n), LeadsCutOff(n), LeadsCutOff(n)', Step(n)
  PROVE  WillYield(n)'
  <1>1. n \in cut /\ n \notin stalled /\ n \in cut' /\ n \notin stalled' /\ isLeader'[n]
    BY DEF LeadsCutOff
  <1>2. ~Execute(n) /\ ~Cut(n) /\ ~Reconnect(n) /\ ~Stall(n) /\ ~Resume(n)
    BY <1>1 DEF Execute, Cut, Reconnect, Stall, Resume
  <1>3. ~Quit(n) /\ ~NodeCrash(n)
    BY <1>1 DEF Quit, NodeCrash, Disconnect, Shape
  <1> QED BY <1>1, <1>2, <1>3, YieldReply, YieldFail, YieldSends DEF Step

-----------------------------------------------------------------------------
(* The counts.                                                             *)
Counted ==
    /\ wrongFor \in [Nodes -> {0, 1}] /\ unarmed \in [Nodes -> {0, 1}]
    /\ leadCut \in [Nodes -> {0, 1}]

LEMMA InvCounted == ASSUME ClusterInv PROVE Shape /\ Counted
  <1>1. Shape
    BY DEF ClusterInv, ClusterTypeOK, Shape, PipesOK, Sent
  <1>2. Counted
    BY DEF ClusterInv, ClusterTypeOK, Counted, WrongOnce, DisarmedOnce, CutOnce
  <1> QED BY <1>1, <1>2

LEMMA InvFrom ==
  ASSUME Shape, Counted, OutIsOut, WrongOnce, DisarmedOnce, CutOnce
  PROVE  ClusterInv
  <1>1. /\ wrongFor \in [Nodes -> 0 .. 3] /\ unarmed \in [Nodes -> 0 .. 3]
        /\ leadCut \in [Nodes -> 0 .. 3]
    BY DEF Counted
  <1>2. ClusterTypeOK
    BY <1>1 DEF Shape, ClusterTypeOK, PipesOK, Sent
  <1> QED BY <1>2 DEF ClusterInv

LEMMA InvNext ==
  ASSUME Shape', Counted', OutIsOut', WrongOnce', DisarmedOnce', CutOnce'
  PROVE  ClusterInv'
  <1>1. /\ wrongFor' \in [Nodes -> 0 .. 3] /\ unarmed' \in [Nodes -> 0 .. 3]
        /\ leadCut' \in [Nodes -> 0 .. 3]
    BY DEF Counted
  <1>2. ClusterTypeOK'
    BY <1>1 DEF Shape, ClusterTypeOK, PipesOK, Sent
  <1> QED BY <1>2 DEF ClusterInv

(* Within a period a count stays or ends.                                  *)
LEMMA Remembered ==
  ASSUME Counted, Remember(0)
  PROVE  /\ Counted'
         /\ \A n \in Nodes :
              /\ wrongFor'[n] = 0 \/ (wrongFor'[n] = wrongFor[n] /\ Wrong(n)')
              /\ unarmed'[n] = 0 \/ (unarmed'[n] = unarmed[n] /\ DisarmedUp(n)')
              /\ leadCut'[n] = 0 \/ (leadCut'[n] = leadCut[n] /\ LeadsCutOff(n)')
  <1>1. ASSUME NEW n \in Nodes
        PROVE  /\ wrongFor'[n] = 0 \/ (wrongFor'[n] = wrongFor[n] /\ Wrong(n)')
               /\ unarmed'[n] = 0 \/ (unarmed'[n] = unarmed[n] /\ DisarmedUp(n)')
               /\ leadCut'[n] = 0 \/ (leadCut'[n] = leadCut[n] /\ LeadsCutOff(n)')
    <2>1. /\ wrongFor[n] \in {0, 1} /\ unarmed[n] \in {0, 1} /\ leadCut[n] \in {0, 1}
      BY DEF Counted
    <2>2. /\ wrongFor'[n] = Count(wrongFor[n], 0, Undisturbed(n)' /\ Mistaken(n)')
          /\ unarmed'[n] = Count(unarmed[n], 0, Undisturbed(n)' /\ Disarmed(n)')
          /\ leadCut'[n] = Count(leadCut[n], 0, LeadsCutOff(n)')
      BY DEF Remember
    <2>3. /\ Wrong(n)' <=> Undisturbed(n)' /\ Mistaken(n)'
          /\ DisarmedUp(n)' <=> Undisturbed(n)' /\ Disarmed(n)'
      BY DEF Wrong, DisarmedUp
    <2>4. wrongFor'[n] = 0 \/ (wrongFor'[n] = wrongFor[n] /\ Wrong(n)')
      BY <2>1, <2>2, <2>3 DEF Count
    <2>5. unarmed'[n] = 0 \/ (unarmed'[n] = unarmed[n] /\ DisarmedUp(n)')
      BY <2>1, <2>2, <2>3 DEF Count
    <2>6. leadCut'[n] = 0 \/ (leadCut'[n] = leadCut[n] /\ LeadsCutOff(n)')
      BY <2>1, <2>2 DEF Count
    <2> QED BY <2>4, <2>5, <2>6
  <1>2. /\ wrongFor' = [n \in Nodes |-> wrongFor'[n]]
        /\ unarmed' = [n \in Nodes |-> unarmed'[n]]
        /\ leadCut' = [n \in Nodes |-> leadCut'[n]]
    BY DEF Remember
  <1>3. \A n \in Nodes : wrongFor'[n] \in {0, 1} /\ unarmed'[n] \in {0, 1} /\ leadCut'[n] \in {0, 1}
    BY <1>1 DEF Counted
  <1> QED BY <1>1, <1>2, <1>3 DEF Counted

(* A step within the period.                                               *)
LEMMA StepInv ==
  ASSUME ClusterInv, NEW n \in Nodes, Step(n), Remember(0)
  PROVE  ClusterInv'
  <1>1. Shape /\ Counted
    BY InvCounted
  <1>2. Shape' /\ \A m \in Nodes : m # n => Same(m)
    BY <1>1, StepSane DEF StaysSane
  <1>3. Counted'
    BY <1>1, Remembered
  <1>4. OutIsOut'
    BY <1>1, OutStays DEF ClusterInv
  <1>5. WrongOnce'
    <2>1. ASSUME NEW m \in Nodes, wrongFor'[m] # 0
          PROVE  wrongFor'[m] = 1 /\ Wrong(m)' /\ WillLearn(m)' /\ Beating(m)'
      <3>1. wrongFor'[m] = wrongFor[m] /\ Wrong(m)'
        BY <1>1, <2>1, Remembered
      <3>2. wrongFor[m] = 1 /\ Wrong(m) /\ WillLearn(m) /\ Beating(m)
        BY <2>1, <3>1 DEF ClusterInv, WrongOnce
      <3>3. CASE m # n
        BY <1>1, <1>2, <3>1, <3>2, <3>3, WrongOther
      <3>4. CASE m = n
        <4>1. Undisturbed(n) /\ Undisturbed(n)'
          BY <3>1, <3>2, <3>4 DEF Wrong
        <4>2. Execute(n) \/ Reply(n) \/ Beat(n) \/ RenewFires(n)
          BY <1>1, <4>1, UndisturbedSteps
        <4> QED BY <1>1, <1>2, <3>1, <3>2, <3>4, <4>2, WrongExecute, WrongReply,
                   WrongSends
      <3> QED BY <3>1, <3>2, <3>3, <3>4
    <2> QED BY <2>1 DEF WrongOnce
  <1>6. DisarmedOnce'
    <2>1. ASSUME NEW m \in Nodes, unarmed'[m] # 0
          PROVE  unarmed'[m] = 1 /\ DisarmedUp(m)' /\ WillArm(m)' /\ Beating(m)'
      <3>1. unarmed'[m] = unarmed[m] /\ DisarmedUp(m)'
        BY <1>1, <2>1, Remembered
      <3>2. unarmed[m] = 1 /\ DisarmedUp(m) /\ WillArm(m) /\ Beating(m)
        BY <2>1, <3>1 DEF ClusterInv, DisarmedOnce
      <3>3. CASE m # n
        BY <1>2, <3>1, <3>2, <3>3, DisarmedOther
      <3>4. CASE m = n
        <4>1. Undisturbed(n) /\ Undisturbed(n)'
          BY <3>1, <3>2, <3>4 DEF DisarmedUp
        <4>2. Execute(n) \/ Reply(n) \/ Beat(n) \/ RenewFires(n)
          BY <1>1, <4>1, UndisturbedSteps
        <4> QED BY <1>1, <3>1, <3>2, <3>4, <4>2, DisarmedExecute, DisarmedReply, DisarmedSends
      <3> QED BY <3>1, <3>2, <3>3, <3>4
    <2> QED BY <2>1 DEF DisarmedOnce
  <1>7. CutOnce'
    <2>1. ASSUME NEW m \in Nodes, leadCut'[m] # 0
          PROVE  leadCut'[m] = 1 /\ LeadsCutOff(m)' /\ WillYield(m)'
      <3>1. leadCut'[m] = leadCut[m] /\ LeadsCutOff(m)'
        BY <1>1, <2>1, Remembered
      <3>2. leadCut[m] = 1 /\ LeadsCutOff(m) /\ WillYield(m)
        BY <2>1, <3>1 DEF ClusterInv, CutOnce
      <3>3. CASE m # n
        BY <1>2, <3>1, <3>2, <3>3, YieldOther
      <3>4. CASE m = n
        BY <1>1, <3>1, <3>2, <3>4, YieldStep
      <3> QED BY <3>1, <3>2, <3>3, <3>4
    <2> QED BY <2>1 DEF CutOnce
  <1> QED BY <1>2, <1>3, <1>4, <1>5, <1>6, <1>7, InvNext

(* Nodes do not notice that the key expires.                               *)
LEMMA ExpireInv ==
  ASSUME ClusterInv, Expire, Remember(0)
  PROVE  ClusterInv'
  <1>1. Shape /\ Counted
    BY InvCounted
  <1>2. UNCHANGED <<ttl, state, isLeader, timer, beat, pipe, cut, stalled, faults>>
        /\ leaderKey' = NoNode
    BY DEF Expire, nodeVars
  <1>3. Shape' /\ \A m \in Nodes : Same(m)
    BY <1>1, <1>2 DEF Shape, Same, PipesOK
  <1>4. Counted'
    BY <1>1, Remembered
  <1>5. OutIsOut'
    BY <1>2 DEF ClusterInv, OutIsOut
  <1>6. WrongOnce'
    <2>1. ASSUME NEW m \in Nodes, wrongFor'[m] # 0
          PROVE  wrongFor'[m] = 1 /\ Wrong(m)' /\ WillLearn(m)' /\ Beating(m)'
      <3>1. wrongFor'[m] = wrongFor[m] /\ Wrong(m)'
        BY <1>1, <2>1, Remembered
      <3>2. wrongFor[m] = 1 /\ Wrong(m) /\ WillLearn(m) /\ Beating(m)
        BY <2>1, <3>1 DEF ClusterInv, WrongOnce
      <3> QED BY <1>1, <1>3, <3>1, <3>2, WrongOther
    <2> QED BY <2>1 DEF WrongOnce
  <1>7. DisarmedOnce'
    <2>1. ASSUME NEW m \in Nodes, unarmed'[m] # 0
          PROVE  unarmed'[m] = 1 /\ DisarmedUp(m)' /\ WillArm(m)' /\ Beating(m)'
      <3>1. unarmed'[m] = unarmed[m] /\ DisarmedUp(m)'
        BY <1>1, <2>1, Remembered
      <3>2. unarmed[m] = 1 /\ DisarmedUp(m) /\ WillArm(m) /\ Beating(m)
        BY <2>1, <3>1 DEF ClusterInv, DisarmedOnce
      <3> QED BY <1>3, <3>1, <3>2, DisarmedOther
    <2> QED BY <2>1 DEF DisarmedOnce
  <1>8. CutOnce'
    <2>1. ASSUME NEW m \in Nodes, leadCut'[m] # 0
          PROVE  leadCut'[m] = 1 /\ LeadsCutOff(m)' /\ WillYield(m)'
      <3>1. leadCut'[m] = leadCut[m] /\ LeadsCutOff(m)'
        BY <1>1, <2>1, Remembered
      <3>2. leadCut[m] = 1 /\ LeadsCutOff(m) /\ WillYield(m)
        BY <2>1, <3>1 DEF ClusterInv, CutOnce
      <3> QED BY <1>3, <3>1, <3>2, YieldOther
    <2> QED BY <2>1 DEF CutOnce
  <1> QED BY <1>3, <1>4, <1>5, <1>6, <1>7, <1>8, InvNext

(* The end of a period.                                                    *)
LEMMA TickInv ==
  ASSUME ClusterInv, Tick, Remember(1)
  PROVE  ClusterInv'
  <1>1. Shape /\ Counted /\ OutIsOut
    BY InvCounted DEF ClusterInv
  <1>2. /\ UNCHANGED <<leaderKey, state, isLeader, pipe, cut, stalled, faults>>
        /\ beat' = [n \in Nodes |-> FALSE]
        /\ timer' = [n \in Nodes |-> IF timer[n] = "armed" THEN "due" ELSE timer[n]]
        /\ ttl' = IF ttl > 0 THEN ttl - 1 ELSE 0
    BY DEF Tick
  <1>3. Shape'
    <2>1. ttl' \in 0 .. Ttl
      BY <1>1, <1>2, Constants DEF Shape
    <2>2. beat' \in [Nodes -> BOOLEAN] /\ timer' \in [Nodes -> {"off", "armed", "due"}]
      BY <1>1, <1>2 DEF Shape
    <2>3. PipesOK'
      BY <1>1, <1>2 DEF Shape, PipesOK
    <2> QED BY <1>1, <1>2, <2>1, <2>2, <2>3 DEF Shape
  <1>4. OutIsOut'
    BY <1>1, <1>2 DEF OutIsOut
  <1>5. ASSUME NEW n \in Nodes, n \notin stalled
        PROVE  /\ pipe[n] = <<>> /\ timer[n] # "due" /\ state[n] \in {"out", "up"}
               /\ state[n] = "up" => beat[n]
               /\ InFlight(n) = {} /\ InFlight(n)' = {}
    <2>1. Settled(n)
      BY <1>5 DEF Tick
    <2>2. pipe[n] = <<>> /\ pipe'[n] = <<>>
      BY <1>2, <2>1 DEF Settled
    <2> QED BY <2>1, <2>2 DEF Settled, InFlight, Items
  <1>6. ASSUME NEW n \in Nodes
        PROVE  wrongFor[n] = 0 /\ unarmed[n] = 0 /\ leadCut[n] = 0
    <2>1. ASSUME Undisturbed(n)
          PROVE  ~Beating(n)
      BY <1>5, <2>1 DEF Undisturbed, Beating
    <2>2. wrongFor[n] = 0
      BY <2>1 DEF ClusterInv, WrongOnce, Wrong
    <2>3. unarmed[n] = 0
      BY <2>1 DEF ClusterInv, DisarmedOnce, DisarmedUp
    <2>4. ~(LeadsCutOff(n) /\ WillYield(n))
      BY <1>1, <1>5 DEF LeadsCutOff, WillYield, OutIsOut
    <2> QED BY <2>2, <2>3, <2>4 DEF ClusterInv, CutOnce
  <1>7. ASSUME NEW n \in Nodes
        PROVE  /\ wrongFor'[n] = 0 \/ (wrongFor'[n] = 1 /\ Wrong(n)')
               /\ unarmed'[n] = 0 \/ (unarmed'[n] = 1 /\ DisarmedUp(n)')
               /\ leadCut'[n] = 0 \/ (leadCut'[n] = 1 /\ LeadsCutOff(n)')
    <2>1. /\ wrongFor'[n] = Count(0, 1, Undisturbed(n)' /\ Mistaken(n)')
          /\ unarmed'[n] = Count(0, 1, Undisturbed(n)' /\ Disarmed(n)')
          /\ leadCut'[n] = Count(0, 1, LeadsCutOff(n)')
      BY <1>6 DEF Remember
    <2>2. /\ Wrong(n)' <=> Undisturbed(n)' /\ Mistaken(n)'
          /\ DisarmedUp(n)' <=> Undisturbed(n)' /\ Disarmed(n)'
      BY DEF Wrong, DisarmedUp
    <2>3. wrongFor'[n] = 0 \/ (wrongFor'[n] = 1 /\ Wrong(n)')
      BY <2>1, <2>2 DEF Count
    <2>4. unarmed'[n] = 0 \/ (unarmed'[n] = 1 /\ DisarmedUp(n)')
      BY <2>1, <2>2 DEF Count
    <2>5. leadCut'[n] = 0 \/ (leadCut'[n] = 1 /\ LeadsCutOff(n)')
      BY <2>1 DEF Count
    <2> QED BY <2>3, <2>4, <2>5
  <1>8. Counted'
    <2>1. /\ wrongFor' = [n \in Nodes |-> wrongFor'[n]]
          /\ unarmed' = [n \in Nodes |-> unarmed'[n]]
          /\ leadCut' = [n \in Nodes |-> leadCut'[n]]
      BY DEF Remember
    <2>2. \A n \in Nodes : /\ wrongFor'[n] \in {0, 1} /\ unarmed'[n] \in {0, 1}
                           /\ leadCut'[n] \in {0, 1}
      BY <1>7
    <2> QED BY <2>1, <2>2 DEF Counted
  <1>9. ASSUME NEW n \in Nodes, n \notin stalled
        PROVE  WillLearn(n)' /\ WillArm(n)' /\ Beating(n)'
    <2>1. InFlight(n)' = {} /\ ~beat'[n]
      BY <1>2, <1>5, <1>9
    <2> QED BY <2>1 DEF WillLearn, WillArm, Beating
  <1>10. ASSUME NEW n \in Nodes, LeadsCutOff(n)'
         PROVE  WillYield(n)'
    <2>1. n \notin stalled /\ isLeader[n] /\ (state'[n] = "up" => timer'[n] # "off")
      BY <1>2, <1>10 DEF LeadsCutOff
    <2>2. state'[n] = "up" => timer'[n] = "due"
      BY <1>1, <1>2, <1>5, <2>1 DEF Shape
    <2>3. InFlight(n)' = {}
      BY <1>5, <2>1
    <2> QED BY <2>2, <2>3 DEF WillYield
  <1>11. \A n \in Nodes : Wrong(n)' \/ DisarmedUp(n)' => n \notin stalled
    BY <1>2 DEF Wrong, DisarmedUp, Undisturbed
  <1>12. WrongOnce' /\ DisarmedOnce' /\ CutOnce'
    BY <1>7, <1>9, <1>10, <1>11 DEF WrongOnce, DisarmedOnce, CutOnce
  <1> QED BY <1>3, <1>4, <1>8, <1>12, InvNext

LEMMA ClusterInitInv == ClusterInit => ClusterInv
  <1> SUFFICES ASSUME ClusterInit PROVE ClusterInv
    OBVIOUS
  <1>1. Shape
    <2>1. pipe = [n \in Nodes |-> <<>>] /\ MaxPipe \in Nat
      BY ClusterAssumption DEF ClusterInit
    <2>2. PipesOK
      BY <2>1 DEF PipesOK
    <2> QED BY <2>2, Constants DEF ClusterInit, Shape
  <1>2. Counted
    BY DEF ClusterInit, Counted
  <1>3. OutIsOut
    BY DEF ClusterInit, OutIsOut
  <1>4. WrongOnce /\ DisarmedOnce /\ CutOnce
    BY DEF ClusterInit, WrongOnce, DisarmedOnce, CutOnce
  <1> QED BY <1>1, <1>2, <1>3, <1>4, InvFrom

LEMMA ClusterNextInv == ClusterInv /\ [ClusterNext]_clusterVars => ClusterInv'
  <1> SUFFICES ASSUME ClusterInv, [ClusterNext]_clusterVars PROVE ClusterInv'
    OBVIOUS
  <1>1. CASE Expire /\ Remember(0)
    BY <1>1, ExpireInv
  <1>2. CASE (\E n \in Nodes : Step(n)) /\ Remember(0)
    BY <1>2, StepInv
  <1>3. CASE Tick /\ Remember(1)
    BY <1>3, TickInv
  <1>4. CASE UNCHANGED clusterVars
    <2>1. UNCHANGED <<leaderKey, ttl, state, isLeader, timer, beat, pipe, cut, stalled, faults,
                      wrongFor, unarmed, leadCut>>
      BY <1>4 DEF clusterVars, system, nodeVars
    <2>2. Shape /\ Counted /\ OutIsOut /\ WrongOnce /\ DisarmedOnce /\ CutOnce
      BY InvCounted DEF ClusterInv
    <2>3. Shape' /\ Counted' /\ OutIsOut'
      BY <2>1, <2>2 DEF Shape, PipesOK, Counted, OutIsOut
    <2>4. \A n \in Nodes : /\ InFlight(n)' = InFlight(n) /\ (Undisturbed(n)' <=> Undisturbed(n))
                           /\ (Mistaken(n)' <=> Mistaken(n)) /\ (Disarmed(n)' <=> Disarmed(n))
                           /\ (LeadsCutOff(n)' <=> LeadsCutOff(n))
      BY <2>1 DEF InFlight, Undisturbed, Mistaken, Disarmed, LeadsCutOff
    <2>5. \A n \in Nodes : /\ WillLearn(n)' <=> WillLearn(n)
                           /\ WillArm(n)' <=> WillArm(n)
                           /\ WillYield(n)' <=> WillYield(n)
                           /\ Beating(n)' <=> Beating(n)
      BY <2>1, <2>4 DEF WillLearn, WillArm, WillYield, Beating, Staying, Unanswered
    <2>6. WrongOnce' /\ DisarmedOnce' /\ CutOnce'
      BY <2>1, <2>2, <2>4, <2>5 DEF WrongOnce, DisarmedOnce, CutOnce, Wrong, DisarmedUp
    <2> QED BY <2>3, <2>6, InvNext
  <1> QED BY <1>1, <1>2, <1>3, <1>4 DEF ClusterNext

(* The invariant holds in every behaviour.                                 *)
THEOREM ClusterSpecInv == ClusterSpec => []ClusterInv
  <1>1. ClusterInit => ClusterInv
    BY ClusterInitInv
  <1>2. ClusterInv /\ [ClusterNext]_clusterVars => ClusterInv'
    BY ClusterNextInv
  <1> QED BY <1>1, <1>2, PTL DEF ClusterSpec

(* A node that is wrong about the leader or leads without a renewal        *)
(* interval is corrected within a period, and a leader cut off that has    *)
(* one yields within a period, for any number of nodes, stalls, crashes    *)
(* and lost connections.  That a leader renews is not claimed, since each  *)
(* heartbeat sets the interval anew (cluster/index.ts 156-201).            *)
THEOREM SpecLeadersCorrected == ClusterSpec => []LeadersCorrected
  <1>1. ClusterInv => LeadersCorrected
    BY DEF ClusterInv, LeadersCorrected, KnowsWhoLeads, CutOffYields, WrongOnce,
       DisarmedOnce,
       CutOnce
  <1> QED BY <1>1, ClusterSpecInv, PTL

=============================================================================
