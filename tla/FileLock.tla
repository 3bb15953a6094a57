------------------------------ MODULE FileLock ------------------------------
(***************************************************************************)
(* The write lock of a session file, src/agents/session-write-lock.ts: a   *)
(* lock file that processes create exclusively, inspect and remove when it *)
(* looks stale, and a map per process of the lock it holds, which calls of *)
(* the same process share by a count.                                      *)
(*                                                                         *)
(* Every call of the file system is a step; processes crash, end by a      *)
(* signal that cleans up, and have a watchdog that takes back a lock held  *)
(* for too long.  A lock is a token that stands for a HeldLock object and  *)
(* its file; the time that a lock may be held is left open, so that a      *)
(* file is old and a watchdog acts when they choose to.                    *)
(***************************************************************************)
EXTENDS Naturals, FiniteSets

CONSTANTS
    Procs, Callers,
    ProcOf,       \* ProcOf[c]: the process of a caller
    Locks,        \* bound: locks that are referred to at once
    Crashing,     \* processes that may die
    Overdue,      \* processes whose locks may be held for too long
    None

ASSUME CallerAssumption == IsFiniteSet(Callers) /\ ProcOf \in [Callers -> Procs]
ASSUME LockAssumption == Locks \subseteq Nat
ASSUME NoneAssumption ==
    /\ None \notin Nat
    /\ None \notin [lock : Locks, by : Procs, written : BOOLEAN]
    /\ None \notin [lock : Locks, count : Nat]

VARIABLES
    alive,       \* the processes that run
    file,        \* the lock file: the lock it belongs to, whether its payload is written
    old,         \* the file is older than staleMs
    held,        \* HELD_LOCKS[p] of the session: a lock and its count
    pc,          \* pc[c]: what caller c of acquire or release does
    lock,        \* lock[c]: the lock that c creates, holds or closes
    forced,      \* forced[p]: the lock that the watchdog of p is closing
    suspected,   \* observation: a lock was found stale, or taken back
    unremoved    \* observation: the process of the file there failed to remove it

lockVars == <<alive, file, old, held, pc, lock, forced, suspected, unremoved>>

CallersOf(p) == {c \in Callers : ProcOf[c] = p}
File == [lock : Locks, by : Procs, written : BOOLEAN]

Holds(c) == pc[c] = "holds"
Unused(t) ==
    /\ \A c \in Callers : lock[c] # t
    /\ \A p \in Procs : forced[p] # t /\ (held[p] # None => held[p].lock # t)
    /\ file # None => file.lock # t

(* A lock that nobody refers to. *)
Fresh(t) == Unused(t) /\ \A u \in Locks : Unused(u) => t <= u

-----------------------------------------------------------------------------
(* The path of the lock is removed, whoever's file is there.  A process    *)
(* that gives a lock up ignores that its removal failed.                   *)

PathFreed == file' = None /\ old' = FALSE /\ unremoved' = FALSE

PathKept(p) ==
    /\ unremoved' = (unremoved \/ (file # None /\ file.by = p))
    /\ UNCHANGED <<file, old>>

RemovePath(p) == PathFreed \/ PathKept(p)

-----------------------------------------------------------------------------
(* acquireSessionWriteLock                                                 *)

Runs(c) == ProcOf[c] \in alive

Begin(c) ==
    /\ Runs(c) /\ pc[c] = "idle" /\ held[ProcOf[c]] = None
    /\ pc' = [pc EXCEPT ![c] = "trying"]
    /\ UNCHANGED <<alive, file, old, held, lock, forced, suspected, unremoved>>

(* A call that finds its process holding the lock shares it. *)
Reenter(c) ==
    LET p == ProcOf[c] IN
    /\ Runs(c) /\ pc[c] = "idle" /\ held[p] # None
    /\ held' = [held EXCEPT ![p].count = @ + 1]
    /\ pc' = [pc EXCEPT ![c] = "holds"]
    /\ lock' = [lock EXCEPT ![c] = held[p].lock]
    /\ UNCHANGED <<alive, file, old, forced, suspected, unremoved>>

(* [mutant] the file is opened without the exclusive flag *)
OpenShared(c) ==
    /\ Runs(c) /\ pc[c] = "trying"
    /\ \E t \in Locks :
         /\ Fresh(t)
         /\ file' = [lock |-> t, by |-> ProcOf[c], written |-> FALSE]
         /\ lock' = [lock EXCEPT ![c] = t]
    /\ old' = FALSE /\ unremoved' = FALSE
    /\ pc' = [pc EXCEPT ![c] = "opened"]
    /\ UNCHANGED <<alive, held, forced, suspected>>

(* fs.open with "wx" *)
Open(c) ==
    /\ Runs(c) /\ pc[c] = "trying"
    /\ \/ /\ file = None
          /\ \E t \in Locks :
               /\ Fresh(t)
               /\ file' = [lock |-> t, by |-> ProcOf[c], written |-> FALSE]
               /\ lock' = [lock EXCEPT ![c] = t]
          /\ old' = FALSE /\ unremoved' = FALSE
          /\ pc' = [pc EXCEPT ![c] = "opened"]
       \/ /\ file # None
          /\ pc' = [pc EXCEPT ![c] = "exists"]
          /\ UNCHANGED <<file, old, lock, unremoved>>
    /\ UNCHANGED <<alive, held, forced, suspected>>

(* The payload is written, to its own file even if another has replaced    *)
(* it, and the lock becomes the one its process holds.                     *)
Write(c) ==
    /\ Runs(c) /\ pc[c] = "opened"
    /\ file' = IF file # None /\ file.lock = lock[c] THEN [file EXCEPT !.written = TRUE] ELSE file
    /\ held' = [held EXCEPT ![ProcOf[c]] = [lock |-> lock[c], count |-> 1]]
    /\ pc' = [pc EXCEPT ![c] = "holds"]
    /\ UNCHANGED <<alive, old, lock, forced, suspected, unremoved>>

(* The write fails, and with it the call; the file stays, without payload. *)
WriteFails(c) ==
    /\ Runs(c) /\ pc[c] = "opened"
    /\ pc' = [pc EXCEPT ![c] = "idle"] /\ lock' = [lock EXCEPT ![c] = None]
    /\ UNCHANGED <<alive, file, old, held, forced, suspected, unremoved>>

(* inspectLockPayload: no payload, a dead process, or too old. *)
Stale == file = None \/ ~file.written \/ file.by \notin alive \/ old

(* [mutant] a lock of a dead process is waited for *)
InspectPatiently(c) ==
    /\ Runs(c) /\ pc[c] = "exists"
    /\ pc' = [pc EXCEPT ![c] = "trying"]
    /\ UNCHANGED <<alive, file, old, held, lock, forced, suspected, unremoved>>

(* readLockPayload, which finds nothing when the file is gone or empty. *)
Inspect(c) ==
    /\ Runs(c) /\ pc[c] = "exists"
    /\ pc' = [pc EXCEPT ![c] = IF Stale THEN "stale" ELSE "trying"]
    /\ suspected' = (suspected \/ Stale)
    /\ UNCHANGED <<alive, file, old, held, lock, forced, unremoved>>

(* fs.rm of what is there by then *)
RemoveStale(c) ==
    /\ Runs(c) /\ pc[c] = "stale"
    /\ PathFreed
    /\ pc' = [pc EXCEPT ![c] = "trying"]
    /\ UNCHANGED <<alive, held, lock, forced, suspected>>

(* The removal fails, and with it the call. *)
RemoveStaleFails(c) ==
    /\ Runs(c) /\ pc[c] = "stale"
    /\ pc' = [pc EXCEPT ![c] = "idle"]
    /\ UNCHANGED <<alive, file, old, held, lock, forced, suspected, unremoved>>

(* The time for the lock is up. *)
GiveUp(c) ==
    /\ Runs(c) /\ pc[c] = "trying"
    /\ pc' = [pc EXCEPT ![c] = "idle"]
    /\ UNCHANGED <<alive, file, old, held, lock, forced, suspected, unremoved>>

-----------------------------------------------------------------------------
(* releaseHeldLock                                                         *)

(* [mutant] the last release forgets the lock and leaves the file open *)
ReleaseForgets(c) ==
    LET p == ProcOf[c]
        mine == held[p] # None /\ held[p].lock = lock[c]
    IN
    /\ Runs(c) /\ Holds(c)
    /\ held' = [held EXCEPT ![p] =
                 IF ~mine THEN @ ELSE IF @.count > 1 THEN [@ EXCEPT !.count = @ - 1] ELSE None]
    /\ pc' = [pc EXCEPT ![c] = "idle"] /\ lock' = [lock EXCEPT ![c] = None]
    /\ UNCHANGED <<alive, file, old, forced, suspected, unremoved>>

(* A release of a lock that is no longer the process's does nothing; the   *)
(* last release of a lock takes it from the map and closes its file.       *)
Release(c) ==
    LET p == ProcOf[c]
        mine == held[p] # None /\ held[p].lock = lock[c]
    IN
    /\ Runs(c) /\ Holds(c)
    /\ \/ /\ ~mine
          /\ pc' = [pc EXCEPT ![c] = "idle"] /\ lock' = [lock EXCEPT ![c] = None]
          /\ UNCHANGED held
       \/ /\ mine /\ held[p].count > 1
          /\ held' = [held EXCEPT ![p].count = @ - 1]
          /\ pc' = [pc EXCEPT ![c] = "idle"] /\ lock' = [lock EXCEPT ![c] = None]
       \/ /\ mine /\ held[p].count = 1
          /\ held' = [held EXCEPT ![p] = None]
          /\ pc' = [pc EXCEPT ![c] = "closing"] /\ UNCHANGED lock
    /\ UNCHANGED <<alive, file, old, forced, suspected, unremoved>>

(* The handle is closed and the path removed, which may fail. *)
Unlink(c) ==
    /\ Runs(c) /\ pc[c] = "closing"
    /\ RemovePath(ProcOf[c])
    /\ pc' = [pc EXCEPT ![c] = "idle"] /\ lock' = [lock EXCEPT ![c] = None]
    /\ UNCHANGED <<alive, held, forced, suspected>>

(* runLockWatchdogCheck, with a forced release *)
ForceRelease(p) ==
    /\ p \in alive \cap Overdue /\ held[p] # None /\ forced[p] = None
    /\ forced' = [forced EXCEPT ![p] = held[p].lock]
    /\ held' = [held EXCEPT ![p] = None]
    /\ suspected' = TRUE
    /\ UNCHANGED <<alive, file, old, pc, lock, unremoved>>

ForceUnlink(p) ==
    /\ p \in alive /\ forced[p] # None
    /\ RemovePath(p)
    /\ forced' = [forced EXCEPT ![p] = None]
    /\ UNCHANGED <<alive, held, pc, lock, suspected>>

-----------------------------------------------------------------------------
(* Time and processes.                                                     *)

Age ==
    /\ file # None /\ file.written /\ file.by \in Overdue /\ ~old
    /\ old' = TRUE
    /\ UNCHANGED <<alive, file, held, pc, lock, forced, suspected, unremoved>>

Gone(p) ==
    /\ alive' = alive \ {p}
    /\ held' = [held EXCEPT ![p] = None]
    /\ pc' = [c \in Callers |-> IF ProcOf[c] = p THEN "idle" ELSE pc[c]]
    /\ lock' = [c \in Callers |-> IF ProcOf[c] = p THEN None ELSE lock[c]]
    /\ forced' = [forced EXCEPT ![p] = None]
    /\ UNCHANGED suspected

(* A process dies and leaves its file. *)
Crash(p) ==
    /\ p \in alive \cap Crashing
    /\ Gone(p)
    /\ UNCHANGED <<file, old, unremoved>>

(* releaseAllLocksSync, at exit or for a signal: the path of a lock that   *)
(* the process holds is removed, or not.                                   *)
Cleaned(p) == IF held[p] # None THEN RemovePath(p) ELSE UNCHANGED <<file, old, unremoved>>

Terminate(p) ==
    /\ p \in alive \cap Crashing
    /\ Gone(p) /\ Cleaned(p)

(* handleTerminationSignal where another listener keeps the process alive, *)
(* as the gateway's does until it has drained.                             *)
Signal(p) ==
    /\ p \in alive \cap Crashing /\ held[p] # None
    /\ Cleaned(p)
    /\ held' = [held EXCEPT ![p] = None]
    /\ suspected' = TRUE
    /\ UNCHANGED <<alive, pc, lock, forced>>

-----------------------------------------------------------------------------
LockInit ==
    /\ alive = Procs
    /\ file = None /\ old = FALSE
    /\ held = [p \in Procs |-> None]
    /\ pc = [c \in Callers |-> "idle"] /\ lock = [c \in Callers |-> None]
    /\ forced = [p \in Procs |-> None]
    /\ suspected = FALSE /\ unremoved = FALSE

Acquire(c) == Open(c) \/ Write(c) \/ Inspect(c) \/ RemoveStale(c)

LockNext ==
    \/ \E c \in Callers :
          \/ Begin(c) \/ Reenter(c) \/ Acquire(c) \/ WriteFails(c) \/ RemoveStaleFails(c)
          \/ GiveUp(c) \/ Release(c) \/ Unlink(c)
    \/ \E p \in Procs : ForceRelease(p) \/ ForceUnlink(p) \/ Crash(p) \/ Terminate(p) \/ Signal(p)
    \/ Age

(* Calls of the file system return, and a holder releases its lock. *)
LockFairness ==
    /\ \A c \in Callers : WF_lockVars(Acquire(c)) /\ WF_lockVars(Release(c)) /\ WF_lockVars(Unlink(c))
    /\ \A p \in Procs : WF_lockVars(ForceUnlink(p))

LockSpec == LockInit /\ [][LockNext]_lockVars /\ LockFairness

-----------------------------------------------------------------------------
(* Properties.                                                             *)

(* The state of the lock file, of the processes and of their callers. *)
LockTypeOK ==
    /\ alive \subseteq Procs
    /\ file \in File \cup {None} /\ old \in BOOLEAN
    /\ held \in [Procs -> [lock : Locks, count : Nat \ {0}] \cup {None}]
    /\ pc \in [Callers -> {"idle", "trying", "opened", "exists", "stale", "holds", "closing"}]
    /\ lock \in [Callers -> Locks \cup {None}]
    /\ forced \in [Procs -> Locks \cup {None}]
    /\ suspected \in BOOLEAN /\ unremoved \in BOOLEAN

(* Two callers that hold a lock are of one process and share it, as long   *)
(* as no lock has been found stale and none has been taken back: crashes,  *)
(* shared locks and overlapping releases alone never admit a second        *)
(* writer.                                                                 *)
Exclusive ==
    \A c, d \in Callers :
        (Holds(c) /\ Holds(d)) => (suspected \/ (lock[c] = lock[d] /\ ProcOf[c] = ProcOf[d]))

(* The count of a lock is the number of calls that still have to release   *)
(* it, whatever other locks the process has had.                           *)
CountIsHolders ==
    \A p \in Procs : held[p] # None =>
        held[p].count = Cardinality({c \in CallersOf(p) : Holds(c) /\ lock[c] = held[p].lock})

(* A process that runs leaves no lock file with its pid behind, where      *)
(* everybody, itself included, waits half an hour for it to be stale,      *)
(* other than by a removal that failed: until then it holds the lock or is *)
(* about to remove the file.                                               *)
NoOrphan ==
    (file # None /\ file.by \in alive /\ file.written /\ ~unremoved) =>
        \/ held[file.by] # None \/ forced[file.by] # None
        \/ \E c \in CallersOf(file.by) : pc[c] = "closing"

(* A lock file of a dead process does not keep out a caller that goes on   *)
(* trying.                                                                 *)
DeadLockGoes ==
    \A c \in Callers :
        (pc[c] = "trying" /\ file # None /\ file.by \notin alive) ~>
            (pc[c] = "idle" \/ file = None \/ file.by \in alive)

(* The file, the map and the callers agree: the count is the number of     *)
(* holders, and a file of a live process has a holder or a remover, unless *)
(* it is there because its removal failed, which releaseHeldLock ignores   *)
(* (session-write-lock.ts 119-157, 399-434).                               *)
LocksAccounted == LockTypeOK /\ CountIsHolders /\ NoOrphan

=============================================================================
