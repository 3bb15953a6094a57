---------------------------- MODULE SessionLine -----------------------------
(***************************************************************************)
(* What the command lanes promise a session: its agent runs stand in line, *)
(* only the first of the line executes, once, and it leaves when it is     *)
(* done.  Runs may be turned away while they wait behind the first (an     *)
(* interrupt clears the line), never once they are first.                  *)
(***************************************************************************)
EXTENDS Naturals, Sequences

CONSTANTS Runs, Sessions, SessionOf

VARIABLES
    line,      \* line[s]: the runs of session s, the first one being served
    executing, \* runs whose agent turn is in progress
    served,    \* runs whose agent turn began
    left       \* runs that ended or were turned away

lineVars == <<line, executing, served, left>>

InLine(s) == {line[s][i] : i \in 1 .. Len(line[s])}

LineInit ==
    /\ line = [s \in Sessions |-> <<>>]
    /\ executing = {} /\ served = {} /\ left = {}

(* Any event may let runs begin, each the first of its line and for the    *)
(* first time.                                                             *)
Begin(new) ==
    /\ new \cap served = {}
    /\ \A r \in new : line'[SessionOf[r]] # <<>> /\ Head(line'[SessionOf[r]]) = r
    /\ served' = served \cup new

Join(r) ==
    /\ r \notin left \cup InLine(SessionOf[r])
    /\ line' = [line EXCEPT ![SessionOf[r]] = Append(@, r)]
    /\ left' = left

Leave(r) ==
    /\ r \in served \ executing
    /\ line[SessionOf[r]] # <<>> /\ Head(line[SessionOf[r]]) = r
    /\ line' = [line EXCEPT ![SessionOf[r]] = Tail(@)]
    /\ left' = left \cup {r}

TurnAway(s) ==
    /\ line[s] # <<>>
    /\ line' = [line EXCEPT ![s] = <<Head(@)>>]
    /\ left' = left \cup {line[s][i] : i \in 2 .. Len(line[s])}

LineNext ==
    \E new \in SUBSET Runs, ended \in SUBSET executing :
        /\ executing' = (executing \ ended) \cup new
        /\ Begin(new)
        /\ \/ \E r \in Runs : (Join(r) \/ Leave(r)) /\ ended = {}
           \/ \E r \in Runs : ended \subseteq {r} /\ UNCHANGED <<line, left>>
           \/ \E s \in Sessions : TurnAway(s) /\ ended = {} /\ new = {}

LineSpec == LineInit /\ [][LineNext]_lineVars
=============================================================================
