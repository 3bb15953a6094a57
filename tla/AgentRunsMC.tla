----------------------------- MODULE AgentRunsMC ----------------------------
(* Instances of AgentRuns for TLC.                                         *)
EXTENDS AgentRuns

CONSTANTS r1, r2, r3, alice, bob, main, nested

\* two runs of one session in two global lanes, and one of another session
MCSessionOf == [r \in Runs |-> IF r = r3 THEN bob ELSE alice]
MCGlobalOf == [r \in Runs |-> IF r = r2 THEN nested ELSE main]

=============================================================================
