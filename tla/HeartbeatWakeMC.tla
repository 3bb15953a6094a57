-------------------------- MODULE HeartbeatWakeMC ---------------------------
(* The instances of HeartbeatWake for TLC: a wake of the cron service for  *)
(* the agent's main session, later, and one of a hook for a target, at once. *)
EXTENDS HeartbeatWake

CONSTANTS all, main

MCRequests == {<<all, "default", Coalesce>>, <<main, "action", 0>>}
=============================================================================
