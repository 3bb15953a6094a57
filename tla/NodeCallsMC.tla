---------------------------- MODULE NodeCallsMC -----------------------------
(* The instances of NodeCalls for TLC. *)
EXTENDS NodeCalls
=============================================================================
