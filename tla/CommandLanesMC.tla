--------------------------- MODULE CommandLanesMC ---------------------------
(* Instances of CommandLanes for TLC.                                      *)
EXTENDS CommandLanes

CONSTANTS main, cron, c1, c2, c3, c4

MCLanes == {main, cron}
MCCommands == {c1, c2, c3, c4}
\* three commands compete for one lane, the fourth shares only resets
MCLaneOf == [c \in MCCommands |-> IF c = c4 THEN cron ELSE main]

=============================================================================
