-------------------------- MODULE FollowupQueueMC --------------------------
(* Instances of FollowupQueue for TLC. *)
EXTENDS FollowupQueue

CONSTANTS m1, m2, m3

Of(modes, policy) == {[mode |-> m, cap |-> 2, dropPolicy |-> policy] : m \in modes}

(* the defaults of the source, changes of mode, and the other policies *)
MCConfigs == {Of({"collect"}, "summarize"), Of(Modes, "summarize"),
              Of({"followup"}, "old"), Of({"followup"}, "new")}

MCRouteOf == [m \in Messages |-> IF m = m2 THEN "slack" ELSE "telegram"]
=============================================================================
