--------------------------- MODULE CronServiceMC ---------------------------
(* The instances of CronService for TLC: a job on the first disk and one   *)
(* that a user may add.                                                    *)
EXTENDS CronService, TLC

CONSTANTS j1, j2

every == [kind |-> "every", at |-> 0, deleteAfterRun |-> FALSE]
cron == [kind |-> "cron", at |-> 0, deleteAfterRun |-> FALSE]
once == [kind |-> "at", at |-> 2, deleteAfterRun |-> TRUE]

MCSpecs == {every, once}
MCInitial == (j1 :> cron) @@ (j2 :> NoJob)
MCBackoff == <<1, 2>>
=============================================================================
