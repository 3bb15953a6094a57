-------------------------- MODULE DeliveryQueueMC --------------------------
(* Instances of DeliveryQueue for TLC. *)
EXTENDS DeliveryQueue

(* BACKOFF_MS in units of the clock, shortened so that a recovery may take *)
(* every retry within its budget *)
ShortBackoff == <<1, 2>>

(* BACKOFF_MS in units of 5 s *)
SourceBackoff == <<1, 5, 24, 120>>
=============================================================================
