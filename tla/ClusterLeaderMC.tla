-------------------------- MODULE ClusterLeaderMC ---------------------------
(* The instances of ClusterLeader for TLC: the cfgs give the constants.    *)
EXTENDS ClusterLeader
=============================================================================
