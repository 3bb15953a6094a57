-------------------------- MODULE ChannelManagerMC --------------------------
(* The instances of ChannelManager for TLC. *)
EXTENDS ChannelManager
=============================================================================
