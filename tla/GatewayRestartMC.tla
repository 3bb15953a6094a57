-------------------------- MODULE GatewayRestartMC --------------------------
(* The instance of GatewayRestart for TLC: the cfg gives the constants.    *)
EXTENDS GatewayRestart
=============================================================================
