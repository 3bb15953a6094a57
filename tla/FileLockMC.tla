----------------------------- MODULE FileLockMC -----------------------------
(* The instances of FileLock for TLC: two calls of one process and one of  *)
(* another.                                                                *)
EXTENDS FileLock, TLC

CONSTANTS p1, p2, c1, c2, c3

MCProcOf == c1 :> p1 @@ c2 :> p1 @@ c3 :> p2
=============================================================================
