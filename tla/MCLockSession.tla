--------------------------- MODULE MCLockSession ---------------------------
(* Instances of LockSession for TLC.                                       *)
EXTENDS LockSession
=============================================================================
