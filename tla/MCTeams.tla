------------------------------ MODULE MCTeams ------------------------------
(* Instances of Teams for TLC.                                             *)
EXTENDS Teams

CONSTANTS olive, adam, ben, r1
=============================================================================
