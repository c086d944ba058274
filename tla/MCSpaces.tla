------------------------------ MODULE MCSpaces ------------------------------
(* Instances of Spaces for TLC.                                            *)
EXTENDS Spaces
CONSTANTS first, second, p, q
=============================================================================
