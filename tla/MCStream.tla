------------------------------ MODULE MCStream -------------------------------
(***************************************************************************)
(* Stream, with numbers for TLC: the watermarks are a few units apart and   *)
(* a frame holds one or two chunks.                                         *)
(***************************************************************************)
EXTENDS Stream

==============================================================================
