------------------------------- MODULE MCSync --------------------------------
(* Small instances of Sync for TLC. *)
EXTENDS Sync, TLC

CONSTANTS r1, r2

\* Records of the same sort are interchangeable.
RecordSymmetry == Permutations(Record \ Fixed)

==============================================================================
