---------------------------- MODULE MCKnownHosts -----------------------------
(* Small instances of KnownHosts for TLC. *)
EXTENDS KnownHosts, TLC

CONSTANTS k1, k2, k3

\* Ids are interchangeable.
IdSymmetry == Permutations(Id)

==============================================================================
