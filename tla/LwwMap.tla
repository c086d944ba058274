------------------------------- MODULE LwwMap --------------------------------
(***************************************************************************)
(* What syncing promises, without saying how: every device keeps a version *)
(* of every record, the server keeps one too, and all of them only ever     *)
(* move up in the order of the conflict rule (docs/architecture.md,         *)
(* "Conflicts": last writer wins per record, a delete beats an edit).       *)
(*                                                                          *)
(*   - a device writes a version that beats the one it has;                 *)
(*   - the server takes on versions some device wrote and holds or has      *)
(*     already replaced by a better one;                                    *)
(*   - a device learns versions the server holds or has already replaced.   *)
(***************************************************************************)
EXTENDS Merge

CONSTANTS Device, Record

VARIABLES
  replica,   \* replica[d][r]: the version device d has
  master     \* master[r]: the version the server has

Absent == [hlc |-> [wall |-> 0, counter |-> 0, device |-> 0], deleted |-> FALSE]

Init ==
  /\ replica = [d \in Device |-> [r \in Record |-> Absent]]
  /\ master = [r \in Record |-> Absent]

\* Either unchanged, or moved up without passing the limit.
RisesUpTo(v, w, limit) == w = v \/ (AtMost(v, w) /\ AtMost(w, limit))

OthersKeep(d) == \A e \in Device \ {d} : replica'[e] = replica[e]

Write(d, r) ==
  /\ Resolve(replica[d][r], replica'[d][r]) = "Remote"
  /\ \A q \in Record \ {r} : replica'[d][q] = replica[d][q]
  /\ OthersKeep(d)
  /\ UNCHANGED master

Accept(d) ==
  /\ \A r \in Record : RisesUpTo(master[r], master'[r], replica[d][r])
  /\ UNCHANGED replica

Learn(d) ==
  /\ \A r \in Record : RisesUpTo(replica[d][r], replica'[d][r], master[r])
  /\ OthersKeep(d)
  /\ UNCHANGED master

Next ==
  \/ \E d \in Device, r \in Record : Write(d, r)
  \/ \E d \in Device : Accept(d)
  \/ \E d \in Device : Learn(d)

Spec == Init /\ [][Next]_<<replica, master>>

==============================================================================
