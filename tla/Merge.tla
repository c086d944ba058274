-------------------------------- MODULE Merge --------------------------------
(***************************************************************************)
(* The conflict rule of crates/uwussh-proto/src/merge.rs: last writer wins  *)
(* per record, by the hybrid logical clock, except that a tombstone beats   *)
(* an edit whatever their clocks say.                                       *)
(***************************************************************************)
EXTENDS Clock

Hlc(Device) == [wall : Nat, counter : 0 .. MaxCounter, device : Device]

Version(Device) == [hlc : Hlc(Device), deleted : BOOLEAN]

\* merge::resolve: which of the two versions the store keeps.
Resolve(local, remote) ==
  CASE local = remote                      -> "Identical"
    [] local.deleted /\ ~remote.deleted    -> "Local"
    [] ~local.deleted /\ remote.deleted    -> "Remote"
    [] /\ local # remote
       /\ local.deleted = remote.deleted   ->
         IF HlcLess(remote.hlc, local.hlc) THEN "Local" ELSE "Remote"

\* The order Resolve decides by: w is v, or v replaces it.
AtMost(w, v) == Resolve(w, v) \in {"Identical", "Remote"}

==============================================================================
