----------------------------- MODULE KnownHosts ------------------------------
(***************************************************************************)
(* The trusted key of one machine, on several devices and their server.    *)
(*                                                                          *)
(* known_hosts holds one row per address and port, but the row travels as a *)
(* record with an id of its own: two devices that trust a key without       *)
(* having seen each other's make two records for one slot.  Applying a      *)
(* record (crates/uwussh-store/src/sync.rs) therefore also decides which of *)
(* two records keeps the slot; trusting and forgetting a key are in         *)
(* crates/uwussh-store/src/known_hosts.rs.                                  *)
(*                                                                          *)
(* A push with its answer and the pull of one record are single steps here: *)
(* how the steps of a pass interleave is the subject of Sync.               *)
(***************************************************************************)
EXTENDS Merge, FiniteSets

CONSTANTS
  Device,      \* device ids
  Id,          \* ids for new records
  NoId,        \* the id of no record
  Reading,     \* what a device's system clock may read
  ClocksWithinDrift,  \* no device's clock lags MaxDrift behind what it receives
  MaxWrites    \* bound: keys trusted or forgotten, by all devices together

ASSUME KnownHostsAssumption ==
  /\ Device \subseteq Nat
  /\ IsFiniteSet(Id)
  /\ NoId \notin Id
  /\ Reading \subseteq Nat
  /\ ClocksWithinDrift \in BOOLEAN
  /\ MaxWrites \in Nat

VARIABLES
  slot,        \* slot[d]: the row of this machine in device d's known_hosts
  clock,       \* clock[d]: meta.clock_wall_ms, meta.clock_counter
  cursor,      \* cursor[d]: sync_state.cursor
  server,      \* server[i]: the record as the server holds it
  serverSeq,   \* the server's sequence number
  used,        \* ids that were given out
  forgot,      \* whether a key was ever forgotten
  writes       \* how many keys were trusted or forgotten

vars == <<slot, clock, cursor, server, serverSeq, used, forgot, writes>>

HlcZero == [wall |-> 0, counter |-> 0, device |-> 0]
NoRow == [id |-> NoId, hlc |-> HlcZero, deleted |-> FALSE, dirty |-> FALSE, base |-> 0]
NoRecord == [hlc |-> HlcZero, deleted |-> FALSE, seq |-> 0]

Ver(x) == [hlc |-> x.hlc, deleted |-> x.deleted]

Init ==
  /\ slot = [d \in Device |-> NoRow]
  /\ clock = [d \in Device |-> TimeZero]
  /\ cursor = [d \in Device |-> 0]
  /\ server = [i \in Id |-> NoRecord]
  /\ serverSeq = 0
  /\ used = {}
  /\ forgot = FALSE
  /\ writes = 0

------------------------------------------------------------------------------
(* The user                                                                 *)

LocalWrite(d, id, deleted) ==
  /\ writes < MaxWrites
  /\ writes' = writes + 1
  /\ used' = used \cup {id}
  /\ \E now \in Reading :
       LET t == Tick(clock[d], now)
       IN  /\ clock' = [clock EXCEPT ![d] = t]
           /\ slot' = [slot EXCEPT ![d] = [id |-> id, hlc |-> Stamp(t, d), deleted |-> deleted,
                                           dirty |-> TRUE, base |-> @.base]]
  /\ UNCHANGED <<cursor, server, serverSeq>>

\* trust_host_key: the first key for this machine is a new record; otherwise the
\* row that is there is written over, a tombstone too (ON CONFLICT).
Trust(d) ==
  /\ IF slot[d] = NoRow
     THEN \E i \in Id \ used : LocalWrite(d, i, FALSE)
     ELSE LocalWrite(d, slot[d].id, FALSE)
  /\ UNCHANGED forgot

\* forget_host_key, of a key that is trusted.
Forget(d) ==
  /\ slot[d] # NoRow
  /\ ~slot[d].deleted
  /\ LocalWrite(d, slot[d].id, TRUE)
  /\ forgot' = TRUE

------------------------------------------------------------------------------
(* Applying a record                                                        *)

Taken(i, env) ==
  [id |-> i, hlc |-> env.hlc, deleted |-> env.deleted, dirty |-> FALSE, base |-> env.seq]

\* Mutant of InsertRecord: the record that is there keeps the slot.
InsertOrIgnore(have, i, env) == IF have # NoRow /\ have.id # i THEN have ELSE Taken(i, env)

\* insert_record, for a known host: the newer of two records keeps the slot.
InsertRecord(have, i, env) ==
  IF have # NoRow /\ have.id # i /\ HlcLess(env.hlc, have.hlc)
  THEN have
  ELSE Taken(i, env)

\* apply_one: the row of the slot after record i arrived.
Applied(have, i, env) ==
  CASE have.id # i /\ env.deleted  -> have
    [] have.id # i /\ ~env.deleted -> InsertRecord(have, i, env)
    [] have.id = i /\ Resolve(Ver(have), Ver(env)) = "Identical" ->
         [have EXCEPT !.dirty = FALSE, !.base = env.seq]
    [] have.id = i /\ Resolve(Ver(have), Ver(env)) = "Local" ->
         [have EXCEPT !.base = env.seq]
    [] have.id = i /\ Resolve(Ver(have), Ver(env)) = "Remote" ->
         IF env.deleted THEN Taken(i, env) ELSE InsertRecord(have, i, env)

\* Mutant of Apply: the clock does not catch up with what arrives.
ApplyOnly(d, i, env) ==
  /\ slot' = [slot EXCEPT ![d] = Applied(@, i, env)]
  /\ UNCHANGED clock

\* apply_envelopes, of one record.
Apply(d, i, env) ==
  /\ slot' = [slot EXCEPT ![d] = Applied(@, i, env)]
  /\ \E now \in Reading :
       /\ ClocksWithinDrift => env.hlc.wall <= now + MaxDrift
       /\ clock' = [clock EXCEPT ![d] = MergeTime(@, env.hlc, now)]

\* One request of push_all and its answer: taken and marked, or refused and
\* merged with what the server holds instead.
Push(d) ==
  LET i == slot[d].id
  IN  /\ slot[d].dirty
      /\ IF server[i].seq \in {0, slot[d].base}
         THEN /\ server' = [server EXCEPT ![i] = [hlc |-> slot[d].hlc, deleted |-> slot[d].deleted,
                                                  seq |-> serverSeq + 1]]
              /\ serverSeq' = serverSeq + 1
              /\ slot' = [slot EXCEPT ![d].dirty = FALSE, ![d].base = serverSeq + 1]
              /\ UNCHANGED clock
         ELSE /\ Apply(d, i, server[i])
              /\ UNCHANGED <<server, serverSeq>>
  /\ UNCHANGED <<cursor, used, forgot, writes>>

\* The next record of pull_all.
Pull(d) ==
  \E i \in Id :
    /\ server[i].seq > cursor[d]
    /\ \A j \in Id : server[j].seq > cursor[d] => server[i].seq <= server[j].seq
    /\ Apply(d, i, server[i])
    /\ cursor' = [cursor EXCEPT ![d] = server[i].seq]
    /\ UNCHANGED <<server, serverSeq, used, forgot, writes>>

Next == \E d \in Device : Trust(d) \/ Forget(d) \/ Push(d) \/ Pull(d)

Spec == Init /\ [][Next]_vars

------------------------------------------------------------------------------
(* Properties                                                               *)

Settled(d) == cursor[d] = serverSeq /\ ~slot[d].dirty

\* The key that connecting to the machine is checked against, if there is one.
Trusted(d) == IF slot[d].deleted THEN NoRow.hlc ELSE slot[d].hlc

\* Devices that have nothing left to send or to fetch trust the same key: "the
\* newer one takes it, on every device, so they end up agreeing"
\* (store/src/sync.rs:1268).
DevicesAgree ==
  \A d, e \in Device : Settled(d) /\ Settled(e) => Trusted(d) = Trusted(e)

\* As long as nobody forgets a key, they do, in whatever order the rivals meet:
\* insert_record compares the rivals by their timestamps only.
AgreeOnTheNewest == ~forgot => DevicesAgree

\* What a device decided about this machine gives way to a newer decision, or to
\* a tombstone of that very record, and to nothing else: an older key from
\* another device never comes back over it (insert_record, resolve, tick).
NewestDecisionStays ==
  [][\A d \in Device :
       slot[d] # NoRow /\ HlcLess(slot'[d].hlc, slot[d].hlc) =>
         slot'[d].deleted /\ slot'[d].id = slot[d].id]_vars

==============================================================================
