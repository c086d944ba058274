-------------------------------- MODULE Sync ---------------------------------
(***************************************************************************)
(* One vault's records on several devices and on the server they sync with.*)
(*                                                                          *)
(*   - a device's store: crates/uwussh-store/src/{lib,sync,hosts,keymap}.rs *)
(*   - one sync pass:    crates/uwussh-sync/src/engine.rs                   *)
(*   - the server:       crates/uwussh-sync/src/memory.rs                   *)
(*                                                                          *)
(* The user's edits interleave with every step of a pass: the store is      *)
(* locked for one transaction at a time, never across a request.  A request *)
(* may be handled after its device gave up on it, an answer may be lost,    *)
(* and a pass may die between any two of its transactions.                  *)
(*                                                                          *)
(* What a record says is left out: its timestamp identifies it.             *)
(***************************************************************************)
EXTENDS Merge, FiniteSets, Functions

CONSTANTS
  Device,             \* device ids
  Record,             \* record ids
  Fixed,              \* records with a fixed id: keymap, assistant (EntityKind::APART)
  Reader,             \* devices whose transport does not write (a team's readers)
  Reading,            \* what a device's system clock may read
  ClocksWithinDrift,  \* no device's clock lags MaxDrift behind what it receives
  BatchLimit,         \* MAX_BATCH, for a push
  PageLimit,          \* MAX_BATCH, for a pull
  MaxRounds,          \* MAX_ROUNDS
  MaxWrites,          \* bound: local writes of all devices together
  MaxFaults           \* bound: aborted passes, refusals and resets together

ASSUME SyncAssumption ==
  /\ Device \subseteq Nat
  /\ IsFiniteSet(Record)
  /\ Fixed \subseteq Record
  /\ Reader \subseteq Device
  /\ Reading \subseteq Nat
  /\ ClocksWithinDrift \in BOOLEAN
  /\ BatchLimit \in Nat \ {0}
  /\ PageLimit \in Nat \ {0}
  /\ MaxRounds \in Nat \ {0}
  /\ MaxWrites \in Nat
  /\ MaxFaults \in Nat

VARIABLES
  row,        \* row[d][r]: the record's row in device d's store
  clock,      \* clock[d]: meta.clock_wall_ms, meta.clock_counter
  cursor,     \* cursor[d]: sync_state.cursor
  pass,       \* pass[d]: where d's sync pass stands
  out,        \* out[d]: the push request of d's pass
  got,        \* got[d]: the answer d's pass is working through
  late,       \* requests whose device stopped waiting, not handled yet
  server,     \* server[r]: the record as the server holds it
  serverSeq,  \* the server's sequence number
  writes,     \* how many local writes happened
  faults      \* how many faults happened

store == <<row, clock, cursor>>
engine == <<pass, out, got>>
remote == <<late, server, serverSeq>>
vars == <<store, engine, remote, writes, faults>>

------------------------------------------------------------------------------
(* Rows, envelopes and versions                                             *)

HlcZero == [wall |-> 0, counter |-> 0, device |-> 0]

\* No row.  No record is ever stamped with the zero clock.
NoRow == [hlc |-> HlcZero, deleted |-> FALSE, dirty |-> FALSE, base |-> 0]

\* The server has never seen the record.
NoRecord == [hlc |-> HlcZero, deleted |-> FALSE, seq |-> 0]

Ver(x) == [hlc |-> x.hlc, deleted |-> x.deleted]

Live(d, r) == row[d][r] # NoRow /\ ~row[d][r].deleted

Row == [hlc : Hlc(Nat), deleted : BOOLEAN, dirty : BOOLEAN, base : Nat]
Held == [hlc : Hlc(Nat), deleted : BOOLEAN, seq : Nat]
Envelope == [hlc : Hlc(Nat), deleted : BOOLEAN, base : Nat]

\* A function on some of the records.
IsSome(f, S) == \E R \in SUBSET Record : f \in [R -> S]
Nothing == [r \in {} |-> NoRecord]

\* An answer to a push (taken, held) or a page (held, upto, more).
IsAnswer(a) ==
  /\ a = [taken |-> a.taken, held |-> a.held, upto |-> a.upto, more |-> a.more]
  /\ IsSome(a.taken, Nat)
  /\ IsSome(a.held, Held)
  /\ a.upto \in Nat
  /\ a.more \in BOOLEAN
NoAnswer == [taken |-> Nothing, held |-> Nothing, upto |-> 0, more |-> FALSE]

Pass == [pc : {"idle", "push", "sent", "answered", "merge", "pull", "page", "cursor"},
         apart : BOOLEAN, round : 0 .. MaxRounds, clash : BOOLEAN, moved : BOOLEAN]

Idle == [pc |-> "idle", apart |-> FALSE, round |-> 0, clash |-> FALSE, moved |-> FALSE]

TypeOK ==
  /\ row \in [Device -> [Record -> Row]]
  /\ clock \in [Device -> Time]
  /\ cursor \in [Device -> Nat]
  /\ pass \in [Device -> Pass]
  /\ out = [d \in Device |-> out[d]]
  /\ got = [d \in Device |-> got[d]]
  /\ \A d \in Device : IsSome(out[d], Envelope) /\ IsAnswer(got[d])
  /\ \A m \in late : m.from \in Device /\ IsSome(m.batch, Envelope)
  /\ server \in [Record -> Held]
  /\ serverSeq \in Nat
  /\ writes \in 0 .. MaxWrites
  /\ faults \in 0 .. MaxFaults

Init ==
  /\ row = [d \in Device |-> [r \in Record |-> NoRow]]
  /\ clock = [d \in Device |-> TimeZero]
  /\ cursor = [d \in Device |-> 0]
  /\ pass = [d \in Device |-> Idle]
  /\ out = [d \in Device |-> Nothing]
  /\ got = [d \in Device |-> NoAnswer]
  /\ late = {}
  /\ server = [r \in Record |-> NoRecord]
  /\ serverSeq = 0
  /\ writes = 0
  /\ faults = 0

------------------------------------------------------------------------------
(* Local writes: one transaction, at any moment                             *)

\* Stamp the row with the store's own next timestamp and mark it as waiting.
LocalWrite(d, r, deleted) ==
  /\ writes < MaxWrites
  /\ writes' = writes + 1
  /\ \E now \in Reading :
       LET t == Tick(clock[d], now)
       IN  /\ clock' = [clock EXCEPT ![d] = t]
           /\ row' = [row EXCEPT ![d][r] = [hlc |-> Stamp(t, d), deleted |-> deleted,
                                            dirty |-> TRUE, base |-> @.base]]
  /\ UNCHANGED <<cursor, engine, remote, faults>>

\* A new record gets an id nobody else has.
Create(d, r) ==
  /\ d \notin Reader
  /\ r \notin Fixed
  /\ \A e \in Device : row[e][r] = NoRow
  /\ LocalWrite(d, r, FALSE)

\* An edit of a live record.
Edit(d, r) ==
  /\ d \notin Reader
  /\ Live(d, r)
  /\ LocalWrite(d, r, FALSE)

\* A record with a fixed id is written whether or not there is one already.
Upsert(d, r) ==
  /\ d \notin Reader
  /\ r \in Fixed
  /\ row[d][r] = NoRow
  /\ LocalWrite(d, r, FALSE)

\* A delete leaves a tombstone; records with a fixed id are never deleted.
Delete(d, r) ==
  /\ d \notin Reader
  /\ r \notin Fixed
  /\ Live(d, r)
  /\ LocalWrite(d, r, TRUE)

------------------------------------------------------------------------------
(* Applying what the server sent: one transaction                           *)

\* Mutant of Applied: whatever arrives is taken.
TakeWhatArrives(have, env) ==
  [hlc |-> env.hlc, deleted |-> env.deleted, dirty |-> FALSE, base |-> env.seq]

\* apply_one: the row after one record arrived.
Applied(have, env) ==
  CASE have = NoRow /\ env.deleted  -> have
    [] have = NoRow /\ ~env.deleted ->
         [hlc |-> env.hlc, deleted |-> FALSE, dirty |-> FALSE, base |-> env.seq]
    [] have # NoRow /\ Resolve(Ver(have), Ver(env)) = "Identical" ->
         [have EXCEPT !.dirty = FALSE, !.base = env.seq]
    [] have # NoRow /\ Resolve(Ver(have), Ver(env)) = "Local" ->
         [have EXCEPT !.base = env.seq]
    [] have # NoRow /\ Resolve(Ver(have), Ver(env)) = "Remote" ->
         [hlc |-> env.hlc, deleted |-> env.deleted, dirty |-> FALSE, base |-> env.seq]

\* apply_envelopes: every record, then the clock catches up with the newest.
ApplyEnvelopes(d, envs) ==
  IF DOMAIN envs = {}
  THEN UNCHANGED <<row, clock>>
  ELSE /\ row' = [row EXCEPT ![d] =
                    [r \in Record |-> IF r \in DOMAIN envs
                                      THEN Applied(row[d][r], envs[r])
                                      ELSE row[d][r]]]
       /\ \E newest \in DOMAIN envs, now \in Reading :
            /\ \A r \in DOMAIN envs : ~HlcLess(envs[newest].hlc, envs[r].hlc)
            /\ ClocksWithinDrift => envs[newest].hlc.wall <= now + MaxDrift
            /\ clock' = [clock EXCEPT ![d] = MergeTime(@, envs[newest].hlc, now)]

------------------------------------------------------------------------------
(* The server: the version check is the whole of conflict detection         *)

\* Mutant of Takes: the server takes whatever it is sent.
TakesAll(batch) == DOMAIN batch

Takes(batch) == {r \in DOMAIN batch : server[r].seq \in {0, batch[r].base}}

\* push: what is taken gets the next sequence numbers, in the request's order.
ServerPush(batch, order) ==
  /\ order \in [Takes(batch) -> 1 .. Cardinality(Takes(batch))]
  /\ IsInjective(order)
  /\ server' = [r \in Record |->
                  IF r \in Takes(batch)
                  THEN [hlc |-> batch[r].hlc, deleted |-> batch[r].deleted,
                        seq |-> serverSeq + order[r]]
                  ELSE server[r]]
  /\ serverSeq' = serverSeq + Cardinality(Takes(batch))

\* The orders a request's taken records can be in.
Orders(batch) == [Takes(batch) -> 1 .. Cardinality(Takes(batch))]

\* pull: the records after since up to some place in the order, which is where
\* the page's count or its byte budget ends.
Page(since, upto) == {r \in Record : server[r].seq > since /\ server[r].seq <= upto}

------------------------------------------------------------------------------
(* One pass: sync_once                                                      *)

Start(d) ==
  /\ pass[d].pc = "idle"
  /\ pass' = [pass EXCEPT ![d] = [Idle EXCEPT !.round = 1,
                                  !.pc = IF d \in Reader THEN "pull" ELSE "push"]]
  /\ UNCHANGED <<store, out, got, remote, writes, faults>>

\* The rows waiting in this part of the push: push_all first, push_apart second.
Pending(d) == {r \in Record : row[d][r].dirty /\ (r \in Fixed <=> pass[d].apart)}

\* pending_envelopes and transport.push: as many of the waiting rows as the
\* request's count and bytes allow.
Send(d) ==
  /\ pass[d].pc = "push"
  /\ Pending(d) # {}
  /\ \E R \in SUBSET Pending(d) :
       /\ R # {}
       /\ Cardinality(R) <= BatchLimit
       /\ out' = [out EXCEPT ![d] =
                    [r \in R |-> [hlc |-> row[d][r].hlc, deleted |-> row[d][r].deleted,
                                  base |-> row[d][r].base]]]
  /\ pass' = [pass EXCEPT ![d].pc = "sent"]
  /\ UNCHANGED <<store, got, remote, writes, faults>>

\* Mutant of AfterPush: the records that travel apart are forgotten.
AfterPushOnce(p) == [p EXCEPT !.pc = "pull", !.moved = FALSE]

\* The part of the push that is done hands over to the next one.
AfterPush(p) == IF p.apart THEN [p EXCEPT !.pc = "pull", !.moved = FALSE]
                           ELSE [p EXCEPT !.pc = "push", !.apart = TRUE, !.moved = FALSE]

NothingToSend(d) ==
  /\ pass[d].pc = "push"
  /\ Pending(d) = {}
  /\ pass' = [pass EXCEPT ![d] = AfterPush(@)]
  /\ UNCHANGED <<store, out, got, remote, writes, faults>>

\* The server handles the request and answers: a place in the order for every
\* record it took, and the record it holds instead for every other.
Handle(d) ==
  /\ pass[d].pc = "sent"
  /\ \E order \in Orders(out[d]) :
       /\ ServerPush(out[d], order)
       /\ got' = [got EXCEPT ![d] =
                    [taken |-> [r \in Takes(out[d]) |-> serverSeq + order[r]],
                     held  |-> [r \in DOMAIN out[d] \ Takes(out[d]) |-> server[r]],
                     upto  |-> 0,
                     more  |-> FALSE]]
  /\ pass' = [pass EXCEPT ![d].pc = "answered"]
  /\ UNCHANGED <<store, out, late, writes, faults>>

\* Mutant of MarkPushed: every row the server took loses its flag, edited since
\* it was sent or not.
MarkPushedBlindly(d) ==
  /\ pass[d].pc = "answered"
  /\ row' = [row EXCEPT ![d] =
               [r \in Record |->
                  IF r \in DOMAIN got[d].taken
                  THEN [row[d][r] EXCEPT !.dirty = FALSE, !.base = got[d].taken[r]]
                  ELSE row[d][r]]]
  /\ pass' = [pass EXCEPT ![d].pc = "merge", ![d].moved = DOMAIN got[d].taken # {}]
  /\ out' = [out EXCEPT ![d] = Nothing]
  /\ got' = [got EXCEPT ![d].taken = Nothing]
  /\ UNCHANGED <<clock, cursor, remote, writes, faults>>

\* mark_pushed: only a row that is still what was sent loses its flag.
MarkPushed(d) ==
  LET sent == {r \in DOMAIN got[d].taken : row[d][r].hlc = out[d][r].hlc}
  IN  /\ pass[d].pc = "answered"
      /\ row' = [row EXCEPT ![d] =
                   [r \in Record |->
                      IF r \in sent
                      THEN [row[d][r] EXCEPT !.dirty = FALSE, !.base = got[d].taken[r]]
                      ELSE row[d][r]]]
      /\ pass' = [pass EXCEPT ![d].pc = "merge", ![d].moved = sent # {}]
      /\ out' = [out EXCEPT ![d] = Nothing]
      /\ got' = [got EXCEPT ![d].taken = Nothing]
      /\ UNCHANGED <<clock, cursor, remote, writes, faults>>

\* The records the server refused are merged; the push goes on while rows are
\* being cleared.
MergeConflicts(d) ==
  /\ pass[d].pc = "merge"
  /\ ApplyEnvelopes(d, got[d].held)
  /\ LET p == [pass[d] EXCEPT !.clash = @ \/ DOMAIN got[d].held # {}]
     IN  pass' = [pass EXCEPT ![d] =
                    IF p.moved THEN [p EXCEPT !.pc = "push", !.moved = FALSE]
                               ELSE AfterPush(p)]
  /\ got' = [got EXCEPT ![d] = NoAnswer]
  /\ UNCHANGED <<cursor, out, remote, writes, faults>>

\* A server that does not know the kinds of push_apart refuses its request,
\* which costs the pass nothing else.
RefuseApart(d) ==
  /\ pass[d].pc = "sent"
  /\ pass[d].apart
  /\ faults < MaxFaults
  /\ faults' = faults + 1
  /\ out' = [out EXCEPT ![d] = Nothing]
  /\ pass' = [pass EXCEPT ![d] = AfterPush(@)]
  /\ UNCHANGED <<store, got, remote, writes>>

\* With the pull at its end, the round is over: without conflicts the pass is
\* done, with them there is another round, until MaxRounds (ConflictLoop).
RoundDone(p) ==
  IF p.clash /\ p.round < MaxRounds
  THEN [Idle EXCEPT !.pc = "push", !.round = p.round + 1]
  ELSE Idle

\* Mutant of PullPage: a page that was cut says it reaches the end.
PullPageToEnd(d) ==
  /\ pass[d].pc = "pull"
  /\ \E last \in Record :
       LET page == Page(cursor[d], server[last].seq)
       IN  /\ server[last].seq > cursor[d]
           /\ Cardinality(page) <= PageLimit
           /\ got' = [got EXCEPT ![d] =
                        [taken |-> Nothing,
                         held  |-> [r \in page |-> server[r]],
                         upto  |-> serverSeq,
                         more  |-> FALSE]]
  /\ pass' = [pass EXCEPT ![d].pc = "page"]
  /\ UNCHANGED <<store, out, remote, writes, faults>>

PullPage(d) ==
  /\ pass[d].pc = "pull"
  /\ \E last \in Record :
       LET upto == server[last].seq
           page == Page(cursor[d], upto)
       IN  /\ upto > cursor[d]
           /\ Cardinality(page) <= PageLimit
           /\ got' = [got EXCEPT ![d] =
                        [taken |-> Nothing,
                         held  |-> [r \in page |-> server[r]],
                         upto  |-> upto,
                         more  |-> \E r \in Record : server[r].seq > upto]]
  /\ pass' = [pass EXCEPT ![d].pc = "page"]
  /\ UNCHANGED <<store, out, remote, writes, faults>>

\* An empty page: there is nothing after the cursor.
PullEmpty(d) ==
  /\ pass[d].pc = "pull"
  /\ \A r \in Record : server[r].seq <= cursor[d]
  /\ pass' = [pass EXCEPT ![d] = RoundDone(@)]
  /\ UNCHANGED <<store, out, got, remote, writes, faults>>

\* The server asks for a sync from the start; from the start already, the pull
\* ends.
PullReset(d) ==
  /\ pass[d].pc = "pull"
  /\ faults < MaxFaults
  /\ faults' = faults + 1
  /\ IF cursor[d] = 0
     THEN pass' = [pass EXCEPT ![d] = RoundDone(@)] /\ UNCHANGED cursor
     ELSE cursor' = [cursor EXCEPT ![d] = 0] /\ UNCHANGED pass
  /\ UNCHANGED <<row, clock, out, got, remote, writes>>

ApplyPage(d) ==
  /\ pass[d].pc = "page"
  /\ ApplyEnvelopes(d, got[d].held)
  /\ pass' = [pass EXCEPT ![d].pc = "cursor"]
  /\ got' = [got EXCEPT ![d].held = Nothing]
  /\ UNCHANGED <<cursor, out, remote, writes, faults>>

\* The cursor moves in a transaction of its own, once the page is in.
MoveCursor(d) ==
  /\ pass[d].pc = "cursor"
  /\ cursor' = [cursor EXCEPT ![d] = IF got[d].upto > @ THEN got[d].upto ELSE @]
  /\ pass' = [pass EXCEPT ![d] = IF got[d].more /\ got[d].upto > cursor[d]
                                 THEN [@ EXCEPT !.pc = "pull"]
                                 ELSE RoundDone(@)]
  /\ got' = [got EXCEPT ![d] = NoAnswer]
  /\ UNCHANGED <<row, clock, out, remote, writes, faults>>

\* A lost connection, a locked vault or a crash ends the pass between two of
\* its transactions.  A request that was sent may still be on its way.
Abort(d) ==
  /\ pass[d].pc # "idle"
  /\ faults < MaxFaults
  /\ faults' = faults + 1
  /\ pass' = [pass EXCEPT ![d] = Idle]
  /\ out' = [out EXCEPT ![d] = Nothing]
  /\ got' = [got EXCEPT ![d] = NoAnswer]
  /\ IF pass[d].pc = "sent"
     THEN late' \in {late, late \cup {[from |-> d, batch |-> out[d]]}}
     ELSE UNCHANGED late
  /\ UNCHANGED <<store, server, serverSeq, writes>>

\* The server handles a request nobody waits for any more.
HandleLate(m) ==
  /\ m \in late
  /\ \E order \in Orders(m.batch) : ServerPush(m.batch, order)
  /\ late' = late \ {m}
  /\ UNCHANGED <<store, engine, writes, faults>>

\* A step of d's pass that nothing but the device and the server decides.
PassStep(d) ==
  \/ Start(d) \/ Send(d) \/ NothingToSend(d) \/ Handle(d) \/ MarkPushed(d)
  \/ MergeConflicts(d) \/ PullPage(d) \/ PullEmpty(d) \/ ApplyPage(d) \/ MoveCursor(d)

UserStep(d) ==
  \E r \in Record : Create(d, r) \/ Edit(d, r) \/ Upsert(d, r) \/ Delete(d, r)

Next ==
  \/ \E d \in Device : UserStep(d)
  \/ \E d \in Device : PassStep(d)
  \/ \E d \in Device : RefuseApart(d) \/ PullReset(d) \/ Abort(d)
  \/ \E m \in late : HandleLate(m)

Spec == Init /\ [][Next]_vars

\* A device syncs again and again (the worker's timer and wake-ups), and a
\* request that was answered is worked through.
FairSpec == Spec /\ \A d \in Device : WF_vars(PassStep(d))

------------------------------------------------------------------------------
(* Properties                                                               *)

\* A device that has nothing waiting for the server and has moved its cursor
\* past everything the server holds agrees with the server on every record: it
\* holds the very same version, or never had what the server holds a tombstone
\* of.  So do any two such devices.  The code relies on base_seq, the pushed
\* timestamp in mark_pushed and the clock's catching up for this; nothing in
\* it compares the two sides again.
Settled(d) == /\ cursor[d] = serverSeq
              /\ \A r \in Record : ~row[d][r].dirty

Agrees(d, r) == \/ Ver(row[d][r]) = Ver(server[r])
                \/ row[d][r] = NoRow /\ server[r].deleted

SettledDevicesAgree ==
  \A d \in Device : Settled(d) => \A r \in Record : Agrees(d, r)

\* A local edit stops waiting only when the server holds it or something the
\* conflict rule puts above it: no edit is dropped, whatever was in flight when
\* it was made (mark_pushed, apply_one).
NoEditIsLost ==
  [][\A d \in Device : \A r \in Record :
       row[d][r].dirty /\ ~row'[d][r].dirty =>
         AtMost(Ver(row[d][r]), Ver(server[r]))]_vars

\* The devices and the server are a last-writer-wins map: no step of any of
\* them, late or repeated requests included, moves a record back in the order
\* of the conflict rule (merge.rs).
Lww == INSTANCE LwwMap WITH
  replica <- [d \in Device |-> [r \in Record |-> Ver(row[d][r])]],
  master <- [r \in Record |-> Ver(server[r])]

IsLwwMap == Lww!Spec

\* Once the user stops writing and the network works, every device ends up
\* settled, and stays so (sync_once: conflicts are merged and offered again).
EventuallySettled == <>[](\A d \in Device : Settled(d))

==============================================================================
