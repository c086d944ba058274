--------------------------- MODULE KnownHostsProofs ---------------------------
(***************************************************************************)
(* Proofs about KnownHosts, for any number of devices, ids and writes.      *)
(***************************************************************************)
EXTENDS KnownHosts, TLAPS

------------------------------------------------------------------------------
(* The inductive invariant                                                  *)

Row    == [id : Id \cup {NoId}, hlc : Hlc(Nat), deleted : BOOLEAN, dirty : BOOLEAN, base : Nat]
Record == [hlc : Hlc(Nat), deleted : BOOLEAN, seq : Nat]

Typed ==
  /\ slot \in [Device -> Row] /\ clock \in [Device -> Time] /\ cursor \in [Device -> Nat]
  /\ server \in [Id -> Record] /\ serverSeq \in Nat
  /\ forgot \in BOOLEAN /\ writes \in Nat
  /\ \A d \in Device : slot[d].id = NoId => slot[d] = NoRow

\* The order of timestamps.
NotAfter(a, b) == ~HlcLess(b, a)

\* A device's clock is not behind the row it holds, so its next write is newer.
ClockAhead == \A d \in Device : ~Before(clock[d], slot[d].hlc)

\* Sequence numbers name what the server took.
Numbered ==
  /\ \A i \in Id : server[i].seq <= serverSeq
  /\ \A d \in Device : cursor[d] <= serverSeq /\ slot[d].base <= serverSeq
  /\ \A i, j \in Id : server[i].seq = server[j].seq /\ server[i].seq # 0 => i = j

\* Nobody has forgotten a key: there are no tombstones.
Alive == (\A d \in Device : ~slot[d].deleted) /\ (\A i \in Id : ~server[i].deleted)

\* A row based on the server's record is not older than it ...
Based ==
  \A d \in Device : slot[d].id \in Id =>
    (server[slot[d].id].seq # 0 /\ slot[d].base = server[slot[d].id].seq
       => NotAfter(server[slot[d].id].hlc, slot[d].hlc))

\* ... and the server's record is not older than a row with nothing to send.
Sent ==
  \A d \in Device : slot[d].id \in Id /\ ~slot[d].dirty =>
    server[slot[d].id].seq # 0 /\ NotAfter(slot[d].hlc, server[slot[d].id].hlc)

\* What a device has pulled is not newer than the row it holds.
Pulled ==
  \A d \in Device, i \in Id : server[i].seq # 0 /\ server[i].seq <= cursor[d] =>
    slot[d] # NoRow /\ NotAfter(server[i].hlc, slot[d].hlc)

Inv ==
  /\ Typed /\ ClockAhead /\ Numbered
  /\ ~forgot => Alive /\ Based /\ Sent /\ Pulled

------------------------------------------------------------------------------
(* Timestamps and rows                                                      *)

\* impl Ord for Hlc is a total order.
LEMMA HlcOrder ==
  ASSUME NEW a \in Hlc(Nat), NEW b \in Hlc(Nat), NEW c \in Hlc(Nat)
  PROVE  /\ NotAfter(a, a)
         /\ NotAfter(a, b) \/ NotAfter(b, a)
         /\ NotAfter(a, b) /\ NotAfter(b, a) => a = b
         /\ NotAfter(a, b) /\ NotAfter(b, c) => NotAfter(a, c)
<1>1. \A x \in Hlc(Nat) : x.wall \in Nat /\ x.counter \in Nat /\ x.device \in Nat
  BY ClockAssumption DEF Hlc
<1>2. a.wall = b.wall /\ a.counter = b.counter /\ a.device = b.device => a = b BY DEF Hlc
<1> QED BY <1>1, <1>2 DEF NotAfter, HlcLess, Before

\* What is not there is of its type.
LEMMA NothingTyped == NoRow \in Row /\ NoRecord \in Record /\ HlcZero \in Hlc(Nat)
BY ClockAssumption DEF NoRow, NoRecord, HlcZero, Row, Record, Hlc

\* A record the device takes.
LEMMA TakenRow ==
  ASSUME NEW i \in Id, NEW env \in Record
  PROVE  /\ Taken(i, env) \in Row /\ Taken(i, env).id = i /\ Taken(i, env).hlc = env.hlc
         /\ Taken(i, env).deleted = env.deleted /\ ~Taken(i, env).dirty /\ Taken(i, env).base = env.seq
BY DEF Taken, Row, Record

\* A version of a row or a record is one that resolve can compare.
LEMMA Versions ==
  ASSUME NEW x \in Row \cup Record
  PROVE  Ver(x) \in Version(Nat) /\ Ver(x).hlc = x.hlc /\ Ver(x).deleted = x.deleted
BY DEF Row, Record, Ver, Version

\* apply_one: what the slot holds after a record arrived: what it held, with at most
\* another base, or the record.
LEMMA AppliedRow ==
  ASSUME NEW have \in Row, NEW i \in Id, NEW env \in Record
  PROVE  LET a == Applied(have, i, env) IN
         /\ a \in Row
         /\ \/ /\ a.hlc = have.hlc /\ a.id = have.id /\ a.deleted = have.deleted
            \/ a = Taken(i, env)
<1> DEFINE r == Resolve(Ver(have), Ver(env))
<1>1. r \in {"Identical", "Local", "Remote"}
  <2>1. Ver(have).deleted \in BOOLEAN /\ Ver(env).deleted \in BOOLEAN BY Versions DEF Row, Record
  <2> QED BY <2>1 DEF Resolve
<1>2. env.seq \in Nat BY DEF Record
<1>3. InsertRecord(have, i, env) \in {have, Taken(i, env)} BY DEF InsertRecord
<1>4. env.deleted \in BOOLEAN BY DEF Record
<1> HIDE DEF r
<1>5. CASE have.id # i
  <2>1. Applied(have, i, env) \in {have, Taken(i, env)} BY <1>3, <1>4, <1>5 DEF Applied
  <2> QED BY <2>1, TakenRow
<1>6. CASE have.id = i /\ r = "Identical"
  <2>1. Applied(have, i, env) = [have EXCEPT !.dirty = FALSE, !.base = env.seq] BY <1>6 DEF Applied, r
  <2> QED BY <1>2, <2>1 DEF Row
<1>7. CASE have.id = i /\ r = "Local"
  <2>1. Applied(have, i, env) = [have EXCEPT !.base = env.seq] BY <1>7 DEF Applied, r
  <2> QED BY <1>2, <2>1 DEF Row
<1>8. CASE have.id = i /\ r = "Remote"
  <2>1. Applied(have, i, env) \in {have, Taken(i, env)} BY <1>3, <1>8 DEF Applied, r
  <2> QED BY <2>1, TakenRow
<1> QED BY <1>1, <1>5, <1>6, <1>7, <1>8

\* apply_one without tombstones: the slot holds the newer of the two; it has
\* nothing to send if it took the record; it is based on the record if it is the
\* same one.
LEMMA AppliedNewer ==
  ASSUME NEW have \in Row, NEW i \in Id, NEW env \in Record, ~have.deleted, ~env.deleted,
         have.id = NoId => have = NoRow
  PROVE  LET a == Applied(have, i, env) IN
         /\ a \in Row /\ ~a.deleted /\ a.id \in Id
         /\ NotAfter(have.hlc, a.hlc) /\ NotAfter(env.hlc, a.hlc)
         /\ \/ a = have /\ have.id # i
            \/ a = Taken(i, env)
            \/ /\ have.id = i /\ a.id = i /\ a.hlc = have.hlc /\ a.base = env.seq
               /\ a.hlc = env.hlc \/ (a.dirty = have.dirty /\ HlcLess(env.hlc, have.hlc))
<1> DEFINE r == Resolve(Ver(have), Ver(env))
<1>1. have.hlc \in Hlc(Nat) /\ env.hlc \in Hlc(Nat) /\ env.seq \in Nat BY DEF Row, Record
<1>2. \/ r = "Identical" /\ have.hlc = env.hlc
      \/ r = "Local" /\ HlcLess(env.hlc, have.hlc)
      \/ r = "Remote" /\ ~HlcLess(env.hlc, have.hlc)
  <2>1. /\ Ver(have).deleted = FALSE /\ Ver(env).deleted = FALSE
        /\ Ver(have).hlc = have.hlc /\ Ver(env).hlc = env.hlc
    BY Versions DEF Row, Record
  <2> QED BY <2>1 DEF Resolve
<1>3. /\ Taken(i, env) \in Row /\ Taken(i, env).id = i /\ Taken(i, env).hlc = env.hlc /\ ~Taken(i, env).deleted
  BY TakenRow
<1>4. NotAfter(have.hlc, have.hlc) /\ NotAfter(env.hlc, env.hlc)
      /\ (NotAfter(have.hlc, env.hlc) \/ NotAfter(env.hlc, have.hlc))
  BY <1>1, HlcOrder
<1>5. have.id \in Id \cup {NoId} BY DEF Row
<1>6. CASE have.id # i
  <2>1. Applied(have, i, env) = InsertRecord(have, i, env) BY <1>6 DEF Applied
  <2>2. CASE have # NoRow /\ HlcLess(env.hlc, have.hlc)
    <3>1. Applied(have, i, env) = have BY <1>6, <2>1, <2>2 DEF InsertRecord
    <3>2. NotAfter(env.hlc, have.hlc) BY <1>4, <2>2 DEF NotAfter
    <3> QED BY <1>4, <1>5, <1>6, <2>2, <3>1, <3>2
  <2>3. CASE have # NoRow /\ ~HlcLess(env.hlc, have.hlc)
    <3>1. Applied(have, i, env) = Taken(i, env) BY <1>6, <2>1, <2>3 DEF InsertRecord
    <3> QED BY <1>3, <1>4, <2>3, <3>1 DEF NotAfter
  <2>4. CASE have = NoRow
    <3>1. Applied(have, i, env) = Taken(i, env) BY <1>6, <2>1, <2>4 DEF InsertRecord
    <3>2. have.hlc = HlcZero BY <2>4 DEF NoRow
    <3>3. NotAfter(HlcZero, env.hlc)
      <4>1. env.hlc.wall \in Nat /\ env.hlc.counter \in Nat /\ env.hlc.device \in Nat
        BY <1>1, ClockAssumption DEF Hlc
      <4> QED BY <4>1 DEF NotAfter, HlcLess, Before, HlcZero
    <3> QED BY <1>3, <1>4, <3>1, <3>2, <3>3
  <2> QED BY <2>2, <2>3, <2>4
<1>7. CASE have.id = i /\ r = "Identical"
  <2>1. Applied(have, i, env) = [have EXCEPT !.dirty = FALSE, !.base = env.seq] BY <1>7 DEF Applied
  <2>2. LET a == Applied(have, i, env) IN
        a \in Row /\ ~a.deleted /\ a.id = i /\ a.hlc = have.hlc /\ a.base = env.seq
    BY <1>1, <1>7, <2>1 DEF Row
  <2> QED BY <1>2, <1>4, <1>7, <2>2
<1>8. CASE have.id = i /\ r = "Local"
  <2>1. Applied(have, i, env) = [have EXCEPT !.base = env.seq] BY <1>8 DEF Applied
  <2>2. LET a == Applied(have, i, env) IN
        a \in Row /\ ~a.deleted /\ a.id = i /\ a.hlc = have.hlc /\ a.base = env.seq /\ a.dirty = have.dirty
    BY <1>1, <1>8, <2>1 DEF Row
  <2>3. NotAfter(env.hlc, have.hlc) BY <1>2, <1>4, <1>8 DEF NotAfter
  <2> QED BY <1>2, <1>4, <1>8, <2>2, <2>3
<1>9. CASE have.id = i /\ r = "Remote"
  <2>1. Applied(have, i, env) = Taken(i, env) BY <1>9 DEF Applied, InsertRecord
  <2> QED BY <1>2, <1>3, <1>4, <1>9, <2>1 DEF NotAfter
<1> QED BY <1>2, <1>6, <1>7, <1>8, <1>9

\* Applying a record leaves the base, or takes the record's.
LEMMA AppliedBase ==
  ASSUME NEW have \in Row, NEW i \in Id, NEW env \in Record
  PROVE  Applied(have, i, env).base \in {have.base, env.seq}
<1> DEFINE r == Resolve(Ver(have), Ver(env))
<1>1. r \in {"Identical", "Local", "Remote"}
  <2>1. Ver(have).deleted \in BOOLEAN /\ Ver(env).deleted \in BOOLEAN BY Versions DEF Row, Record
  <2> QED BY <2>1 DEF Resolve
<1>2. env.deleted \in BOOLEAN BY DEF Record
<1>3. InsertRecord(have, i, env) \in {have, Taken(i, env)} BY DEF InsertRecord
<1>4. Taken(i, env).base = env.seq BY TakenRow
<1> HIDE DEF r
<1>5. CASE have.id # i BY <1>2, <1>3, <1>4, <1>5 DEF Applied
<1>6. CASE have.id = i /\ r = "Identical"
  <2>1. Applied(have, i, env) = [have EXCEPT !.dirty = FALSE, !.base = env.seq] BY <1>6 DEF Applied, r
  <2> QED BY <2>1 DEF Row
<1>7. CASE have.id = i /\ r = "Local"
  <2>1. Applied(have, i, env) = [have EXCEPT !.base = env.seq] BY <1>7 DEF Applied, r
  <2> QED BY <2>1 DEF Row
<1>8. CASE have.id = i /\ r = "Remote" BY <1>3, <1>4, <1>8 DEF Applied, r
<1> QED BY <1>1, <1>5, <1>6, <1>7, <1>8

\* A row gives way to an older record only if that is a tombstone of the same record.
LEMMA AppliedOlder ==
  ASSUME NEW have \in Row, NEW i \in Id, NEW env \in Record, have # NoRow,
         HlcLess(Applied(have, i, env).hlc, have.hlc)
  PROVE  Applied(have, i, env).deleted /\ Applied(have, i, env).id = have.id
<1> DEFINE a == Applied(have, i, env)
<1>1. have.hlc \in Hlc(Nat) /\ env.hlc \in Hlc(Nat) /\ have.deleted \in BOOLEAN /\ env.deleted \in BOOLEAN
  BY DEF Row, Record
<1>2. ~HlcLess(have.hlc, have.hlc) BY <1>1, HlcOrder DEF NotAfter
<1>3. a = Taken(i, env) BY <1>2, AppliedRow
<1>4. HlcLess(env.hlc, have.hlc) BY <1>3, TakenRow
<1>5. have.id = i
  <2> SUFFICES ASSUME have.id # i PROVE FALSE OBVIOUS
  <2>1. InsertRecord(have, i, env) = have BY <1>4 DEF InsertRecord
  <2>2. a = have BY <1>1, <2>1 DEF Applied
  <2> QED BY <1>2, <2>2
<1>6. env.deleted
  <2> SUFFICES ASSUME ~env.deleted PROVE FALSE OBVIOUS
  <2>1. InsertRecord(have, i, env) = Taken(i, env) BY <1>5 DEF InsertRecord
  <2>2. Resolve(Ver(have), Ver(env)) = "Local"
    <3>1. Ver(have).deleted = have.deleted /\ Ver(env).deleted = FALSE /\ Ver(have).hlc = have.hlc /\ Ver(env).hlc = env.hlc
      BY Versions
    <3> QED BY <1>1, <1>2, <1>4, <3>1 DEF Resolve
  <2>3. a = [have EXCEPT !.base = env.seq] BY <1>5, <2>2 DEF Applied
  <2>4. a.hlc = have.hlc BY <2>3 DEF Row
  <2> QED BY <1>2, <2>4
<1> QED BY <1>3, <1>5, <1>6, TakenRow

------------------------------------------------------------------------------
(* Every step keeps the invariant                                           *)

\* A local write is stamped after everything the device's clock has been through.
LEMMA TickRises ==
  ASSUME NEW t \in Time, NEW now \in Nat
  PROVE  Tick(t, now) \in Time /\ Before(t, Tick(t, now))
  BY ClockAssumption DEF Tick, Step, Time, Before

\* Catching up with a timestamp that is within the drift goes past it.
LEMMA HeardRises ==
  ASSUME NEW t \in Time, NEW h \in Hlc(Nat), NEW now \in Nat, h.wall <= now + MaxDrift
  PROVE  LET m == MergeTime(t, h, now)
         IN  m \in Time /\ Before(t, m) /\ Before(h, m)
<1>1. /\ t.wall \in Nat /\ t.counter \in 0 .. MaxCounter
      /\ h.wall \in Nat /\ h.counter \in 0 .. MaxCounter
  BY DEF Time, Hlc
<1>2. Smaller(h.wall, now + MaxDrift) = h.wall BY DEF Smaller
<1>3. PICK top \in Nat : /\ top = Larger(Larger(now, t.wall), h.wall)
                         /\ top >= t.wall /\ top >= h.wall
  BY <1>1 DEF Larger
<1>4. PICK c \in 0 .. MaxCounter : /\ c = Larger(t.counter, h.counter)
                                   /\ c >= t.counter /\ c >= h.counter
  BY <1>1 DEF Larger
<1>5. MergeTime(t, h, now) =
        CASE top = t.wall /\ top = h.wall -> Step(top, c)
          [] top = t.wall /\ top # h.wall -> Step(top, t.counter)
          [] top # t.wall /\ top = h.wall -> Step(top, h.counter)
          [] OTHER -> [wall |-> top, counter |-> 0]
  BY <1>2, <1>3, <1>4 DEF MergeTime
<1> QED BY <1>1, <1>3, <1>4, <1>5, ClockAssumption DEF Step, Time, Before

\* A device's next write is newer than the row it holds: its clock never lags
\* behind the row.
LEMMA WriteRises ==
  ASSUME Typed, ClockAhead, NEW d \in Device, NEW now \in Reading
  PROVE  LET t == Tick(clock[d], now) IN
         /\ t \in Time /\ Stamp(t, d) \in Hlc(Nat)
         /\ ~Before(t, Stamp(t, d)) /\ HlcLess(slot[d].hlc, Stamp(t, d))
<1> DEFINE t == Tick(clock[d], now)
<1>1. clock[d] \in Time /\ now \in Nat /\ d \in Nat BY KnownHostsAssumption DEF Typed
<1>2. t \in Time /\ Before(clock[d], t) BY <1>1, TickRises
<1> HIDE DEF t
<1>3. Stamp(t, d) \in Hlc(Nat) /\ Stamp(t, d).wall = t.wall /\ Stamp(t, d).counter = t.counter
  BY <1>1, <1>2 DEF Stamp, Hlc, Time
<1>4. /\ t.wall \in Nat /\ t.counter \in Nat /\ clock[d].wall \in Nat /\ clock[d].counter \in Nat
      /\ slot[d].hlc.wall \in Nat /\ slot[d].hlc.counter \in Nat
  BY <1>1, <1>2, ClockAssumption DEF Typed, Time, Row, Hlc
<1>5. ~Before(clock[d], slot[d].hlc) BY DEF ClockAhead
<1>6. ~Before(t, Stamp(t, d)) /\ HlcLess(slot[d].hlc, Stamp(t, d))
  BY <1>2, <1>3, <1>4, <1>5 DEF Before, HlcLess
<1> QED BY <1>2, <1>3, <1>6 DEF t

\* trust_host_key and forget_host_key write the row of one device, newer than it was.
LEMMA WriteFacts ==
  ASSUME Typed, ClockAhead, NEW d \in Device, NEW id \in Id, NEW deleted \in BOOLEAN, LocalWrite(d, id, deleted)
  PROVE  /\ clock' \in [Device -> Time] /\ slot' \in [Device -> Row]
         /\ \A e \in Device : e # d => clock'[e] = clock[e] /\ slot'[e] = slot[e]
         /\ slot'[d].id = id /\ slot'[d].deleted = deleted /\ slot'[d].dirty /\ slot'[d].base = slot[d].base
         /\ HlcLess(slot[d].hlc, slot'[d].hlc) /\ ~Before(clock'[d], slot'[d].hlc)
         /\ writes' \in Nat /\ UNCHANGED <<cursor, server, serverSeq>>
<1>1. PICK now \in Reading :
         /\ clock' = [clock EXCEPT ![d] = Tick(clock[d], now)]
         /\ slot' = [slot EXCEPT ![d] = [id |-> id, hlc |-> Stamp(Tick(clock[d], now), d), deleted |-> deleted,
                                         dirty |-> TRUE, base |-> @.base]]
  BY DEF LocalWrite
<1> DEFINE t == Tick(clock[d], now)
           row == [id |-> id, hlc |-> Stamp(t, d), deleted |-> deleted, dirty |-> TRUE, base |-> slot[d].base]
<1>2. /\ t \in Time /\ Stamp(t, d) \in Hlc(Nat)
      /\ ~Before(t, Stamp(t, d)) /\ HlcLess(slot[d].hlc, Stamp(t, d))
  BY WriteRises
<1>3. clock' = [clock EXCEPT ![d] = t] /\ slot' = [slot EXCEPT ![d] = row] BY <1>1
<1> HIDE DEF t
<1>4. row \in Row /\ row.id = id /\ row.deleted = deleted /\ row.dirty /\ row.base = slot[d].base /\ row.hlc = Stamp(t, d)
  BY <1>2 DEF Row, Typed
<1> HIDE DEF row
<1>5. writes' \in Nat /\ UNCHANGED <<cursor, server, serverSeq>> BY DEF LocalWrite, Typed
<1> QED BY <1>2, <1>3, <1>4, <1>5 DEF Typed

\* Trusting or forgetting a key keeps the invariant.
LEMMA WriteInv ==
  ASSUME Inv, NEW d \in Device, NEW id \in Id, NEW deleted \in BOOLEAN, LocalWrite(d, id, deleted),
         slot[d] = NoRow \/ id = slot[d].id, forgot' \in BOOLEAN, ~forgot' => ~forgot /\ ~deleted
  PROVE  Inv'
<1>1. Typed /\ ClockAhead /\ Numbered BY DEF Inv
<1>2. /\ clock' \in [Device -> Time] /\ slot' \in [Device -> Row]
      /\ \A e \in Device : e # d => clock'[e] = clock[e] /\ slot'[e] = slot[e]
      /\ slot'[d].id = id /\ slot'[d].deleted = deleted /\ slot'[d].dirty /\ slot'[d].base = slot[d].base
      /\ HlcLess(slot[d].hlc, slot'[d].hlc) /\ ~Before(clock'[d], slot'[d].hlc)
      /\ writes' \in Nat /\ UNCHANGED <<cursor, server, serverSeq>>
  BY <1>1, WriteFacts
<1>3. id # NoId BY KnownHostsAssumption
<1>4. Typed' BY <1>1, <1>2, <1>3 DEF Typed
<1>5. ClockAhead' BY <1>1, <1>2 DEF ClockAhead
<1>6. Numbered'
  <2>1. \A e \in Device : slot'[e].base = slot[e].base BY <1>2
  <2> QED BY <1>1, <1>2, <2>1 DEF Numbered
<1>7. ASSUME ~forgot' PROVE (Alive /\ Based /\ Sent /\ Pulled)'
  <2>1. Alive /\ Based /\ Sent /\ Pulled /\ ~deleted BY <1>7 DEF Inv
  <2>2. \A e \in Device : slot[e].hlc \in Hlc(Nat) /\ slot'[e].hlc \in Hlc(Nat) BY <1>1, <1>2 DEF Typed, Row
  <2>3. \A i \in Id : server[i].hlc \in Hlc(Nat) /\ server[i].seq \in Nat BY <1>1 DEF Typed, Record
  <2>4. NotAfter(slot[d].hlc, slot'[d].hlc)
    BY <1>2, <2>2, HlcOrder DEF NotAfter
  <2>5. Alive' BY <1>2, <2>1 DEF Alive
  <2>6. Based'
    <3> SUFFICES ASSUME NEW e \in Device, slot'[e].id \in Id, server[slot'[e].id].seq # 0,
                        slot'[e].base = server[slot'[e].id].seq
                 PROVE  NotAfter(server[slot'[e].id].hlc, slot'[e].hlc)
      BY <1>2 DEF Based
    <3>1. CASE e # d BY <1>2, <2>1, <3>1 DEF Based
    <3>2. CASE e = d
      <4>1. CASE slot[d] = NoRow
        <5>1. slot[d].base = 0 BY <4>1 DEF NoRow
        <5> QED BY <1>2, <3>2, <5>1
      <4>2. CASE id = slot[d].id
        <5>1. NotAfter(server[id].hlc, slot[d].hlc) BY <1>2, <2>1, <3>2, <4>2 DEF Based
        <5> QED BY <1>2, <2>2, <2>3, <2>4, <3>2, <5>1, HlcOrder
      <4> QED BY <4>1, <4>2
    <3> QED BY <3>1, <3>2
  <2>7. Sent' BY <1>2, <2>1 DEF Sent
  <2>8. Pulled'
    <3> SUFFICES ASSUME NEW e \in Device, NEW i \in Id, server[i].seq # 0, server[i].seq <= cursor[e]
                 PROVE  slot'[e] # NoRow /\ NotAfter(server[i].hlc, slot'[e].hlc)
      BY <1>2 DEF Pulled
    <3>1. slot[e] # NoRow /\ NotAfter(server[i].hlc, slot[e].hlc) BY <2>1 DEF Pulled
    <3>2. CASE e # d BY <1>2, <3>1, <3>2
    <3>3. CASE e = d
      <4>1. slot'[e] # NoRow BY <1>2, <1>3, <3>3 DEF NoRow
      <4> QED BY <2>2, <2>3, <2>4, <3>1, <3>3, <4>1, HlcOrder
    <3> QED BY <3>2, <3>3
  <2> QED BY <2>5, <2>6, <2>7, <2>8
<1> QED BY <1>4, <1>5, <1>6, <1>7 DEF Inv

\* apply_envelopes: the row after a record of the server arrived, and the clock that
\* caught up with it.
LEMMA ApplyFacts ==
  ASSUME Typed, ClockAhead, ClocksWithinDrift, NEW d \in Device, NEW i \in Id, Apply(d, i, server[i])
  PROVE  /\ slot' \in [Device -> Row] /\ clock' \in [Device -> Time]
         /\ \A e \in Device : e # d => clock'[e] = clock[e] /\ slot'[e] = slot[e]
         /\ slot'[d] = Applied(slot[d], i, server[i])
         /\ slot'[d].id = NoId => slot'[d] = NoRow
         /\ ClockAhead'
<1> DEFINE env == server[i]
           a == Applied(slot[d], i, env)
<1>1. env \in Record /\ slot[d] \in Row /\ env.hlc \in Hlc(Nat) /\ clock[d] \in Time BY DEF Typed, Record
<1>2. /\ a \in Row
      /\ (a.hlc = slot[d].hlc /\ a.id = slot[d].id /\ a.deleted = slot[d].deleted) \/ a = Taken(i, env)
  BY <1>1, AppliedRow
<1>3. slot' = [slot EXCEPT ![d] = a] BY DEF Apply
<1>4. PICK now \in Reading : env.hlc.wall <= now + MaxDrift /\ clock' = [clock EXCEPT ![d] = MergeTime(clock[d], env.hlc, now)]
  BY DEF Apply
<1>5. now \in Nat BY KnownHostsAssumption
<1>6. PICK t \in Time : t = MergeTime(clock[d], env.hlc, now) /\ Before(clock[d], t) /\ Before(env.hlc, t)
  BY <1>1, <1>4, <1>5, HeardRises
<1>7. clock' = [clock EXCEPT ![d] = t] BY <1>4, <1>6
<1>8. a.id = NoId => a = NoRow
  <2> SUFFICES ASSUME a.id = NoId PROVE a = NoRow OBVIOUS
  <2>1. a # Taken(i, env) BY <1>1, TakenRow, KnownHostsAssumption
  <2>2. slot[d] = NoRow BY <1>2, <2>1 DEF Typed
  <2>3. slot[d].id # i BY <1>2, <2>1, KnownHostsAssumption
  <2>4. env.deleted \in BOOLEAN BY <1>1 DEF Record
  <2>5. a \in {slot[d], Taken(i, env)} BY <2>3, <2>4 DEF Applied, InsertRecord
  <2> QED BY <2>1, <2>2, <2>5
<1>9. Taken(i, env).hlc = env.hlc BY <1>1, TakenRow
<1> HIDE DEF a
<1>10. slot' \in [Device -> Row] /\ clock' \in [Device -> Time] /\ slot'[d] = a /\ clock'[d] = t
       /\ \A e \in Device : e # d => clock'[e] = clock[e] /\ slot'[e] = slot[e]
  BY <1>2, <1>3, <1>7 DEF Typed
<1>11. ClockAhead'
  <2> SUFFICES ASSUME NEW e \in Device PROVE ~Before(clock'[e], slot'[e].hlc) BY DEF ClockAhead
  <2>1. CASE e # d BY <1>10, <2>1 DEF ClockAhead
  <2>2. CASE e = d
    <3>1. a.hlc = slot[d].hlc \/ a.hlc = env.hlc BY <1>2, <1>9
    <3>2. /\ t.wall \in Nat /\ t.counter \in Nat /\ clock[d].wall \in Nat /\ clock[d].counter \in Nat
          /\ slot[d].hlc.wall \in Nat /\ slot[d].hlc.counter \in Nat
          /\ env.hlc.wall \in Nat /\ env.hlc.counter \in Nat
      BY <1>1, ClockAssumption DEF Time, Hlc, Row
    <3>3. ~Before(clock[d], slot[d].hlc) BY DEF ClockAhead
    <3> QED BY <1>6, <1>10, <2>2, <3>1, <3>2, <3>3 DEF Before
  <2> QED BY <2>1, <2>2
<1> QED BY <1>8, <1>10, <1>11 DEF a

\* A record that arrives keeps the invariant: in an answer to a push, which leaves the
\* cursor alone, or in a pull, which moves the cursor to it.
LEMMA ApplyInv ==
  ASSUME Inv, ClocksWithinDrift, NEW d \in Device, NEW i \in Id, server[i].seq # 0, Apply(d, i, server[i]),
         UNCHANGED <<server, serverSeq, forgot, writes>>,
         \/ UNCHANGED cursor
         \/ /\ cursor' = [cursor EXCEPT ![d] = server[i].seq]
            /\ \A j \in Id : server[j].seq > cursor[d] => server[i].seq <= server[j].seq
  PROVE  Inv'
<1> DEFINE a == Applied(slot[d], i, server[i])
<1>1. Typed /\ ClockAhead /\ Numbered BY DEF Inv
<1>2. /\ slot' \in [Device -> Row] /\ clock' \in [Device -> Time]
      /\ \A e \in Device : e # d => clock'[e] = clock[e] /\ slot'[e] = slot[e]
      /\ slot'[d] = a
      /\ slot'[d].id = NoId => slot'[d] = NoRow
      /\ ClockAhead'
  BY <1>1, ApplyFacts
<1>3. server[i] \in Record /\ slot[d] \in Row /\ server[i].seq \in Nat BY <1>1 DEF Typed, Record
<1>4. cursor' \in [Device -> Nat] BY <1>1, <1>3 DEF Typed
<1>5. Typed' BY <1>1, <1>2, <1>4 DEF Typed
<1>6. Numbered'
  <2>1. \A e \in Device : cursor[e] <= serverSeq /\ slot[e].base <= serverSeq BY <1>1 DEF Numbered
  <2>2. server[i].seq <= serverSeq BY <1>1 DEF Numbered
  <2>3. \A e \in Device : cursor'[e] <= serverSeq BY <1>1, <2>1, <2>2 DEF Typed
  <2>4. a.base \in {slot[d].base, server[i].seq} BY <1>3, AppliedBase
  <2>5. \A e \in Device : slot'[e].base <= serverSeq BY <1>2, <2>1, <2>2, <2>4
  <2> QED BY <1>1, <2>3, <2>5 DEF Numbered
<1>7. ASSUME ~forgot PROVE (Alive /\ Based /\ Sent /\ Pulled)'
  <2>1. Alive /\ Based /\ Sent /\ Pulled BY <1>7 DEF Inv
  <2>2. slot[d].id = NoId => slot[d] = NoRow BY <1>1 DEF Typed
  <2>3. ~slot[d].deleted /\ ~server[i].deleted BY <2>1 DEF Alive
  <2>4. /\ a \in Row /\ ~a.deleted /\ a.id \in Id
        /\ NotAfter(slot[d].hlc, a.hlc) /\ NotAfter(server[i].hlc, a.hlc)
        /\ \/ a = slot[d] /\ slot[d].id # i
           \/ a = Taken(i, server[i])
           \/ /\ slot[d].id = i /\ a.id = i /\ a.hlc = slot[d].hlc /\ a.base = server[i].seq
              /\ a.hlc = server[i].hlc \/ (a.dirty = slot[d].dirty /\ HlcLess(server[i].hlc, slot[d].hlc))
    BY <1>3, <2>2, <2>3, AppliedNewer
  <2>5. /\ Taken(i, server[i]).id = i /\ Taken(i, server[i]).hlc = server[i].hlc
        /\ Taken(i, server[i]).base = server[i].seq
    BY <1>3, TakenRow
  <2> HIDE DEF a
  <2>6. \A e \in Device : slot[e].hlc \in Hlc(Nat) BY <1>1 DEF Typed, Row
  <2>7. \A j \in Id : server[j].hlc \in Hlc(Nat) /\ server[j].seq \in Nat BY <1>1 DEF Typed, Record
  <2>8. a.hlc \in Hlc(Nat) BY <2>4 DEF Row
  <2>9. NotAfter(server[i].hlc, server[i].hlc) BY <2>7, HlcOrder
  <2>10. Alive' BY <1>2, <2>1, <2>4 DEF Alive
  <2>11. Based'
    <3> SUFFICES ASSUME NEW e \in Device, slot'[e].id \in Id, server[slot'[e].id].seq # 0,
                        slot'[e].base = server[slot'[e].id].seq
                 PROVE  NotAfter(server[slot'[e].id].hlc, slot'[e].hlc)
      BY DEF Based
    <3>1. CASE e # d BY <1>2, <2>1, <3>1 DEF Based
    <3>2. CASE e = d /\ a = slot[d] BY <1>2, <2>1, <3>2 DEF Based
    <3>3. CASE e = d /\ a # slot[d]
      <4>1. a.id = i BY <2>4, <2>5, <3>3
      <4> QED BY <1>2, <2>4, <3>3, <4>1
    <3> QED BY <3>1, <3>2, <3>3
  <2>12. Sent'
    <3> SUFFICES ASSUME NEW e \in Device, slot'[e].id \in Id, ~slot'[e].dirty
                 PROVE  server[slot'[e].id].seq # 0 /\ NotAfter(slot'[e].hlc, server[slot'[e].id].hlc)
      BY DEF Sent
    <3>1. CASE e # d BY <1>2, <2>1, <3>1 DEF Sent
    <3>2. CASE e = d /\ a = slot[d] BY <1>2, <2>1, <3>2 DEF Sent
    <3>3. CASE e = d /\ a.id = i /\ a.hlc = server[i].hlc BY <1>2, <2>9, <3>3
    <3>4. CASE /\ e = d /\ slot[d].id = i /\ a.dirty = slot[d].dirty /\ a.id = i
               /\ HlcLess(server[i].hlc, slot[d].hlc)
      <4>1. NotAfter(slot[d].hlc, server[i].hlc) BY <1>2, <2>1, <3>4 DEF Sent
      <4> QED BY <3>4, <4>1 DEF NotAfter
    <3> QED BY <2>4, <2>5, <3>1, <3>2, <3>3, <3>4
  <2>13. Pulled'
    <3> SUFFICES ASSUME NEW e \in Device, NEW j \in Id, server[j].seq # 0, server[j].seq <= cursor'[e]
                 PROVE  slot'[e] # NoRow /\ NotAfter(server[j].hlc, slot'[e].hlc)
      BY DEF Pulled
    <3>1. CASE e # d
      <4>1. cursor'[e] = cursor[e] BY <1>1, <3>1 DEF Typed
      <4> QED BY <1>2, <2>1, <3>1, <4>1 DEF Pulled
    <3>2. CASE e = d
      <4>1. slot'[e] # NoRow BY <1>2, <2>4, <3>2, KnownHostsAssumption DEF NoRow
      <4>2. server[j].seq <= cursor[d] \/ j = i
        <5>1. CASE UNCHANGED cursor BY <3>2, <5>1
        <5>2. CASE /\ cursor' = [cursor EXCEPT ![d] = server[i].seq]
                   /\ \A k \in Id : server[k].seq > cursor[d] => server[i].seq <= server[k].seq
          <6>1. cursor'[d] = server[i].seq /\ cursor[d] \in Nat BY <1>1, <5>2 DEF Typed
          <6>2. server[j].seq > cursor[d] => server[j].seq = server[i].seq BY <2>7, <3>2, <5>2, <6>1
          <6> QED BY <1>1, <2>7, <6>1, <6>2 DEF Numbered
        <5> QED BY <5>1, <5>2
      <4>3. CASE j = i BY <1>2, <2>4, <3>2, <4>1, <4>3
      <4>4. CASE server[j].seq <= cursor[d]
        <5>1. NotAfter(server[j].hlc, slot[d].hlc) BY <2>1, <4>4 DEF Pulled
        <5>2. NotAfter(server[j].hlc, a.hlc) BY <2>4, <2>6, <2>7, <2>8, <5>1, HlcOrder
        <5> QED BY <1>2, <3>2, <4>1, <5>2
      <4> QED BY <4>2, <4>3, <4>4
    <3> QED BY <3>1, <3>2
  <2> QED BY <2>10, <2>11, <2>12, <2>13
<1> QED BY <1>2, <1>5, <1>6, <1>7 DEF Inv

\* push_all, when the server takes the row: it becomes the newest the server holds of
\* that record, under a number no device has pulled yet.
LEMMA TakenInv ==
  ASSUME Inv, NEW d \in Device, Push(d), server[slot[d].id].seq \in {0, slot[d].base}
  PROVE  Inv'
<1> DEFINE i == slot[d].id
           env == [hlc |-> slot[d].hlc, deleted |-> slot[d].deleted, seq |-> serverSeq + 1]
           row == [slot[d] EXCEPT !.dirty = FALSE, !.base = serverSeq + 1]
<1>1. Typed /\ ClockAhead /\ Numbered BY DEF Inv
<1>2. slot[d] \in Row /\ slot[d].dirty /\ serverSeq \in Nat BY <1>1 DEF Typed, Push
<1>3. i \in Id /\ i # NoId
  <2>1. slot[d] # NoRow BY <1>2 DEF NoRow
  <2>2. slot[d].id # NoId BY <1>1, <2>1 DEF Typed
  <2> QED BY <1>2, <2>2 DEF Row
<1>4. /\ server' = [server EXCEPT ![i] = env] /\ serverSeq' = serverSeq + 1
      /\ slot' = [slot EXCEPT ![d].dirty = FALSE, ![d].base = serverSeq + 1]
      /\ UNCHANGED <<clock, cursor, used, forgot, writes>>
  BY DEF Push
<1>5. env \in Record /\ env.hlc = slot[d].hlc /\ env.deleted = slot[d].deleted /\ env.seq = serverSeq + 1
  BY <1>2 DEF Row, Record
<1>6. /\ row \in Row /\ row.id = i /\ row.hlc = slot[d].hlc /\ row.deleted = slot[d].deleted
      /\ ~row.dirty /\ row.base = serverSeq + 1
  <2>1. serverSeq + 1 \in Nat BY <1>2
  <2> HIDE DEF i
  <2>2. row \in Row BY <1>2, <2>1 DEF Row
  <2>3. row.id = i /\ row.hlc = slot[d].hlc /\ row.deleted = slot[d].deleted BY <1>2 DEF Row, i
  <2>4. row.dirty = FALSE /\ row.base = serverSeq + 1 BY <1>2 DEF Row
  <2> QED BY <2>2, <2>3, <2>4
<1>7. slot' = [slot EXCEPT ![d] = row] BY <1>1, <1>4 DEF Typed
<1>8. /\ \A e \in Device : e # d => slot'[e] = slot[e]
      /\ slot'[d] = row /\ slot' \in [Device -> Row]
  BY <1>1, <1>6, <1>7 DEF Typed
<1>9. PICK x \in Id : x = i BY <1>3
<1>10. /\ \A j \in Id : j # x => server'[j] = server[j]
       /\ server'[x] = env /\ server' \in [Id -> Record]
  BY <1>1, <1>4, <1>5, <1>9 DEF Typed
<1>11. server[x].seq \in {0, slot[d].base} BY <1>9
<1>12. slot[d].id = x /\ row.id = x BY <1>6, <1>9
<1> HIDE DEF i, env, row
<1>13. Typed'
  <2>1. serverSeq' \in Nat BY <1>2, <1>4
  <2>2. \A e \in Device : slot'[e].id = NoId => slot'[e] = NoRow
    BY <1>1, <1>8, <1>12, KnownHostsAssumption DEF Typed
  <2> QED BY <1>1, <1>4, <1>8, <1>10, <2>1, <2>2 DEF Typed
<1>14. ClockAhead' BY <1>1, <1>4, <1>6, <1>8 DEF ClockAhead
<1>15. \A j \in Id : server[j].seq \in Nat /\ server[j].seq <= serverSeq /\ server[j].hlc \in Hlc(Nat)
  BY <1>1 DEF Typed, Record, Numbered
<1>16. \A e \in Device : /\ cursor[e] \in Nat /\ cursor[e] <= serverSeq /\ slot[e].base \in Nat /\ slot[e].base <= serverSeq
                         /\ slot[e].hlc \in Hlc(Nat)
  BY <1>1 DEF Typed, Row, Numbered
<1>17. Numbered'
  <2>1. \A j \in Id : server'[j].seq <= serverSeq' BY <1>2, <1>4, <1>5, <1>10, <1>15
  <2>2. \A e \in Device : cursor'[e] <= serverSeq' /\ slot'[e].base <= serverSeq'
    BY <1>2, <1>4, <1>6, <1>8, <1>16
  <2>3. \A j, k \in Id : server'[j].seq = server'[k].seq /\ server'[j].seq # 0 => j = k
    BY <1>1, <1>2, <1>5, <1>10, <1>15 DEF Numbered
  <2> QED BY <2>1, <2>2, <2>3 DEF Numbered
<1>18. ASSUME ~forgot PROVE (Alive /\ Based /\ Sent /\ Pulled)'
  <2>1. Alive /\ Based /\ Sent /\ Pulled BY <1>18 DEF Inv
  <2>2. NotAfter(slot[d].hlc, slot[d].hlc) BY <1>16, HlcOrder
  <2>3. Alive' BY <1>5, <1>6, <1>8, <1>10, <2>1 DEF Alive
  <2>4. Based'
    <3> SUFFICES ASSUME NEW e \in Device, NEW j \in Id, j = slot'[e].id, server'[j].seq # 0,
                        slot'[e].base = server'[j].seq
                 PROVE  NotAfter(server'[j].hlc, slot'[e].hlc)
      BY DEF Based
    <3>1. CASE e = d BY <1>5, <1>6, <1>8, <1>10, <1>12, <2>2, <3>1
    <3>2. CASE e # d /\ j # x BY <1>8, <1>10, <2>1, <3>2 DEF Based
    <3>3. CASE e # d /\ j = x BY <1>2, <1>5, <1>8, <1>10, <1>16, <3>3
    <3> QED BY <3>1, <3>2, <3>3
  <2>5. Sent'
    <3> SUFFICES ASSUME NEW e \in Device, NEW j \in Id, j = slot'[e].id, ~slot'[e].dirty
                 PROVE  server'[j].seq # 0 /\ NotAfter(slot'[e].hlc, server'[j].hlc)
      BY DEF Sent
    <3>1. CASE e = d BY <1>2, <1>5, <1>6, <1>8, <1>10, <1>12, <2>2, <3>1
    <3>2. CASE e # d /\ j # x BY <1>8, <1>10, <2>1, <3>2 DEF Sent
    <3>3. CASE e # d /\ j = x
      <4>1. server[x].seq # 0 /\ NotAfter(slot[e].hlc, server[x].hlc) BY <1>8, <2>1, <3>3 DEF Sent
      <4>2. NotAfter(server[x].hlc, slot[d].hlc) BY <1>11, <1>12, <2>1, <4>1 DEF Based
      <4>3. NotAfter(slot[e].hlc, slot[d].hlc) BY <1>15, <1>16, <4>1, <4>2, HlcOrder
      <4> QED BY <1>2, <1>5, <1>8, <1>10, <3>3, <4>3
    <3> QED BY <3>1, <3>2, <3>3
  <2>6. Pulled'
    <3> SUFFICES ASSUME NEW e \in Device, NEW j \in Id, server'[j].seq # 0, server'[j].seq <= cursor[e]
                 PROVE  slot'[e] # NoRow /\ NotAfter(server'[j].hlc, slot'[e].hlc)
      BY <1>4 DEF Pulled
    <3>1. j # x BY <1>2, <1>5, <1>10, <1>16
    <3>2. slot[e] # NoRow /\ NotAfter(server'[j].hlc, slot[e].hlc) BY <1>10, <2>1, <3>1 DEF Pulled
    <3>3. CASE e = d
      <4>1. row # NoRow BY <1>12, KnownHostsAssumption DEF NoRow
      <4> QED BY <1>6, <1>8, <3>2, <3>3, <4>1
    <3>4. CASE e # d BY <1>8, <3>2, <3>4
    <3> QED BY <3>3, <3>4
  <2> QED BY <2>3, <2>4, <2>5, <2>6
<1> QED BY <1>4, <1>13, <1>14, <1>17, <1>18 DEF Inv

\* No device knows the machine, and the server holds nothing.
LEMMA InitInv == Init => Inv
<1> SUFFICES ASSUME Init PROVE Inv OBVIOUS
<1>1. \A d \in Device : slot[d] = NoRow /\ clock[d] = TimeZero /\ cursor[d] = 0 BY DEF Init
<1>2. \A i \in Id : server[i] = NoRecord BY DEF Init
<1>3. TimeZero \in Time BY ClockAssumption DEF TimeZero, Time
<1>4. Typed BY <1>1, <1>3, NothingTyped DEF Typed, Init
<1>5. ClockAhead BY <1>1, ClockAssumption DEF ClockAhead, NoRow, HlcZero, TimeZero, Before
<1>6. NoRow.base = 0 /\ NoRecord.seq = 0 /\ ~NoRow.deleted /\ ~NoRecord.deleted /\ NoRow.id \notin Id
  BY KnownHostsAssumption DEF NoRow, NoRecord
<1>7. Numbered BY <1>1, <1>2, <1>6 DEF Numbered, Init
<1>8. Alive BY <1>1, <1>2, <1>6 DEF Alive
<1>9. Based /\ Sent /\ Pulled BY <1>1, <1>2, <1>6 DEF Based, Sent, Pulled
<1> QED BY <1>4, <1>5, <1>7, <1>8, <1>9 DEF Inv

\* Every step keeps the invariant.
LEMMA NextInv == ClocksWithinDrift /\ Inv /\ [Next]_vars => Inv'
<1> SUFFICES ASSUME ClocksWithinDrift, Inv, [Next]_vars PROVE Inv' OBVIOUS
<1>1. Typed /\ ClockAhead BY DEF Inv
<1>2. \A d \in Device : slot[d] # NoRow => slot[d].id \in Id
  BY <1>1 DEF Typed, Row
<1>3. ASSUME NEW d \in Device, Trust(d) PROVE Inv'
  <2>1. forgot' \in BOOLEAN /\ (~forgot' => ~forgot /\ ~FALSE) BY <1>1, <1>3 DEF Trust, Typed
  <2>2. CASE slot[d] = NoRow
    <3>1. PICK i \in Id : LocalWrite(d, i, FALSE) BY <1>3, <2>2 DEF Trust
    <3> QED BY <2>1, <2>2, <3>1, WriteInv
  <2>3. CASE slot[d] # NoRow
    <3>1. LocalWrite(d, slot[d].id, FALSE) BY <1>3, <2>3 DEF Trust
    <3> QED BY <1>2, <2>1, <2>3, <3>1, WriteInv
  <2> QED BY <2>2, <2>3
<1>4. ASSUME NEW d \in Device, Forget(d) PROVE Inv'
  <2>1. LocalWrite(d, slot[d].id, TRUE) /\ slot[d].id \in Id /\ forgot' = TRUE BY <1>2, <1>4 DEF Forget
  <2> QED BY <2>1, WriteInv
<1>5. ASSUME NEW d \in Device, Push(d) PROVE Inv'
  <2>1. CASE server[slot[d].id].seq \in {0, slot[d].base} BY <1>5, <2>1, TakenInv
  <2>2. CASE server[slot[d].id].seq \notin {0, slot[d].base}
    <3>1. slot[d].id \in Id BY <1>2, <1>5 DEF Push, NoRow
    <3>2. /\ Apply(d, slot[d].id, server[slot[d].id]) /\ server[slot[d].id].seq # 0
          /\ UNCHANGED <<server, serverSeq, forgot, writes>> /\ UNCHANGED cursor
      BY <1>5, <2>2 DEF Push
    <3> QED BY <3>1, <3>2, ApplyInv
  <2> QED BY <2>1, <2>2
<1>6. ASSUME NEW d \in Device, Pull(d) PROVE Inv'
  <2>1. PICK i \in Id :
          /\ server[i].seq > cursor[d]
          /\ \A j \in Id : server[j].seq > cursor[d] => server[i].seq <= server[j].seq
          /\ Apply(d, i, server[i])
          /\ cursor' = [cursor EXCEPT ![d] = server[i].seq]
          /\ UNCHANGED <<server, serverSeq, used, forgot, writes>>
    BY <1>6 DEF Pull
  <2>2. server[i].seq # 0 BY <1>1, <2>1 DEF Typed, Record
  <2> QED BY <2>1, <2>2, ApplyInv
<1>7. CASE UNCHANGED vars
  BY <1>7 DEF vars, Inv, Typed, ClockAhead, Numbered, Alive, Based, Sent, Pulled
<1> QED BY <1>3, <1>4, <1>5, <1>6, <1>7 DEF Next

\* As long as no device's clock lags MaxDrift behind what it receives, the invariant
\* holds throughout: known_hosts and the server's records stay in step.
THEOREM Invariance == ASSUME ClocksWithinDrift PROVE Spec => []Inv
<1>1. ClocksWithinDrift OBVIOUS
<1>2. Inv /\ [Next]_vars => Inv' BY <1>1, NextInv
<1> QED BY <1>2, InitInv, PTL DEF Spec

------------------------------------------------------------------------------
(* What the invariant is for                                                *)

\* Two devices with nothing to send or to fetch: each has pulled the record the other
\* one holds, so neither row is older than the other, and timestamps are unique.
LEMMA InvAgrees == Inv => AgreeOnTheNewest
<1> SUFFICES ASSUME Inv, ~forgot, NEW d \in Device, NEW e \in Device, Settled(d), Settled(e)
             PROVE  Trusted(d) = Trusted(e)
  BY DEF AgreeOnTheNewest, DevicesAgree
<1>1. Typed /\ Numbered /\ Alive /\ Sent /\ Pulled BY DEF Inv
<1>2. ASSUME NEW x \in Device, NEW y \in Device, Settled(x), Settled(y), slot[x].id \in Id
      PROVE  slot[y] # NoRow /\ NotAfter(slot[x].hlc, slot[y].hlc)
  <2>1. PICK i \in Id : i = slot[x].id BY <1>2
  <2>2. server[i].seq # 0 /\ NotAfter(slot[x].hlc, server[i].hlc) BY <1>1, <1>2, <2>1 DEF Sent, Settled
  <2>3. server[i].seq <= cursor[y] BY <1>1, <1>2 DEF Numbered, Settled
  <2>4. slot[y] # NoRow /\ NotAfter(server[i].hlc, slot[y].hlc) BY <1>1, <2>2, <2>3 DEF Pulled
  <2>5. slot[x].hlc \in Hlc(Nat) /\ slot[y].hlc \in Hlc(Nat) /\ server[i].hlc \in Hlc(Nat)
    BY <1>1 DEF Typed, Row, Record
  <2> QED BY <2>2, <2>4, <2>5, HlcOrder
<1>3. \A x \in Device : slot[x].id \in Id \/ slot[x] = NoRow BY <1>1 DEF Typed, Row
<1>4. NoRow.id \notin Id BY KnownHostsAssumption DEF NoRow
<1>5. slot[d].hlc = slot[e].hlc
  <2>1. CASE slot[d] = NoRow /\ slot[e] = NoRow BY <2>1
  <2>2. CASE slot[d].id \in Id /\ slot[e].id \in Id
    <3>1. NotAfter(slot[d].hlc, slot[e].hlc) /\ NotAfter(slot[e].hlc, slot[d].hlc) BY <1>2, <2>2
    <3>2. slot[d].hlc \in Hlc(Nat) /\ slot[e].hlc \in Hlc(Nat) BY <1>1 DEF Typed, Row
    <3> QED BY <3>1, <3>2, HlcOrder
  <2> QED BY <1>2, <1>3, <1>4, <2>1, <2>2
<1>6. ~slot[d].deleted /\ ~slot[e].deleted BY <1>1 DEF Alive
<1> QED BY <1>5, <1>6 DEF Trusted

\* "The newer one takes it, on every device, so they end up agreeing"
\* (store/src/sync.rs): as long as nobody forgets a key, settled devices trust the same.
THEOREM Agreement == ASSUME ClocksWithinDrift PROVE Spec => []AgreeOnTheNewest
BY Invariance, InvAgrees, PTL

\* A step that makes a row older puts a tombstone of the same record there.
LEMMA StepStays ==
  ASSUME ClocksWithinDrift, Inv, Next, NEW d \in Device, slot[d] # NoRow, HlcLess(slot'[d].hlc, slot[d].hlc)
  PROVE  slot'[d].deleted /\ slot'[d].id = slot[d].id
<1>1. Typed /\ ClockAhead BY DEF Inv
<1>2. slot[d] \in Row /\ slot[d].hlc \in Hlc(Nat) BY <1>1 DEF Typed, Row
<1>3. ~HlcLess(slot[d].hlc, slot[d].hlc) BY <1>2, HlcOrder DEF NotAfter
<1>4. \A c \in Device : slot[c] # NoRow => slot[c].id \in Id BY <1>1 DEF Typed, Row
<1>5. ASSUME NEW c \in Device, NEW id \in Id, NEW deleted \in BOOLEAN, LocalWrite(c, id, deleted) PROVE FALSE
  <2>1. slot'[d] = slot[d] \/ (HlcLess(slot[d].hlc, slot'[d].hlc) /\ slot'[d] \in Row) BY <1>1, <1>5, WriteFacts
  <2>2. slot'[d] \in Row => slot'[d].hlc \in Hlc(Nat) BY DEF Row
  <2> QED BY <1>2, <1>3, <2>1, <2>2, HlcOrder DEF NotAfter
<1>6. ASSUME NEW c \in Device, NEW i \in Id, Apply(c, i, server[i]) PROVE slot'[d].deleted /\ slot'[d].id = slot[d].id
  <2>1. c = d BY <1>1, <1>3, <1>6, ApplyFacts
  <2>2. slot'[d] = Applied(slot[d], i, server[i]) BY <1>1, <1>6, <2>1, ApplyFacts
  <2>3. server[i] \in Record BY <1>1 DEF Typed
  <2> QED BY <1>2, <2>2, <2>3, AppliedOlder
<1>7. ASSUME NEW c \in Device, Push(c), server[slot[c].id].seq \in {0, slot[c].base} PROVE FALSE
  <2>1. slot' = [slot EXCEPT ![c].dirty = FALSE, ![c].base = serverSeq + 1] BY <1>7 DEF Push
  <2>2. slot'[d].hlc = slot[d].hlc BY <1>1, <2>1 DEF Typed, Row
  <2> QED BY <1>3, <2>2
<1>8. PICK c \in Device : Trust(c) \/ Forget(c) \/ Push(c) \/ Pull(c) BY DEF Next
<1>9. CASE Trust(c) BY <1>4, <1>5, <1>9 DEF Trust
<1>10. CASE Forget(c) BY <1>4, <1>5, <1>10 DEF Forget
<1>11. CASE Push(c)
  <2>1. slot[c].id \in Id BY <1>4, <1>11 DEF Push, NoRow
  <2> QED BY <1>6, <1>7, <1>11, <2>1 DEF Push
<1>12. CASE Pull(c) BY <1>6, <1>12 DEF Pull
<1> QED BY <1>8, <1>9, <1>10, <1>11, <1>12

\* insert_record, resolve, tick: an older key never comes back over a newer decision.
THEOREM DecisionStays == ASSUME ClocksWithinDrift PROVE Spec => NewestDecisionStays
<1> DEFINE A == \A d \in Device : slot[d] # NoRow /\ HlcLess(slot'[d].hlc, slot[d].hlc) =>
                  slot'[d].deleted /\ slot'[d].id = slot[d].id
<1>1. ClocksWithinDrift OBVIOUS
<1>2. Inv /\ [Next]_vars => [A]_vars BY <1>1, StepStays
<1>3. Spec => []Inv BY Invariance
<1> QED BY <1>2, <1>3, PTL DEF Spec, NewestDecisionStays
==============================================================================
