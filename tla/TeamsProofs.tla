----------------------------- MODULE TeamsProofs -----------------------------
(***************************************************************************)
(* Proofs about Teams, for any accounts, records, keys and retries.         *)
(***************************************************************************)
EXTENDS Teams, TLAPS

------------------------------------------------------------------------------
(* The inductive invariant                                                  *)

\* Where a device may be; inside, its space is open at the epoch of its wire.
Inside == {"note", "admit", "wrap", "push", "pull", "requeue", "members", "ask", "answered"}
Place  == Inside \cup {"idle", "one", "stop", "take", "took", "forget"}

Pin      == {"none", "confirmed", "removed"}
State    == {"out", "pending", "active"}
Key      == 0 .. MaxKeys
Chain    == {s \in Seq(Nat) : Len(s) <= MaxEarlier}
Rotation == [epoch : Nat, key : Key]
Wires    == [epoch : Nat, key : Key, earlier : Chain, needs : BOOLEAN]
Held     == [version : Nat, seq : Nat]
Team     == [epoch : Nat, key : 1 .. MaxKeys, earlier : Chain, made : 1 .. MaxKeys, needs : BOOLEAN,
             cursor : Nat, holds : [Record -> Held], state : [Device -> State]]
Space    == [space : BOOLEAN, open : BOOLEAN, sealed : BOOLEAN, epoch : Nat, key : Key, requeue : BOOLEAN,
             pending : Rotation, owed : BOOLEAN, rows : [Record -> Nat], dirty : SUBSET Record,
             seq : [Record -> Nat], cursor : Nat]
Account  == [record : Rotation, owes : BOOLEAN, pins : [Device -> Pin]]
Task     == [pc : Place, goal : Goals, wire : Wires, mine : BOOLEAN, conflict : BOOLEAN,
             tries : 0 .. MaxTries, with : SUBSET Device, had : BOOLEAN, before : BOOLEAN,
             pin : Pin, ask : Wires]
Request  == [from : Device, ask : Wires, with : SUBSET Device, cursor : Nat]

Typed ==
  /\ server \in Team /\ net \subseteq Request
  /\ dev \in [Device -> Space] /\ own \in [Device -> Account] /\ run \in [Device -> Task]
  /\ knows \in [Device -> SUBSET Nat] /\ took \subseteq Device \X Device /\ older \in BOOLEAN
  /\ spent \in [events : Nat, edits : Nat]

\* A device's space: what is not there holds nothing; a noted rotation is for the next
\* epoch; nobody is ahead of the team, and who is level with it has its key.
SpaceFits(s) ==
  /\ ~s.space => s = NoSpace
  /\ s.open => s.space
  /\ s.dirty \subseteq {r \in Record : s.rows[r] # 0}
  /\ s.pending # NoRotation => s.pending.epoch = s.epoch + 1
  /\ s.space => /\ s.epoch <= server.epoch
                /\ s.epoch = server.epoch => s.key = server.key

\* What a device is doing fits its space; a rotation it heard the answer to is not
\* ahead of the team either.
TaskFits(d, s, t) ==
  /\ t.pc \in Inside => s.open /\ s.epoch = t.wire.epoch
  /\ t.pc \in {"ask", "answered"} =>
       /\ t.ask.epoch = t.wire.epoch + 1
       /\ s.pending = [epoch |-> t.ask.epoch, key |-> t.ask.key]
       /\ t.ask.key \in 1 .. server.made
  /\ t.pc = "answered" =>
       /\ t.ask.epoch <= server.epoch
       /\ t.ask.epoch = server.epoch => t.ask.key = server.key
  /\ t.pc = "forget" => server.state[d] = "out"

\* What the server holds has a number, and what a device has seen there, in the epoch
\* it is at, is there.
Stored ==
  \A r \in Record : server.holds[r].seq # 0 => server.holds[r].version # 0

RowsFit(d, s) ==
  \A r \in Record :
    /\ s.space /\ s.epoch = server.epoch /\ s.seq[r] # 0 => server.holds[r].seq # 0
    /\ d \in Writer /\ ~s.requeue /\ r \notin s.dirty /\ s.rows[r] # 0 => s.seq[r] # 0

Fits(d) == SpaceFits(dev[d]) /\ TaskFits(d, dev[d], run[d]) /\ RowsFit(d, dev[d])

\* Keys are made once: nobody knows the key of a rotation the server was not yet asked
\* for, or that it has not carried out.
KnownKeys ==
  /\ server.key <= server.made
  /\ \A a \in Device : knows[a] \subseteq 1 .. server.made
  /\ \A d \in Device : dev[d].pending.key <= server.made

Asked ==
  /\ \A m \in net : m.ask.key \in 1 .. server.made /\ m.ask.key # server.key
  /\ \A m \in net, a \in Device : m.ask.key \notin knows[a]
  /\ \A m, n \in net : m.ask.key = n.ask.key => m = n
  /\ \A m \in net, d \in Device : m.ask.key = dev[d].pending.key => m.from = d

Asking ==
  /\ \A d \in Device : At(d, "ask") => run[d].ask.key # server.key
  /\ \A d, a \in Device : At(d, "ask") => run[d].ask.key \notin knows[a]
  /\ \A d, e \in Device : At(d, "ask") /\ run[d].ask.key = dev[e].pending.key => d = e
  /\ \A d \in Device, m \in net : At(d, "ask") => run[d].ask.key # m.ask.key

\* Who was taken out: a removal is written down, and forgotten when one of the two
\* comes back.
Taken ==
  \A d, a \in Device : <<d, a>> \in took =>
    /\ a # d /\ server.state[a] # "pending" /\ server.state[d] # "pending"
    /\ Active(d) => own[d].pins[a] = "removed"

\* d means a to be without the team's key, and a is not.
Bad(d, a) == <<d, a>> \in took /\ (Active(a) \/ server.key \in knows[a])

\* Then d owes a key; what it owed before a removal it has not heard the end of counts
\* too, for that may be taken back.
OwesElse(d) == run[d].before \/ IF dev[d].space THEN own[d].owes ELSE dev[d].owed

OwedOK(d) ==
  \A a \in Device : Active(d) /\ Bad(d, a) =>
    /\ Owes(d)
    /\ At(d, "take") /\ run[d].with \ {a} # {} => OwesElse(d)

\* A rotation is asked for without the ones that were taken out, so that once it has
\* happened nothing is owed.
WithOK(d) ==
  \A a \in Device : <<d, a>> \in took =>
    /\ At(d, "ask") => a \notin run[d].with
    /\ \A m \in net : m.ask.key = dev[d].pending.key => a \notin m.with

GivenOK(d) ==
  (At(d, "note") /\ run[d].mine) \/ At(d, "answered") \/ dev[d].pending.key = server.key
    => \A a \in Device : Active(d) => ~Bad(d, a)

Inv ==
  /\ Typed
  /\ \A d \in Device : Fits(d)
  /\ Stored /\ KnownKeys /\ Asked /\ Asking /\ Taken
  /\ ~older => \A d \in Device : OwedOK(d) /\ WithOK(d) /\ GivenOK(d)

------------------------------------------------------------------------------
(* Types                                                                    *)

\* What is not there, and a device at rest, are of their types.
LEMMA NothingTyped ==
  /\ NoRotation \in Rotation /\ NoWire \in Wires /\ NoSpace \in Space /\ AtRest \in Task
  /\ NoRotation.key = 0 /\ NoRotation.epoch = 0
<1>1. 0 \in Key /\ 0 \in Nat BY TeamsAssumption DEF Key
<1>2. NoRotation \in Rotation /\ NoRotation.key = 0 /\ NoRotation.epoch = 0 BY <1>1 DEF NoRotation, Rotation
<1>3. <<>> \in Chain BY TeamsAssumption DEF Chain
<1>4. NoWire \in Wires BY <1>1, <1>3 DEF NoWire, Wires
<1>5. NoSpace \in Space BY <1>1, <1>2 DEF NoSpace, Space
<1>6. 1 \in 0 .. MaxTries BY TeamsAssumption
<1>7. "idle" \in Place /\ "pass" \in Goals /\ "none" \in Pin BY DEF Place, Goals, Pin
<1>8. AtRest \in Task BY <1>4, <1>6, <1>7 DEF AtRest, Task
<1> QED BY <1>2, <1>4, <1>5, <1>8

\* A device at rest, without a space, fits.
LEMMA RestFits ==
  /\ AtRest.pc = "idle" /\ NoSpace.space = FALSE /\ NoSpace.open = FALSE /\ NoSpace.pending = NoRotation
  /\ NoSpace.owed = FALSE
  /\ SpaceFits(NoSpace)
  /\ \A d : RowsFit(d, NoSpace)
  /\ \A d, s : TaskFits(d, s, AtRest)
<1>1. /\ AtRest.pc = "idle" /\ NoSpace.space = FALSE /\ NoSpace.open = FALSE /\ NoSpace.pending = NoRotation
      /\ NoSpace.owed = FALSE /\ NoSpace.dirty = {} /\ \A r \in Record : NoSpace.rows[r] = 0
  BY DEF AtRest, NoSpace
<1>2. SpaceFits(NoSpace) BY <1>1 DEF SpaceFits
<1>3. \A d : RowsFit(d, NoSpace) BY <1>1 DEF RowsFit
<1>4. \A d, s : TaskFits(d, s, AtRest) BY <1>1 DEF TaskFits, Inside
<1> QED BY <1>1, <1>2, <1>3, <1>4

\* What the server hands out.
LEMMA WireTyped ==
  ASSUME server \in Team
  PROVE  /\ Wire \in Wires /\ Wire.epoch = server.epoch /\ Wire.key = server.key
         /\ Wire.earlier = server.earlier /\ Wire.needs = server.needs
BY DEF Team, Wires, Wire, Key

------------------------------------------------------------------------------
(* A step of one device                                                     *)

\* A step of one device that leaves the team's key alone keeps the invariant, if it
\* does so for the device, and leaves nobody else with more to answer for.
LEMMA DeviceStep ==
  ASSUME Inv, NEW d \in Device, Typed',
         \A e \in Device : e # d => dev'[e] = dev[e] /\ run'[e] = run[e] /\ own'[e] = own[e],
         net' = net,
         server'.epoch = server.epoch, server'.key = server.key, server'.made = server.made,
         \A r \in Record : server.holds[r].seq # 0 => server'.holds[r].seq # 0,
         Stored',
         \A e \in Device : e # d /\ server.state[e] = "out" => server'.state[e] = "out",
         \A a \in Device : knows'[a] \subseteq knows[a] \cup {server.key},
         Fits(d)', dev'[d].pending \in {dev[d].pending, NoRotation}, run'[d].pc # "ask",
         Taken',
         ~older' => ~older,
         \A e, a \in Device : e # d /\ <<e, a>> \in took' =>
            <<e, a>> \in took /\ (Active(e)' => Active(e)) /\ (Bad(e, a)' => Bad(e, a)),
         ~older' => (OwedOK(d) /\ WithOK(d) /\ GivenOK(d))'
  PROVE  Inv'
<1>1. Typed /\ Stored /\ KnownKeys /\ Asked /\ Asking /\ Taken BY DEF Inv
<1>2. \A e \in Device : Fits(e)'
  <2> SUFFICES ASSUME NEW e \in Device, e # d PROVE Fits(e)' OBVIOUS
  <2>1. Fits(e) BY DEF Inv
  <2>2. dev'[e] = dev[e] /\ run'[e] = run[e] OBVIOUS
  <2>3. SpaceFits(dev[e])' BY <2>1, <2>2 DEF Fits, SpaceFits
  <2>4. TaskFits(e, dev[e], run[e])' BY <2>1, <2>2 DEF Fits, TaskFits
  <2>5. RowsFit(e, dev[e])' BY <2>1, <2>2 DEF Fits, RowsFit
  <2> QED BY <2>3, <2>4, <2>5 DEF Fits
<1>3. server.key \in Nat /\ server.made \in Nat /\ server.key \in 1 .. server.made
  BY <1>1 DEF Typed, Team, KnownKeys
<1>4. \A m \in net : m.ask.key \in 1 .. server.made /\ m.ask.key # 0 BY <1>1, <1>3 DEF Asked
<1>5. dev'[d].pending.key = dev[d].pending.key \/ dev'[d].pending.key = 0 BY NothingTyped
<1>6. KnownKeys'
  <2>1. \A e \in Device : dev'[e].pending.key <= server.made BY <1>1, <1>3, <1>5 DEF KnownKeys
  <2> QED BY <1>1, <1>3, <2>1 DEF KnownKeys
<1>7. Asked'
  <2>1. \A m \in net, a \in Device : m.ask.key \notin knows'[a] BY <1>1 DEF Asked
  <2>2. \A m \in net, e \in Device : m.ask.key = dev'[e].pending.key => m.from = e
    BY <1>1, <1>4, <1>5 DEF Asked
  <2> QED BY <1>1, <2>1, <2>2 DEF Asked
<1>8. Asking'
  <2>1. \A e \in Device : At(e, "ask")' => e # d /\ At(e, "ask") /\ run'[e].ask.key = run[e].ask.key BY DEF At
  <2>2. \A e \in Device : At(e, "ask") => run[e].ask.key # 0
    <3> SUFFICES ASSUME NEW e \in Device, At(e, "ask") PROVE run[e].ask.key # 0 OBVIOUS
    <3>1. TaskFits(e, dev[e], run[e]) BY DEF Inv, Fits
    <3>2. run[e].ask.key \in 1 .. server.made BY <3>1 DEF TaskFits, At
    <3> QED BY <1>3, <3>2
  <2>3. \A e \in Device : At(e, "ask")' => run'[e].ask.key # server'.key BY <1>1, <2>1 DEF Asking
  <2>4. \A e, a \in Device : At(e, "ask")' => run'[e].ask.key \notin knows'[a] BY <1>1, <2>1 DEF Asking
  <2>5. \A e, f \in Device : At(e, "ask")' /\ run'[e].ask.key = dev'[f].pending.key => e = f
    BY <1>1, <1>5, <2>1, <2>2 DEF Asking
  <2>6. \A e \in Device, m \in net : At(e, "ask")' => run'[e].ask.key # m.ask.key BY <1>1, <2>1 DEF Asking
  <2> QED BY <2>3, <2>4, <2>5, <2>6 DEF Asking
<1>9. ASSUME ~older', NEW e \in Device PROVE (OwedOK(e) /\ WithOK(e) /\ GivenOK(e))'
  <2>1. CASE e = d BY <1>9, <2>1
  <2>2. CASE e # d
    <3>1. OwedOK(e) /\ WithOK(e) /\ GivenOK(e) BY <1>9 DEF Inv
    <3>2. dev'[e] = dev[e] /\ run'[e] = run[e] /\ own'[e] = own[e] BY <2>2
    <3>3. \A a \in Device : <<e, a>> \in took' =>
            <<e, a>> \in took /\ (Active(e)' => Active(e)) /\ (Bad(e, a)' => Bad(e, a))
      BY <2>2
    <3>4. \A a \in Device : Active(e)' /\ Bad(e, a)' => Active(e) /\ Bad(e, a) BY <3>3 DEF Bad
    <3>5. OwedOK(e)' BY <3>1, <3>2, <3>4 DEF OwedOK, Owes, OwesElse, At
    <3>6. WithOK(e)' BY <3>1, <3>2, <3>3 DEF WithOK, At
    <3>7. GivenOK(e)' BY <3>1, <3>2, <3>4 DEF GivenOK, At
    <3> QED BY <3>5, <3>6, <3>7
  <2> QED BY <2>1, <2>2
<1> QED BY <1>2, <1>6, <1>7, <1>8, <1>9 DEF Inv

\* The same, where the server and the histories stay as they are.
LEMMA OwnStep ==
  ASSUME Inv, NEW d \in Device, NEW s \in Space, NEW t \in Task, NEW o \in Account,
         dev' = [dev EXCEPT ![d] = s], run' = [run EXCEPT ![d] = t], own' = [own EXCEPT ![d] = o],
         UNCHANGED <<server, net, knows, took, older>>, spent' \in [events : Nat, edits : Nat],
         SpaceFits(s), TaskFits(d, s, t), RowsFit(d, s),
         s.pending \in {dev[d].pending, NoRotation}, t.pc \notin {"ask", "answered", "take"},
         t.pc = "note" /\ t.mine => \/ At(d, "answered") \/ dev[d].pending.key = server.key
                                    \/ At(d, "note") /\ run[d].mine,
         o.pins = own[d].pins \/ ~Active(d),
         s.owed \/ o.owes \/ ~Owes(d) \/ ~Active(d) \/ (At(d, "note") /\ run[d].mine)
  PROVE  Inv'
<1>1. Typed /\ Stored /\ Taken BY DEF Inv
<1>2. dev'[d] = s /\ run'[d] = t /\ own'[d] = o BY <1>1 DEF Typed
<1>3. \A e \in Device : e # d => dev'[e] = dev[e] /\ run'[e] = run[e] /\ own'[e] = own[e] BY <1>1 DEF Typed
<1>4. Typed' BY <1>1 DEF Typed
<1>5. Fits(d)' BY <1>2 DEF Fits, SpaceFits, TaskFits, RowsFit
<1>6. Stored' BY <1>1 DEF Stored
<1>7. Taken' BY <1>1, <1>2, <1>3 DEF Taken, Active
<1>8. \A e, a \in Device : (Active(e)' <=> Active(e)) /\ (Bad(e, a)' <=> Bad(e, a)) BY DEF Active, Bad
<1>9. ASSUME ~older PROVE (OwedOK(d) /\ WithOK(d) /\ GivenOK(d))'
  <2>1. OwedOK(d)'
    <3>1. OwedOK(d) /\ GivenOK(d) BY <1>9 DEF Inv
    <3> QED BY <1>2, <1>8, <3>1 DEF OwedOK, GivenOK, Owes, At
  <2>2. WithOK(d)'
    <3>1. WithOK(d) BY <1>9 DEF Inv
    <3>2. \A m \in net : m.ask.key # 0
      <4>1. \A m \in net : m.ask.key \in 1 .. server.made BY DEF Inv, Asked
      <4>2. server.made \in Nat BY <1>1 DEF Typed, Team
      <4> QED BY <4>1, <4>2
    <3> QED BY <1>2, <3>1, <3>2, NothingTyped DEF WithOK, At
  <2>3. GivenOK(d)'
    <3>1. GivenOK(d) BY <1>9 DEF Inv
    <3>2. server.key # 0 BY <1>1 DEF Typed, Team
    <3> QED BY <1>2, <1>8, <3>1, <3>2, NothingTyped DEF GivenOK, At
  <2> QED BY <2>1, <2>2, <2>3
<1> QED BY <1>2, <1>3, <1>4, <1>5, <1>6, <1>7, <1>8, <1>9, DeviceStep

\* What the invariant says of one device.
LEMMA DeviceFacts ==
  ASSUME Inv, NEW d \in Device
  PROVE  /\ Typed /\ dev[d] \in Space /\ run[d] \in Task /\ own[d] \in Account /\ server \in Team
         /\ SpaceFits(dev[d]) /\ TaskFits(d, dev[d], run[d]) /\ RowsFit(d, dev[d])
         /\ dev = [dev EXCEPT ![d] = dev[d]] /\ own = [own EXCEPT ![d] = own[d]]
         /\ run = [run EXCEPT ![d] = run[d]]
         /\ spent \in [events : Nat, edits : Nat]
<1>1. Typed BY DEF Inv
<1>2. dev[d] \in Space /\ run[d] \in Task /\ own[d] \in Account /\ server \in Team BY <1>1 DEF Typed
<1>3. SpaceFits(dev[d]) /\ TaskFits(d, dev[d], run[d]) /\ RowsFit(d, dev[d]) BY DEF Inv, Fits
<1>4. /\ dev = [dev EXCEPT ![d] = dev[d]] /\ own = [own EXCEPT ![d] = own[d]]
      /\ run = [run EXCEPT ![d] = run[d]] /\ spent \in [events : Nat, edits : Nat]
  BY <1>1 DEF Typed
<1> QED BY <1>1, <1>2, <1>3, <1>4

\* A device that is not inside fits whatever its space is.
LEMMA OutsideFits ==
  ASSUME NEW d, NEW s, NEW t, t.pc \in {"idle", "one", "stop", "take", "took"}
  PROVE  TaskFits(d, s, t)
BY DEF TaskFits, Inside

\* Wherever a device gives up or begins again.
Back(d) == Rest(d) \/ Fails(d) \/ Retry(d) \/ MovedOn(d)

\* Then it is at rest, at the list of teams again, or writes down what is owed.
LEMMA BackTask ==
  ASSUME Typed, NEW d \in Device, Back(d)
  PROVE  \E t \in Task : run' = [run EXCEPT ![d] = t] /\ t.pc \in {"idle", "one", "stop"}
<1>1. run[d] \in Task BY DEF Typed
<1>2. CASE Rest(d) BY <1>2, NothingTyped, RestFits DEF Rest
<1>3. CASE Fails(d)
  <2>1. CASE run[d].goal = "removal"
    <3>1. PICK t : t = [run[d] EXCEPT !.pc = "stop"] OBVIOUS
    <3>2. "stop" \in Place BY DEF Place
    <3>3. t \in Task /\ t.pc = "stop" BY <1>1, <3>1, <3>2 DEF Task
    <3>4. run' = [run EXCEPT ![d] = t] BY <1>3, <2>1, <3>1 DEF Fails, Goto, Typed
    <3> QED BY <3>3, <3>4
  <2>2. CASE run[d].goal # "removal" BY <1>3, <2>2, NothingTyped, RestFits DEF Fails, Rest
  <2> QED BY <2>1, <2>2
<1>4. CASE Retry(d) /\ run[d].tries < MaxTries
  <2>1. PICK t : t = [AtRest EXCEPT !.pc = "one", !.goal = run[d].goal, !.tries = run[d].tries + 1,
                                     !.with = run[d].with] OBVIOUS
  <2>2. run' = [run EXCEPT ![d] = t] BY <1>4, <2>1 DEF Retry
  <2>3. run[d].goal \in Goals /\ run[d].with \in SUBSET Device /\ run[d].tries \in 0 .. MaxTries BY <1>1 DEF Task
  <2>4. run[d].tries + 1 \in 0 .. MaxTries BY <1>4, <2>3, TeamsAssumption
  <2>5. "one" \in Place BY DEF Place
  <2>6. t \in Task /\ t.pc = "one" BY <2>1, <2>3, <2>4, <2>5, NothingTyped DEF Task
  <2> QED BY <2>2, <2>6
<1>5. Retry(d) => Fails(d) \/ (Retry(d) /\ run[d].tries < MaxTries) BY DEF Retry
<1>6. MovedOn(d) => Retry(d) \/ Fails(d) BY DEF MovedOn
<1> QED BY <1>2, <1>3, <1>4, <1>5, <1>6 DEF Back

\* A device that gives up, or begins again, and leaves everything else as it was.
LEMMA BackStep ==
  ASSUME Inv, NEW d \in Device, Back(d), UNCHANGED <<server, net, dev, own, knows, took, older, spent>>
  PROVE  Inv'
<1>1. PICK t \in Task : run' = [run EXCEPT ![d] = t] /\ t.pc \in {"idle", "one", "stop"}
  BY BackTask DEF Inv
<1>2. Owes(d) => dev[d].owed \/ own[d].owes BY DEF Owes
<1>3. TaskFits(d, dev[d], t) BY <1>1, OutsideFits
<1> QED BY <1>1, <1>2, <1>3, DeviceFacts, OwnStep

------------------------------------------------------------------------------
(* settle                                                                   *)

\* A space that fits after a change of key.
Follower(d, s, epoch, key) ==
  /\ s.open /\ s.space /\ s.epoch = epoch /\ s.key = key /\ s.pending = NoRotation /\ s.owed = dev[d].owed
  /\ SpaceFits(s) /\ RowsFit(d, s)

\* team_rekey: the space after a change of key.
LEMMA RekeyedSpace ==
  ASSUME Inv, NEW d \in Device, NEW epoch \in Nat, NEW key \in 1 .. MaxKeys, NEW how \in {"lead", "follow", "read"},
         dev[d].space, dev[d].open, epoch <= server.epoch, epoch = server.epoch => key = server.key,
         how = "read" => d \notin Writer
  PROVE  \E s \in Space : Rekeyed(d, epoch, key, how) = [dev EXCEPT ![d] = s] /\ Follower(d, s, epoch, key)
<1>1. dev[d] \in Space /\ SpaceFits(dev[d]) BY DeviceFacts
<1> DEFINE all == {r \in Record : dev[d].rows[r] # 0}
           none == [r \in Record |-> 0]
<1>2. PICK s : s = [dev[d] EXCEPT !.epoch = epoch, !.key = key, !.pending = NoRotation, !.sealed = FALSE,
                                  !.requeue = (how = "follow"),
                                  !.dirty = IF how = "lead" THEN all ELSE dev[d].dirty,
                                  !.seq = [r \in Record |-> 0], !.cursor = 0]
  OBVIOUS
<1>3. Rekeyed(d, epoch, key, how) = [dev EXCEPT ![d] = s] BY <1>2 DEF Rekeyed
<1>4. key \in Key BY TeamsAssumption DEF Key
<1>5. none \in [Record -> Nat] /\ \A r \in Record : none[r] = 0 OBVIOUS
<1>6. PICK dirty \in SUBSET Record : dirty = IF how = "lead" THEN all ELSE dev[d].dirty BY <1>1 DEF Space
<1>7. s = [dev[d] EXCEPT !.epoch = epoch, !.key = key, !.pending = NoRotation, !.sealed = FALSE,
                         !.requeue = (how = "follow"), !.dirty = dirty, !.seq = none, !.cursor = 0]
  BY <1>2, <1>6
<1>8. dirty \subseteq all BY <1>1, <1>6 DEF SpaceFits
<1>9. dirty = all \/ how = "follow" \/ d \notin Writer BY <1>6
<1> HIDE DEF none
<1>10. s \in Space BY <1>1, <1>4, <1>5, <1>7, NothingTyped, ZenonT(60) DEF Space
<1>11. /\ s.epoch = epoch /\ s.key = key /\ s.pending = NoRotation /\ s.owed = dev[d].owed
       /\ s.rows = dev[d].rows /\ s.dirty = dirty /\ s.seq = none
       /\ s.open = dev[d].open /\ s.space = dev[d].space
  BY <1>1, <1>7 DEF Space
<1>12. s.requeue = (how = "follow") BY <1>1, <1>7 DEF Space
<1>13. SpaceFits(s) BY <1>8, <1>11 DEF SpaceFits
<1>14. RowsFit(d, s) BY <1>5, <1>9, <1>11, <1>12 DEF RowsFit
<1> QED BY <1>3, <1>10, <1>11, <1>13, <1>14 DEF Follower

\* A key the server hands out and the device trusts leaves it level with the team.
LEMMA SettledSpace ==
  ASSUME Inv, NEW d \in Device, Trusted(d, Wire)
  PROVE  \E s \in Space :
           /\ Settled(d, Wire) = [dev EXCEPT ![d] = s]
           /\ s.open /\ s.space /\ s.epoch = server.epoch /\ s.owed = dev[d].owed
           /\ s.pending \in {dev[d].pending, NoRotation}
           /\ SpaceFits(s) /\ RowsFit(d, s)
<1>1. /\ Typed /\ dev[d] \in Space /\ server \in Team /\ SpaceFits(dev[d]) /\ RowsFit(d, dev[d]) BY DeviceFacts
<1>2. /\ Wire \in Wires /\ Wire.epoch = server.epoch /\ Wire.key = server.key BY <1>1, WireTyped
<1>3. server.epoch \in Nat /\ server.key \in 1 .. MaxKeys /\ server.key \in Key /\ dev[d].epoch \in Nat
  BY <1>1, TeamsAssumption DEF Team, Space, Key
<1>4. CASE ~dev[d].space
  <2>1. PICK s : s = [NoSpace EXCEPT !.space = TRUE, !.open = TRUE, !.epoch = server.epoch, !.key = server.key] OBVIOUS
  <2>2. Settled(d, Wire) = [dev EXCEPT ![d] = s] BY <1>2, <1>4, <2>1 DEF Settled
  <2>3. s \in Space BY <1>3, <2>1, NothingTyped DEF Space
  <2>4. /\ s.open /\ s.space /\ s.epoch = server.epoch /\ s.key = server.key /\ s.owed = FALSE
        /\ s.pending = NoRotation /\ s.dirty = {} /\ \A r \in Record : s.rows[r] = 0 /\ s.seq[r] = 0
    BY <2>1 DEF NoSpace
  <2>5. dev[d].owed = FALSE BY <1>1, <1>4, RestFits DEF SpaceFits
  <2>6. SpaceFits(s) /\ RowsFit(d, s) BY <1>3, <2>4 DEF SpaceFits, RowsFit
  <2> QED BY <2>2, <2>3, <2>4, <2>5, <2>6
<1>5. CASE dev[d].space
  <2>1. /\ dev[d].open \/ dev[d].epoch = server.epoch
        /\ dev[d].epoch = server.epoch \/ server.epoch > dev[d].epoch
    BY <1>2, <1>5 DEF Trusted, Follows
  <2>2. CASE server.epoch > dev[d].epoch
    <3>1. PICK how \in {"lead", "follow", "read"} :
            /\ how = IF Mine(d, Wire) THEN "lead" ELSE IF d \in Writer THEN "follow" ELSE "read"
      OBVIOUS
    <3>2. how = "read" => d \notin Writer BY <3>1
    <3>3. dev[d].open BY <1>3, <2>1, <2>2
    <3>4. Settled(d, Wire) = Rekeyed(d, server.epoch, server.key, how)
      BY <1>2, <1>5, <2>2, <3>1 DEF Settled, TakenKey
    <3>5. PICK e \in Nat, k \in 1 .. MaxKeys : e = server.epoch /\ k = server.key BY <1>3
    <3>. e <= server.epoch /\ (e = server.epoch => k = server.key) BY <1>3, <3>5
    <3>6. PICK s \in Space : Rekeyed(d, e, k, how) = [dev EXCEPT ![d] = s] /\ Follower(d, s, e, k)
      BY <1>5, <3>2, <3>3, <3>5, RekeyedSpace
    <3> QED BY <3>4, <3>5, <3>6 DEF Follower
  <2>3. CASE server.epoch = dev[d].epoch
    <3>1. PICK s : s = [dev[d] EXCEPT !.open = TRUE, !.pending = NoRotation] OBVIOUS
    <3>2. Settled(d, Wire) = [dev EXCEPT ![d] = s]
      <4>1. Settled(d, Wire) = [dev EXCEPT ![d].open = TRUE, ![d].pending = NoRotation]
        BY <1>2, <1>3, <1>5, <2>3 DEF Settled
      <4> QED BY <1>1, <3>1, <4>1 DEF Typed
    <3>3. s \in Space BY <1>1, <3>1, NothingTyped DEF Space
    <3>4. /\ s.open /\ s.space = dev[d].space /\ s.epoch = dev[d].epoch /\ s.key = dev[d].key /\ s.owed = dev[d].owed
          /\ s.pending = NoRotation /\ s.dirty = dev[d].dirty /\ s.rows = dev[d].rows /\ s.seq = dev[d].seq
          /\ s.requeue = dev[d].requeue
      BY <1>1, <3>1 DEF Space
    <3>5. SpaceFits(s) /\ RowsFit(d, s) BY <1>1, <1>5, <3>4 DEF SpaceFits, RowsFit
    <3> QED BY <1>5, <2>3, <3>2, <3>3, <3>4, <3>5
  <2> QED BY <2>1, <2>2, <2>3
<1> QED BY <1>1, <1>4, <1>5 DEF Space

\* settle: the list of teams, and the key.
LEMMA SettleStep == ASSUME Inv, NEW d \in Device, Settle(d) PROVE Inv'
<1>1. CASE Active(d) /\ Trusted(d, Wire)
  <2>1. PICK s \in Space :
           /\ Settled(d, Wire) = [dev EXCEPT ![d] = s]
           /\ s.open /\ s.space /\ s.epoch = server.epoch /\ s.owed = dev[d].owed
           /\ s.pending \in {dev[d].pending, NoRotation}
           /\ SpaceFits(s) /\ RowsFit(d, s)
    BY <1>1, SettledSpace
  <2>2. /\ dev' = [dev EXCEPT ![d] = s]
        /\ run' = [run EXCEPT ![d].pc = "note", ![d].wire = Wire, ![d].mine = Mine(d, Wire)]
        /\ UNCHANGED <<server, net, own, knows, took, older, spent>>
    BY <1>1, <2>1 DEF Settle, Ghosts
  <2>3. PICK t : t = [run[d] EXCEPT !.pc = "note", !.wire = Wire, !.mine = Mine(d, Wire)] OBVIOUS
  <2>4. run' = [run EXCEPT ![d] = t] BY <2>2, <2>3, DeviceFacts DEF Typed
  <2>5. Wire \in Wires /\ Wire.epoch = server.epoch /\ Wire.key = server.key BY DeviceFacts, WireTyped
  <2>6. "note" \in Place BY DEF Place, Inside
  <2>7. PICK mine \in BOOLEAN : mine = Mine(d, Wire)
    <3>1. Mine(d, Wire) = TRUE \/ Mine(d, Wire) = FALSE BY Zenon DEF Mine
    <3> QED BY <3>1, Zenon
  <2>8. mine => dev[d].pending.key = server.key
    <3> SUFFICES ASSUME mine = TRUE PROVE dev[d].pending.key = server.key BY Zenon
    <3>1. Mine(d, Wire) BY <2>7, Zenon
    <3>2. dev[d].pending = [epoch |-> Wire.epoch, key |-> Wire.key] BY <3>1 DEF Mine
    <3> QED BY <2>5, <3>2
  <2>9. t \in Task /\ t.pc = "note" /\ t.wire = Wire /\ t.mine = mine
    <3>1. t = [run[d] EXCEPT !.pc = "note", !.wire = Wire, !.mine = mine] BY <2>3, <2>7, Zenon
    <3>2. run[d] \in Task BY DeviceFacts
    <3> QED BY <2>5, <2>6, <3>1, <3>2 DEF Task
  <2>10. TaskFits(d, s, t) BY <2>1, <2>5, <2>9 DEF TaskFits
  <2>11. own' = [own EXCEPT ![d] = own[d]] /\ own[d] \in Account /\ spent' \in [events : Nat, edits : Nat]
    BY <2>2, DeviceFacts
  <2>12. s.owed \/ own[d].owes \/ ~Owes(d) BY <2>1 DEF Owes
  <2> QED BY <2>1, <2>2, <2>4, <2>8, <2>9, <2>10, <2>11, <2>12, OwnStep
<1>2. CASE ~(Active(d) /\ Trusted(d, Wire)) BY <1>2, BackStep DEF Settle, Back, Ghosts
<1> QED BY <1>1, <1>2

\* pass: a team that is not listed any more goes.
LEMMA GoneStep == ASSUME Inv, NEW d \in Device, Gone(d) PROVE Inv'
<1>1. /\ dev' = [dev EXCEPT ![d] = NoSpace] /\ run[d].pc = "idle" /\ server.state[d] = "out"
      /\ UNCHANGED <<server, net, own, run, knows, took, older, spent>>
  BY DEF Gone, At, Ghosts
<1>2. ~Active(d) BY <1>1 DEF Active
<1>3. /\ own' = [own EXCEPT ![d] = own[d]] /\ run' = [run EXCEPT ![d] = run[d]]
      /\ own[d] \in Account /\ run[d] \in Task /\ spent' \in [events : Nat, edits : Nat]
  BY <1>1, DeviceFacts
<1>4. TaskFits(d, NoSpace, run[d]) BY <1>1, OutsideFits
<1> QED BY <1>1, <1>2, <1>3, <1>4, NothingTyped, RestFits, OwnStep

------------------------------------------------------------------------------
(* What is owed, and what is sent                                           *)

\* Two spaces that differ in nothing the invariant looks at, but what is owed.
Alike(s, u) ==
  /\ u.space = s.space /\ u.open = s.open /\ u.epoch = s.epoch /\ u.key = s.key /\ u.requeue = s.requeue
  /\ u.pending = s.pending /\ u.rows = s.rows /\ u.dirty = s.dirty /\ u.seq = s.seq
  /\ ~s.space => u = s

\* If one of them fits, so does the other.
LEMMA AlikeFits ==
  ASSUME NEW d, NEW s, NEW u, Alike(s, u), SpaceFits(s), RowsFit(d, s)
  PROVE  SpaceFits(u) /\ RowsFit(d, u)
BY DEF Alike, SpaceFits, RowsFit

\* owe, with the team's space or in the account's own store.
LEMMA OwesFacts ==
  ASSUME Inv, NEW d \in Device, NEW b \in BOOLEAN, NEW base \in [Device -> Account]
  PROVE  \E s \in Space, o \in Account :
           /\ OwesHere(d, b) = [dev EXCEPT ![d] = s] /\ Alike(dev[d], s)
           /\ OwesThere(base, d, b) = [base EXCEPT ![d] = o] /\ o.pins = base[d].pins
           /\ dev[d].space => s.owed = b /\ o.owes = base[d].owes
           /\ ~dev[d].space => s.owed = dev[d].owed /\ o.owes = b
<1>1. dev[d] \in Space /\ Typed BY DeviceFacts
<1>2. PICK s : s = [dev[d] EXCEPT !.owed = IF dev[d].space THEN b ELSE dev[d].owed] OBVIOUS
<1>3. OwesHere(d, b) = [dev EXCEPT ![d] = s] BY <1>1, <1>2 DEF OwesHere, Typed
<1>4. PICK c \in BOOLEAN : c = IF dev[d].space THEN b ELSE dev[d].owed BY <1>1 DEF Space
<1>5. s = [dev[d] EXCEPT !.owed = c] BY <1>2, <1>4
<1>6. s \in Space /\ s.owed = c BY <1>1, <1>5 DEF Space
<1>7. Alike(dev[d], s)
  <2>1. /\ s.space = dev[d].space /\ s.open = dev[d].open /\ s.epoch = dev[d].epoch /\ s.key = dev[d].key
        /\ s.requeue = dev[d].requeue /\ s.pending = dev[d].pending /\ s.rows = dev[d].rows
        /\ s.dirty = dev[d].dirty /\ s.seq = dev[d].seq
    BY <1>1, <1>5 DEF Space
  <2>2. ~dev[d].space => c = dev[d].owed BY <1>4
  <2>3. ~dev[d].space => s = dev[d] BY <1>1, <1>5, <2>2 DEF Space
  <2> QED BY <2>1, <2>3 DEF Alike
<1>8. base[d] \in Account OBVIOUS
<1>9. PICK e \in BOOLEAN : e = IF dev[d].space THEN base[d].owes ELSE b BY <1>8 DEF Account
<1>10. PICK o : o = [base[d] EXCEPT !.owes = e] OBVIOUS
<1>11. o \in Account /\ o.pins = base[d].pins /\ o.owes = e BY <1>8, <1>10 DEF Account
<1>12. OwesThere(base, d, b) = [base EXCEPT ![d] = o] BY <1>9, <1>10 DEF OwesThere
<1>13. /\ dev[d].space => s.owed = b /\ o.owes = base[d].owes
       /\ ~dev[d].space => s.owed = dev[d].owed /\ o.owes = b
  BY <1>4, <1>6, <1>9, <1>11
<1> QED BY <1>3, <1>6, <1>7, <1>11, <1>12, <1>13

\* rotate_after_removal: what did not come about is written down once more.
LEMMA StopStep == ASSUME Inv, NEW d \in Device, Stop(d) PROVE Inv'
<1>1. /\ dev' = OwesHere(d, TRUE) /\ own' = OwesThere(own, d, TRUE) /\ run' = [run EXCEPT ![d] = AtRest]
      /\ UNCHANGED <<server, net, knows, took, older, spent>>
  BY DEF Stop, Rest, Ghosts
<1>2. own \in [Device -> Account] BY DEF Inv, Typed
<1>3. PICK s \in Space, o \in Account :
           /\ OwesHere(d, TRUE) = [dev EXCEPT ![d] = s] /\ Alike(dev[d], s)
           /\ OwesThere(own, d, TRUE) = [own EXCEPT ![d] = o] /\ o.pins = own[d].pins
           /\ dev[d].space => s.owed = TRUE /\ o.owes = own[d].owes
           /\ ~dev[d].space => s.owed = dev[d].owed /\ o.owes = TRUE
  BY <1>2, OwesFacts
<1>4. SpaceFits(s) /\ RowsFit(d, s) BY <1>3, DeviceFacts, AlikeFits
<1>5. s.owed \/ o.owes BY <1>3
<1>6. s.pending = dev[d].pending BY <1>3 DEF Alike
<1>7. spent' \in [events : Nat, edits : Nat] BY <1>1, DeviceFacts
<1> QED BY <1>1, <1>3, <1>4, <1>5, <1>6, <1>7, NothingTyped, RestFits, OwnStep

\* After settle: what was owed is given if the rotation was this device's.
LEMMA NoteStep == ASSUME Inv, NEW d \in Device, Note(d) PROVE Inv'
<1>1. /\ Typed /\ dev[d] \in Space /\ run[d] \in Task /\ own[d] \in Account
      /\ SpaceFits(dev[d]) /\ TaskFits(d, dev[d], run[d]) /\ RowsFit(d, dev[d])
      /\ spent \in [events : Nat, edits : Nat]
  BY DeviceFacts
<1>2. run[d].pc = "note" /\ run[d].mine \in BOOLEAN BY <1>1 DEF Note, At, Task
<1>3. dev[d].open /\ dev[d].space /\ dev[d].epoch = run[d].wire.epoch BY <1>1, <1>2 DEF TaskFits, SpaceFits, Inside
<1>4. PICK owed \in BOOLEAN : owed = (dev[d].owed /\ ~run[d].mine) BY <1>1, <1>2, Zenon DEF Space
<1>5. PICK owes \in BOOLEAN : owes = (own[d].owes /\ ~run[d].mine) BY <1>1, <1>2, Zenon DEF Account
<1>6. PICK s : s = [dev[d] EXCEPT !.owed = owed, !.sealed = TRUE] OBVIOUS
<1>7. PICK rec : rec = IF own[d].record.epoch < run[d].wire.epoch
                       THEN [epoch |-> run[d].wire.epoch, key |-> run[d].wire.key] ELSE own[d].record
  OBVIOUS
<1>8. rec \in Rotation BY <1>1, <1>7 DEF Rotation, Account, Task, Wires
<1>9. PICK o : o = [own[d] EXCEPT !.owes = owes, !.record = rec] OBVIOUS
<1>10. PICK pc : pc = IF run[d].goal = "confirm" THEN "admit" ELSE IF d \in Writer THEN "push" ELSE "pull" OBVIOUS
<1>11. pc \in {"admit", "push", "pull"} BY <1>10
<1>12. PICK t : t = [run[d] EXCEPT !.pc = pc, !.mine = FALSE] OBVIOUS
<1>13. dev' = [dev EXCEPT ![d] = s]
  <2>1. dev' = [dev EXCEPT ![d].owed = owed, ![d].sealed = TRUE] BY <1>4 DEF Note
  <2> QED BY <1>1, <1>6, <2>1 DEF Typed
<1>14. own' = [own EXCEPT ![d] = o]
  <2>1. own' = [own EXCEPT ![d].owes = owes, ![d].record = rec] BY <1>5, <1>7 DEF Note
  <2> QED BY <1>1, <1>9, <2>1 DEF Typed
<1>15. run' = [run EXCEPT ![d] = t]
  <2>1. run' = [run EXCEPT ![d].pc = pc, ![d].mine = FALSE] BY <1>10 DEF Note
  <2> QED BY <1>1, <1>12, <2>1 DEF Typed
<1>16. UNCHANGED <<server, net, knows, took, older, spent>> BY DEF Note, Ghosts
<1>17. s \in Space /\ Alike(dev[d], s) /\ s.owed = owed BY <1>1, <1>3, <1>6 DEF Space, Alike
<1>18. o \in Account /\ o.pins = own[d].pins /\ o.owes = owes BY <1>1, <1>8, <1>9 DEF Account
<1>19. pc \in Place BY <1>11 DEF Place, Inside
<1>20. t \in Task /\ t.pc = pc /\ t.wire = run[d].wire BY <1>1, <1>12, <1>19 DEF Task
<1>21. SpaceFits(s) /\ RowsFit(d, s) BY <1>1, <1>17, AlikeFits
<1>22. TaskFits(d, s, t) BY <1>3, <1>11, <1>17, <1>20 DEF TaskFits, Alike
<1>23. owed \/ owes \/ ~Owes(d) \/ (At(d, "note") /\ run[d].mine) BY <1>2, <1>4, <1>5, Zenon DEF Owes, At
<1>24. s.pending = dev[d].pending BY <1>17 DEF Alike
<1> HIDE DEF Owes
<1> QED BY <1>1, <1>11, <1>13, <1>14, <1>15, <1>16, <1>17, <1>18, <1>20, <1>21, <1>22, <1>23, <1>24, OwnStep

------------------------------------------------------------------------------
(* push, pull and team_requeue                                              *)

\* What a device sends is there afterwards; who is not named keeps what it owes.
LEMMA PushStep == ASSUME Inv, NEW d \in Device, Push(d) PROVE Inv'
<1>1. /\ Typed /\ dev[d] \in Space /\ run[d] \in Task /\ server \in Team
      /\ SpaceFits(dev[d]) /\ TaskFits(d, dev[d], run[d]) /\ RowsFit(d, dev[d])
  BY DeviceFacts
<1>2. run[d].pc = "push" /\ UNCHANGED <<net, own, knows, took, older, spent>> BY DEF Push, At, Ghosts
<1>3. CASE dev[d].dirty # {} /\ ~Current(d) BY <1>2, <1>3, BackStep DEF Push, Back
<1>4. CASE ~(dev[d].dirty # {} /\ ~Current(d))
  <2> DEFINE new == Takes(d)
             at  == server.cursor + 1
  <2>1. /\ server' = IF new = {} THEN server
                     ELSE [server EXCEPT !.cursor = at,
                             !.holds = [r \in Record |-> IF r \in new
                                          THEN [version |-> dev[d].rows[r], seq |-> at] ELSE server.holds[r]]]
        /\ dev' = [dev EXCEPT ![d].dirty = dev[d].dirty \ new,
                              ![d].seq = [r \in Record |-> IF r \in new THEN at ELSE dev[d].seq[r]]]
        /\ run' = [run EXCEPT ![d].pc = "pull", ![d].conflict = (new # dev[d].dirty)]
    BY <1>1, <1>4 DEF Push, Typed
  <2>2. new \subseteq dev[d].dirty BY DEF Takes
  <2>3. \A r \in new : r \in Record /\ dev[d].rows[r] \in Nat /\ dev[d].rows[r] # 0
    BY <1>1, <2>2 DEF Space, SpaceFits
  <2>4. at \in Nat /\ at # 0 BY <1>1 DEF Team
  <2> HIDE DEF new, at
  <2>5. PICK seq : seq = [r \in Record |-> IF r \in new THEN at ELSE dev[d].seq[r]] OBVIOUS
  <2>6. seq \in [Record -> Nat] BY <1>1, <2>4, <2>5 DEF Space
  <2>7. PICK dirty \in SUBSET Record : dirty = dev[d].dirty \ new BY <1>1 DEF Space
  <2>8. PICK s : s = [dev[d] EXCEPT !.dirty = dirty, !.seq = seq] OBVIOUS
  <2>9. dev' = [dev EXCEPT ![d] = s] BY <1>1, <2>1, <2>5, <2>7, <2>8 DEF Typed
  <2>10. s \in Space BY <1>1, <2>6, <2>8 DEF Space
  <2>11. /\ s.space = dev[d].space /\ s.open = dev[d].open /\ s.epoch = dev[d].epoch /\ s.key = dev[d].key
         /\ s.requeue = dev[d].requeue /\ s.pending = dev[d].pending /\ s.rows = dev[d].rows
         /\ s.owed = dev[d].owed /\ s.dirty = dirty /\ s.seq = seq
    BY <1>1, <2>8 DEF Space
  <2>12. PICK conflict \in BOOLEAN : conflict = (new # dev[d].dirty) BY Zenon
  <2>13. PICK t : t = [run[d] EXCEPT !.pc = "pull", !.conflict = conflict] OBVIOUS
  <2>14. run' = [run EXCEPT ![d] = t]
    <3>1. run' = [run EXCEPT ![d].pc = "pull", ![d].conflict = conflict] BY <2>1, <2>12
    <3> QED BY <1>1, <2>13, <3>1 DEF Typed
  <2>15. "pull" \in Place BY DEF Place, Inside
  <2>16. t \in Task /\ t.pc = "pull" /\ t.wire = run[d].wire BY <1>1, <2>13, <2>15 DEF Task
  <2>17. PICK holds : holds = [r \in Record |-> IF r \in new THEN [version |-> dev[d].rows[r], seq |-> at]
                                                 ELSE server.holds[r]]
    OBVIOUS
  <2>18. holds \in [Record -> Held] BY <1>1, <2>3, <2>4, <2>17 DEF Team, Held
  <2>19. /\ server' \in Team /\ server'.epoch = server.epoch /\ server'.key = server.key
         /\ server'.made = server.made /\ server'.state = server.state /\ server'.holds = holds
    <3>1. CASE new = {}
      <4>1. server' = server BY <2>1, <3>1
      <4>2. holds = server.holds BY <1>1, <2>17, <3>1 DEF Team
      <4> QED BY <1>1, <4>1, <4>2
    <3>2. CASE new # {}
      <4>1. server' = [server EXCEPT !.cursor = at, !.holds = holds] BY <2>1, <2>17, <3>2
      <4> QED BY <1>1, <2>4, <2>18, <4>1 DEF Team
    <3> QED BY <3>1, <3>2
  <2>20. \A r \in Record : /\ server.holds[r].seq # 0 => holds[r].seq # 0
                           /\ r \in new => holds[r].seq # 0 /\ holds[r].version # 0
                           /\ r \notin new => holds[r] = server.holds[r]
    BY <2>3, <2>4, <2>17
  <2>21. dev'[d] = s /\ run'[d] = t /\ own'[d] = own[d] BY <1>1, <1>2, <2>9, <2>14 DEF Typed
  <2>22. Fits(d)'
    <3>1. SpaceFits(s)' BY <1>1, <2>7, <2>11, <2>19, RestFits, <1>2 DEF SpaceFits, TaskFits, Inside
    <3>2. TaskFits(d, s, t)' BY <1>1, <1>2, <2>11, <2>16 DEF TaskFits, Inside
    <3>3. RowsFit(d, s)' BY <1>1, <2>4, <2>5, <2>7, <2>11, <2>19, <2>20 DEF RowsFit
    <3> QED BY <2>21, <3>1, <3>2, <3>3 DEF Fits, SpaceFits, TaskFits, RowsFit
  <2>23. Stored' BY <2>19, <2>20 DEF Stored, Inv
  <2>24. \A e, a \in Device : (Active(e)' <=> Active(e)) /\ (Bad(e, a)' <=> Bad(e, a))
    BY <1>2, <2>19 DEF Active, Bad
  <2>25. Taken' BY <1>2, <2>19 DEF Taken, Active, Inv
  <2>26. \A e \in Device : e # d => dev'[e] = dev[e] /\ run'[e] = run[e] /\ own'[e] = own[e]
    BY <1>1, <1>2, <2>9, <2>14 DEF Typed
  <2>27. Typed' BY <1>1, <1>2, <2>9, <2>10, <2>14, <2>16, <2>19 DEF Typed
  <2>28. ASSUME ~older PROVE (OwedOK(d) /\ WithOK(d) /\ GivenOK(d))'
    <3>1. OwedOK(d) /\ WithOK(d) /\ GivenOK(d) BY <2>28 DEF Inv
    <3>2. OwedOK(d)' BY <2>11, <2>16, <2>21, <2>24, <3>1 DEF OwedOK, Owes, At
    <3>3. WithOK(d)' BY <1>2, <2>11, <2>16, <2>21, <3>1 DEF WithOK, At
    <3>4. GivenOK(d)' BY <2>11, <2>16, <2>19, <2>21, <2>24, <3>1 DEF GivenOK, At
    <3> QED BY <3>2, <3>3, <3>4
  <2>29. \A r \in Record : server.holds[r].seq # 0 => server'.holds[r].seq # 0 BY <2>19, <2>20
  <2> QED BY <1>2, <2>11, <2>16, <2>19, <2>21, <2>22, <2>23, <2>24, <2>25, <2>26, <2>27, <2>28, <2>29, DeviceStep
<1> QED BY <1>3, <1>4

\* What a device pulls it has seen there.
LEMMA PullStep == ASSUME Inv, NEW d \in Device, Pull(d) PROVE Inv'
<1>1. /\ Typed /\ dev[d] \in Space /\ run[d] \in Task /\ server \in Team /\ own[d] \in Account
      /\ SpaceFits(dev[d]) /\ TaskFits(d, dev[d], run[d]) /\ RowsFit(d, dev[d])
  BY DeviceFacts, SMTT(30)
<1>2. run[d].pc = "pull" /\ UNCHANGED <<server, net, own, knows, took, older, spent>> BY DEF Pull, At, Ghosts
<1>3. CASE ~Current(d) BY <1>2, <1>3, BackStep DEF Pull, Back
<1>4. CASE Current(d)
  <2> DEFINE sent  == {r \in Record : server.holds[r].seq > dev[d].cursor}
             taken == {r \in sent : server.holds[r].version >= dev[d].rows[r]}
  <2>1. /\ dev' = [dev EXCEPT
                     ![d].rows = [r \in Record |-> IF r \in taken THEN server.holds[r].version ELSE dev[d].rows[r]],
                     ![d].dirty = dev[d].dirty \ taken,
                     ![d].seq = [r \in Record |-> IF r \in sent THEN server.holds[r].seq ELSE dev[d].seq[r]],
                     ![d].cursor = IF sent = {} THEN dev[d].cursor ELSE server.cursor]
        /\ run' = [run EXCEPT ![d].pc = IF run[d].conflict /\ d \in Writer THEN "push" ELSE "requeue",
                              ![d].wire.needs = server.needs, ![d].conflict = FALSE]
    BY <1>1, <1>4 DEF Pull, Typed
  <2>2. \A r \in sent : r \in Record /\ server.holds[r].seq \in Nat /\ server.holds[r].seq # 0
    BY <1>1 DEF Team, Held, Space
  <2>3. taken \subseteq sent OBVIOUS
  <2>4. \A r \in Record : server.holds[r].version \in Nat BY <1>1 DEF Team, Held
  <2> HIDE DEF sent, taken
  <2>5. PICK rows : rows = [r \in Record |-> IF r \in taken THEN server.holds[r].version ELSE dev[d].rows[r]] OBVIOUS
  <2>6. PICK seq : seq = [r \in Record |-> IF r \in sent THEN server.holds[r].seq ELSE dev[d].seq[r]] OBVIOUS
  <2>7. rows \in [Record -> Nat] /\ seq \in [Record -> Nat] BY <1>1, <2>2, <2>4, <2>5, <2>6 DEF Space
  <2>8. PICK dirty \in SUBSET Record : dirty = dev[d].dirty \ taken BY <1>1 DEF Space
  <2>9. PICK cursor \in Nat : cursor = IF sent = {} THEN dev[d].cursor ELSE server.cursor BY <1>1 DEF Space, Team
  <2>10. PICK s : s = [dev[d] EXCEPT !.rows = rows, !.dirty = dirty, !.seq = seq, !.cursor = cursor] OBVIOUS
  <2>11. dev' = [dev EXCEPT ![d] = s] BY <1>1, <2>1, <2>5, <2>6, <2>8, <2>9, <2>10 DEF Typed
  <2>12. s \in Space BY <1>1, <2>7, <2>10 DEF Space
  <2>13. /\ s.space = dev[d].space /\ s.open = dev[d].open /\ s.epoch = dev[d].epoch /\ s.key = dev[d].key
         /\ s.requeue = dev[d].requeue /\ s.pending = dev[d].pending /\ s.rows = rows
         /\ s.owed = dev[d].owed /\ s.dirty = dirty /\ s.seq = seq
    BY <1>1, <2>10 DEF Space
  <2>14. PICK pc : pc = IF run[d].conflict /\ d \in Writer THEN "push" ELSE "requeue" OBVIOUS
  <2>15. pc \in {"push", "requeue"} BY <2>14
  <2>16. PICK w : w = [run[d].wire EXCEPT !.needs = server.needs] OBVIOUS
  <2>17. w \in Wires /\ w.epoch = run[d].wire.epoch BY <1>1, <2>16 DEF Task, Wires, Team
  <2>18. PICK t : t = [run[d] EXCEPT !.pc = pc, !.wire = w, !.conflict = FALSE] OBVIOUS
  <2>19. run' = [run EXCEPT ![d] = t]
    <3>1. run' = [run EXCEPT ![d].pc = pc, ![d].wire = w, ![d].conflict = FALSE] BY <1>1, <2>1, <2>14, <2>16 DEF Typed, Task
    <3> QED BY <1>1, <2>18, <3>1 DEF Typed
  <2>20. pc \in Place BY <2>15 DEF Place, Inside
  <2>21. t \in Task /\ t.pc = pc /\ t.wire = w BY <1>1, <2>17, <2>18, <2>20 DEF Task
  <2>22. \A r \in Record : /\ r \in taken \/ rows[r] = dev[d].rows[r]
                           /\ r \in sent => seq[r] # 0 /\ server.holds[r].seq # 0
                           /\ r \notin sent => seq[r] = dev[d].seq[r] /\ rows[r] = dev[d].rows[r] /\ r \notin taken
    BY <2>2, <2>3, <2>5, <2>6
  <2>23. dev[d].open BY <1>1, <1>2 DEF TaskFits, Inside
  <2>24. SpaceFits(s) BY <1>1, <2>8, <2>13, <2>22, <2>23 DEF SpaceFits
  <2>25. RowsFit(d, s) BY <1>1, <2>8, <2>13, <2>22 DEF RowsFit
  <2>26. TaskFits(d, s, t) BY <1>1, <1>2, <2>13, <2>15, <2>17, <2>21 DEF TaskFits, Inside
  <2>27. own' = [own EXCEPT ![d] = own[d]] /\ spent' \in [events : Nat, edits : Nat] BY <1>2, DeviceFacts
  <2>28. s.owed \/ own[d].owes \/ ~Owes(d) BY <2>13 DEF Owes
  <2> QED BY <1>1, <1>2, <2>11, <2>12, <2>13, <2>15, <2>19, <2>21, <2>24, <2>25, <2>26, <2>27, <2>28, OwnStep
<1> QED BY <1>3, <1>4

\* team_requeue: what was not seen there waits to be sent.
LEMMA RequeueStep == ASSUME Inv, NEW d \in Device, Requeue(d) PROVE Inv'
<1>1. /\ Typed /\ dev[d] \in Space /\ run[d] \in Task /\ server \in Team /\ own[d] \in Account
      /\ SpaceFits(dev[d]) /\ TaskFits(d, dev[d], run[d]) /\ RowsFit(d, dev[d])
  BY DeviceFacts
<1>2. run[d].pc = "requeue" /\ UNCHANGED <<server, net, own, knows, took, older, spent>> BY DEF Requeue, At, Ghosts
<1> DEFINE again == IF d \in Writer /\ dev[d].requeue THEN Queued(d) ELSE {}
<1>3. /\ dev' = [dev EXCEPT ![d].requeue = dev[d].requeue /\ d \notin Writer, ![d].dirty = dev[d].dirty \cup again]
      /\ \/ Goto(d, "push") \/ Goto(d, "members") \/ Rest(d)
         \/ run' = [run EXCEPT ![d] = [AtRest EXCEPT !.pc = "one", !.goal = "rotate"]]
  BY <1>1 DEF Requeue, Typed
<1>4. /\ again \subseteq {r \in Record : dev[d].rows[r] # 0}
      /\ \A r \in Record : d \in Writer /\ dev[d].requeue /\ dev[d].rows[r] # 0 /\ r \notin again /\ r \notin dev[d].dirty
           => dev[d].seq[r] # 0
  BY DEF Queued
<1> HIDE DEF again
<1>5. PICK dirty \in SUBSET Record : dirty = dev[d].dirty \cup again BY <1>1, <1>4 DEF Space
<1>6. PICK requeue \in BOOLEAN : requeue = (dev[d].requeue /\ d \notin Writer) BY Zenon
<1>7. PICK s : s = [dev[d] EXCEPT !.requeue = requeue, !.dirty = dirty] OBVIOUS
<1>8. dev' = [dev EXCEPT ![d] = s]
  <2>1. dev' = [dev EXCEPT ![d].requeue = requeue, ![d].dirty = dirty] BY <1>3, <1>5, <1>6
  <2> QED BY <1>1, <1>7, <2>1 DEF Typed
<1>9. s \in Space BY <1>1, <1>7 DEF Space
<1>10. /\ s.space = dev[d].space /\ s.open = dev[d].open /\ s.epoch = dev[d].epoch /\ s.key = dev[d].key
       /\ s.requeue = requeue /\ s.pending = dev[d].pending /\ s.rows = dev[d].rows
       /\ s.owed = dev[d].owed /\ s.dirty = dirty /\ s.seq = dev[d].seq
  BY <1>1, <1>7 DEF Space
<1>11. dev[d].open /\ dev[d].epoch = run[d].wire.epoch BY <1>1, <1>2 DEF TaskFits, Inside
<1>12. SpaceFits(s) BY <1>1, <1>4, <1>5, <1>10, <1>11 DEF SpaceFits
<1>13. RowsFit(d, s) BY <1>1, <1>4, <1>5, <1>6, <1>10 DEF RowsFit
<1>14. PICK t \in Task : /\ run' = [run EXCEPT ![d] = t] /\ t.pc \notin {"ask", "answered", "take", "note"}
                         /\ TaskFits(d, s, t)
  <2>1. ASSUME NEW pc \in {"push", "members"}, Goto(d, pc)
        PROVE \E t \in Task : /\ run' = [run EXCEPT ![d] = t] /\ t.pc \notin {"ask", "answered", "take", "note"}
                              /\ TaskFits(d, s, t)
    <3>1. PICK t : t = [run[d] EXCEPT !.pc = pc] OBVIOUS
    <3>2. pc \in Place BY DEF Place, Inside
    <3>3. t \in Task /\ t.pc = pc /\ t.wire = run[d].wire BY <1>1, <3>1, <3>2 DEF Task
    <3>4. run' = [run EXCEPT ![d] = t] BY <1>1, <2>1, <3>1 DEF Goto, Typed
    <3>5. TaskFits(d, s, t) BY <1>10, <1>11, <3>3 DEF TaskFits
    <3> QED BY <3>3, <3>4, <3>5
  <2>2. CASE Rest(d) BY <2>2, NothingTyped, RestFits DEF Rest
  <2>3. CASE run' = [run EXCEPT ![d] = [AtRest EXCEPT !.pc = "one", !.goal = "rotate"]]
    <3>1. PICK t : t = [AtRest EXCEPT !.pc = "one", !.goal = "rotate"] OBVIOUS
    <3>2. "one" \in Place /\ "rotate" \in Goals BY DEF Place, Goals
    <3>3. t \in Task /\ t.pc = "one" BY <3>1, <3>2, NothingTyped DEF Task
    <3>4. TaskFits(d, s, t) BY <3>3, OutsideFits
    <3> QED BY <2>3, <3>1, <3>3, <3>4
  <2> QED BY <1>3, <2>1, <2>2, <2>3
<1>15. own' = [own EXCEPT ![d] = own[d]] /\ spent' \in [events : Nat, edits : Nat] BY <1>2, DeviceFacts
<1>16. s.owed \/ own[d].owes \/ ~Owes(d) BY <1>10 DEF Owes
<1> QED BY <1>1, <1>2, <1>8, <1>9, <1>10, <1>12, <1>13, <1>14, <1>15, <1>16, OwnStep

------------------------------------------------------------------------------
(* rotate                                                                   *)

\* handed_on: the marks a new key comes with are as many as a wrap carries.
LEMMA HandedOnTyped == ASSUME NEW w \in Wires PROVE HandedOn(w) \in Chain
<1>1. w.key \in Nat /\ w.earlier \in Seq(Nat) /\ Len(w.earlier) <= MaxEarlier BY TeamsAssumption DEF Wires, Key, Chain
<1>2. PICK s : s = <<w.key>> \o w.earlier OBVIOUS
<1>3. s \in Seq(Nat) /\ Len(s) = Len(w.earlier) + 1 BY <1>1, <1>2
<1>4. PICK n \in Nat : n = IF Len(w.earlier) < MaxEarlier THEN Len(w.earlier) + 1 ELSE MaxEarlier
  BY <1>1, TeamsAssumption
<1>5. n <= Len(s) /\ n <= MaxEarlier BY <1>1, <1>3, <1>4, TeamsAssumption
<1>6. SubSeq(s, 1, n) \in Seq(Nat) /\ Len(SubSeq(s, 1, n)) = n BY <1>3, <1>4, <1>5
<1>7. HandedOn(w) = SubSeq(s, 1, n) BY <1>2, <1>4 DEF HandedOn
<1> QED BY <1>5, <1>6, <1>7 DEF Chain

\* A rotation is noted with a key nobody has, and asked for without who was taken out.
LEMMA LookAtStep == ASSUME Inv, NEW d \in Device, LookAtMembers(d) PROVE Inv'
<1>1. /\ Typed /\ dev[d] \in Space /\ run[d] \in Task /\ server \in Team /\ own[d] \in Account
      /\ SpaceFits(dev[d]) /\ TaskFits(d, dev[d], run[d]) /\ RowsFit(d, dev[d])
  BY DeviceFacts
<1>2. run[d].pc = "members" /\ UNCHANGED <<net, own, knows, took, older, spent>> BY DEF LookAtMembers, At, Ghosts
<1>3. CASE ~Active(d) \/ \E a \in Members \ {d} : own[d].pins[a] # "confirmed"
  BY <1>2, <1>3, BackStep DEF LookAtMembers, Back
<1>4. CASE ~(~Active(d) \/ \E a \in Members \ {d} : own[d].pins[a] # "confirmed")
  <2> DEFINE key == server.made + 1
  <2>1. /\ server.made < MaxKeys
        /\ server' = [server EXCEPT !.made = key]
        /\ dev' = [dev EXCEPT ![d].pending = [epoch |-> run[d].wire.epoch + 1, key |-> key]]
        /\ run' = [run EXCEPT ![d].pc = "ask", ![d].with = Members,
                     ![d].ask = [epoch |-> run[d].wire.epoch + 1, key |-> key,
                                 earlier |-> HandedOn(run[d].wire), needs |-> FALSE]]
    BY <1>4 DEF LookAtMembers
  <2>2. /\ key \in 1 .. MaxKeys /\ key \in Key /\ key \in Nat /\ server.made \in Nat /\ key > server.made
        /\ key \notin 1 .. server.made /\ 1 .. server.made \subseteq 1 .. key /\ key \in 1 .. key
        /\ server.key <= server.made /\ server.key # key /\ server.key <= key
    BY <1>1, <2>1, TeamsAssumption DEF Team, Key, Inv, KnownKeys
  <2> HIDE DEF key
  <2>3. run[d].wire \in Wires /\ run[d].wire.epoch \in Nat BY <1>1 DEF Task, Wires
  <2>4. PICK p : p = [epoch |-> run[d].wire.epoch + 1, key |-> key] OBVIOUS
  <2>5. PICK ask : ask = [epoch |-> run[d].wire.epoch + 1, key |-> key, earlier |-> HandedOn(run[d].wire), needs |-> FALSE]
    OBVIOUS
  <2>6. /\ p \in Rotation /\ p.epoch = run[d].wire.epoch + 1 /\ p.key = key
        /\ ask \in Wires /\ ask.epoch = run[d].wire.epoch + 1 /\ ask.key = key
    BY <2>2, <2>3, <2>4, <2>5, HandedOnTyped DEF Rotation, Wires
  <2>7. PICK s : s = [dev[d] EXCEPT !.pending = p] OBVIOUS
  <2>8. PICK t : t = [run[d] EXCEPT !.pc = "ask", !.with = Members, !.ask = ask] OBVIOUS
  <2>9. dev' = [dev EXCEPT ![d] = s] BY <1>1, <2>1, <2>4, <2>7 DEF Typed
  <2>10. run' = [run EXCEPT ![d] = t] BY <1>1, <2>1, <2>5, <2>8 DEF Typed
  <2>11. /\ s \in Space /\ s.space = dev[d].space /\ s.open = dev[d].open /\ s.epoch = dev[d].epoch /\ s.key = dev[d].key
         /\ s.requeue = dev[d].requeue /\ s.pending = p /\ s.rows = dev[d].rows
         /\ s.owed = dev[d].owed /\ s.dirty = dev[d].dirty /\ s.seq = dev[d].seq
    BY <1>1, <2>6, <2>7 DEF Space
  <2>12. "ask" \in Place /\ Members \in SUBSET Device BY DEF Place, Inside, Members
  <2>13. t \in Task /\ t.pc = "ask" /\ t.wire = run[d].wire /\ t.with = Members /\ t.ask = ask
    BY <1>1, <2>6, <2>8, <2>12 DEF Task
  <2>14. /\ server' \in Team /\ server'.made = key /\ server'.epoch = server.epoch /\ server'.key = server.key
         /\ server'.holds = server.holds /\ server'.state = server.state
    BY <1>1, <2>1, <2>2 DEF Team
  <2>15. dev'[d] = s /\ run'[d] = t BY <1>1, <2>9, <2>10 DEF Typed
  <2>16. \A e \in Device : e # d => dev'[e] = dev[e] /\ run'[e] = run[e] BY <1>1, <2>9, <2>10 DEF Typed
  <2>17. Typed' BY <1>1, <1>2, <2>9, <2>10, <2>11, <2>13, <2>14 DEF Typed
  <2>18. ASSUME NEW e \in Device PROVE Fits(e)'
    <3>1. Fits(e) BY DEF Inv
    <3>2. CASE e = d
      <4>1. dev[d].open /\ dev[d].space /\ dev[d].epoch = run[d].wire.epoch BY <1>1, <1>2 DEF TaskFits, SpaceFits, Inside
      <4>2. SpaceFits(s)' BY <1>1, <2>6, <2>11, <2>14, <4>1 DEF SpaceFits
      <4>3. TaskFits(d, s, t)' BY <2>2, <2>4, <2>6, <2>11, <2>13, <2>14, <4>1 DEF TaskFits
      <4>4. RowsFit(d, s)' BY <1>1, <2>11, <2>14 DEF RowsFit
      <4> QED BY <2>15, <3>2, <4>2, <4>3, <4>4 DEF Fits, SpaceFits, TaskFits, RowsFit
    <3>3. CASE e # d
      <4>1. dev'[e] = dev[e] /\ run'[e] = run[e] BY <2>16, <3>3
      <4>2. SpaceFits(dev[e])' BY <2>14, <3>1, <4>1 DEF Fits, SpaceFits
      <4>3. TaskFits(e, dev[e], run[e])' BY <2>2, <2>14, <3>1, <4>1 DEF Fits, TaskFits
      <4>4. RowsFit(e, dev[e])' BY <2>14, <3>1, <4>1 DEF Fits, RowsFit
      <4> QED BY <4>2, <4>3, <4>4 DEF Fits
    <3> QED BY <3>2, <3>3
  <2>19. Stored' BY <2>14 DEF Inv, Stored
  <2>20. Stored /\ KnownKeys /\ Asked /\ Asking /\ Taken BY DEF Inv
  <2>21. \A e \in Device : dev[e].pending.key \in Nat /\ dev[e].pending.key # key /\ dev[e].pending.key <= key
    BY <1>1, <2>2, <2>20 DEF Typed, Space, Rotation, Key, KnownKeys
  <2>22. KnownKeys' BY <1>2, <2>2, <2>6, <2>11, <2>14, <2>15, <2>16, <2>20, <2>21 DEF KnownKeys
  <2>23. \A m \in net : m.ask.key # key BY <2>2, <2>20 DEF Asked
  <2>24. Asked' BY <1>2, <2>2, <2>6, <2>11, <2>14, <2>15, <2>16, <2>20, <2>23 DEF Asked
  <2>25. \A e \in Device : At(e, "ask") => run[e].ask.key # key
    <3> SUFFICES ASSUME NEW e \in Device, At(e, "ask") PROVE run[e].ask.key # key OBVIOUS
    <3>1. run[e].ask.key \in 1 .. server.made BY DEF Inv, Fits, TaskFits, At
    <3> QED BY <2>2, <3>1
  <2>26. Asking'
    <3>1. \A e \in Device : e # d /\ At(e, "ask")' => At(e, "ask") /\ run'[e].ask = run[e].ask BY <2>16 DEF At
    <3>2. run'[d].ask.key = key /\ dev'[d].pending.key = key BY <2>6, <2>11, <2>13, <2>15
    <3>3. \A e \in Device : At(e, "ask")' => run'[e].ask.key # server'.key
      BY <2>2, <2>14, <2>20, <3>1, <3>2 DEF Asking
    <3>4. \A e, a \in Device : At(e, "ask")' => run'[e].ask.key \notin knows'[a]
      BY <1>2, <2>2, <2>20, <3>1, <3>2 DEF Asking, KnownKeys
    <3>5. \A e, f \in Device : At(e, "ask")' /\ run'[e].ask.key = dev'[f].pending.key => e = f
      BY <2>16, <2>20, <2>21, <2>25, <3>1, <3>2 DEF Asking
    <3>6. \A e \in Device, m \in net' : At(e, "ask")' => run'[e].ask.key # m.ask.key
      BY <1>2, <2>20, <2>23, <3>1, <3>2 DEF Asking
    <3> QED BY <3>3, <3>4, <3>5, <3>6 DEF Asking
  <2>27. Taken' BY <1>2, <2>14, <2>20 DEF Taken, Active
  <2>28. \A e, a \in Device : (Active(e)' <=> Active(e)) /\ (Bad(e, a)' <=> Bad(e, a))
    BY <1>2, <2>14 DEF Active, Bad
  <2>29. ASSUME ~older', NEW e \in Device PROVE (OwedOK(e) /\ WithOK(e) /\ GivenOK(e))'
    <3>1. OwedOK(e) /\ WithOK(e) /\ GivenOK(e) BY <1>2, <2>29 DEF Inv
    <3>2. CASE e = d
      <4>1. OwedOK(d)' BY <1>2, <2>11, <2>13, <2>15, <2>28, <3>1, <3>2 DEF OwedOK, Owes, At
      <4>2. \A a \in Device : <<d, a>> \in took => a \notin Members
        BY <1>4, <2>20 DEF Taken, Members
      <4>3. WithOK(d)' BY <1>2, <2>6, <2>11, <2>13, <2>15, <2>23, <4>2 DEF WithOK
      <4>4. GivenOK(d)' BY <2>2, <2>6, <2>11, <2>13, <2>14, <2>15 DEF GivenOK, At
      <4> QED BY <3>2, <4>1, <4>3, <4>4
    <3>3. CASE e # d
      <4>1. dev'[e] = dev[e] /\ run'[e] = run[e] /\ own'[e] = own[e] BY <1>2, <2>16, <3>3
      <4>2. OwedOK(e)' BY <2>28, <3>1, <4>1 DEF OwedOK, Owes, OwesElse, At
      <4>3. WithOK(e)' BY <1>2, <3>1, <4>1 DEF WithOK, At
      <4>4. GivenOK(e)' BY <2>14, <2>28, <3>1, <4>1 DEF GivenOK, At
      <4> QED BY <4>2, <4>3, <4>4
    <3> QED BY <3>2, <3>3
  <2> QED BY <2>17, <2>18, <2>19, <2>22, <2>24, <2>26, <2>27, <2>29 DEF Inv
<1> QED BY <1>3, <1>4

\* The server changes the key, for the device that waits for the answer or for one that
\* does not any more.  The key is new to everybody it is for, and it is not for who was
\* taken out by the device that made it.
LEMMA ChangedStep ==
  ASSUME Inv, NEW ask \in Wires, ask.epoch = server.epoch + 1, ask.key \in 1 .. server.made,
         \A a \in Device : ask.key \notin knows[a], Changed(ask),
         run' \in [Device -> Task], net' \subseteq net, UNCHANGED <<dev, own, took, older, spent>>,
         \A e \in Device : \/ run'[e] = run[e]
                           \/ /\ At(e, "ask") /\ run[e].ask = ask
                              /\ run'[e] = [run[e] EXCEPT !.pc = "answered"],
         \A m \in net' : m.ask.key # ask.key,
         \A e \in Device : At(e, "ask")' => run[e].ask.key # ask.key,
         ~older => \A e, a \in Device : <<e, a>> \in took /\ dev[e].pending.key = ask.key => a \notin Members
  PROVE  Inv'
<1>1. Typed /\ Stored /\ KnownKeys /\ Asked /\ Asking /\ Taken /\ server \in Team BY DEF Inv, Typed
<1>2. PICK holds : holds = [r \in Record |-> [version |-> 0, seq |-> 0]] OBVIOUS
<1>3. holds \in [Record -> Held] /\ \A r \in Record : holds[r].seq = 0 BY <1>2 DEF Held
<1>4. server.made \in 1 .. MaxKeys /\ server.epoch \in Nat /\ ask.key \in 1 .. MaxKeys /\ ask.key \in Nat
      /\ ask.key <= server.made
  BY <1>1, TeamsAssumption DEF Team
<1>5. /\ server' \in Team /\ server'.epoch = ask.epoch /\ server'.key = ask.key /\ server'.made = server.made
      /\ server'.state = server.state /\ server'.holds = holds
  <2>1. server' = [server EXCEPT !.epoch = ask.epoch, !.key = ask.key, !.earlier = ask.earlier,
                                 !.needs = FALSE, !.holds = holds]
    BY <1>2 DEF Changed
  <2>2. ask.earlier \in Chain /\ ask.epoch \in Nat BY DEF Wires
  <2> QED BY <1>1, <1>3, <1>4, <2>1, <2>2 DEF Team
<1>6. /\ knows' \in [Device -> SUBSET Nat]
      /\ \A a \in Device : knows'[a] \subseteq knows[a] \cup {ask.key} /\ (ask.key \in knows'[a] => Active(a))
  <2>1. knows' = [a \in Device |-> IF a \in Members THEN knows[a] \cup {ask.key} ELSE knows[a]] BY DEF Changed
  <2>2. knows \in [Device -> SUBSET Nat] BY <1>1 DEF Typed
  <2>3. \A a \in Device : a \in Members => Active(a) BY DEF Members
  <2> QED BY <1>4, <2>1, <2>2, <2>3
<1>7. \A e \in Device :
        /\ dev'[e] = dev[e] /\ own'[e] = own[e] /\ run'[e].ask = run[e].ask /\ run'[e].wire = run[e].wire
        /\ run'[e].with = run[e].with /\ run'[e].mine = run[e].mine /\ run'[e].before = run[e].before
        /\ run'[e].pc = run[e].pc \/ (run[e].pc = "ask" /\ run'[e].pc = "answered" /\ run[e].ask = ask)
  <2> SUFFICES ASSUME NEW e \in Device
               PROVE /\ dev'[e] = dev[e] /\ own'[e] = own[e] /\ run'[e].ask = run[e].ask /\ run'[e].wire = run[e].wire
                     /\ run'[e].with = run[e].with /\ run'[e].mine = run[e].mine /\ run'[e].before = run[e].before
                     /\ run'[e].pc = run[e].pc \/ (run[e].pc = "ask" /\ run'[e].pc = "answered" /\ run[e].ask = ask)
    OBVIOUS
  <2>1. run[e] \in Task BY <1>1 DEF Typed
  <2> QED BY <2>1 DEF Task, At
<1>8. Typed' BY <1>1, <1>5, <1>6 DEF Typed
<1>9. ASSUME NEW e \in Device PROVE Fits(e)'
  <2>1. Fits(e) /\ dev[e] \in Space /\ run[e] \in Task BY <1>1 DEF Inv, Typed
  <2>2. dev'[e] = dev[e] /\ dev[e].epoch \in Nat /\ server'.epoch = server.epoch + 1 BY <1>5, <1>7, <2>1 DEF Space
  <2>3. dev[e].space => dev[e].epoch <= server.epoch BY <2>1 DEF Fits, SpaceFits
  <2>4. SpaceFits(dev[e])' BY <1>4, <2>1, <2>2, <2>3 DEF Fits, SpaceFits
  <2>5. RowsFit(e, dev[e])' BY <1>4, <2>1, <2>2, <2>3 DEF Fits, RowsFit
  <2>6. TaskFits(e, dev[e], run[e])'
    <3>1. run[e].pc = "answered" => run[e].ask.epoch <= server.epoch /\ run[e].ask.epoch \in Nat
      BY <2>1 DEF Fits, TaskFits, Task, Wires
    <3>2. run'[e].pc \in Inside => run[e].pc \in Inside BY <1>7 DEF Inside
    <3>3. run'[e].pc \in {"ask", "answered"} => run[e].pc \in {"ask", "answered"} BY <1>7
    <3>4. run'[e].pc = "answered" => \/ run[e].pc = "answered" \/ run[e].ask = ask BY <1>7
    <3>5. run'[e].pc = "forget" => run[e].pc = "forget" BY <1>7
    <3>6. TaskFits(e, dev[e], run[e]) BY <2>1 DEF Fits
    <3>7. run'[e].pc = "answered" =>
            /\ run[e].ask.epoch <= server'.epoch
            /\ run[e].ask.epoch = server'.epoch => run[e].ask.key = server'.key
      BY <1>4, <1>5, <3>1, <3>4
    <3>8. run'[e].ask = run[e].ask /\ run'[e].wire = run[e].wire BY <1>7
    <3> QED BY <1>5, <2>2, <3>2, <3>3, <3>5, <3>6, <3>7, <3>8 DEF TaskFits
  <2> QED BY <2>4, <2>5, <2>6 DEF Fits
<1>10. Stored' BY <1>3, <1>5 DEF Stored
<1>11. KnownKeys'
  <2>1. \A a \in Device : knows'[a] \subseteq 1 .. server.made BY <1>1, <1>6 DEF KnownKeys
  <2> QED BY <1>1, <1>4, <1>5, <1>7, <2>1 DEF KnownKeys
<1>12. Asked'
  <2>1. \A m \in net', a \in Device : m.ask.key \notin knows'[a] BY <1>1, <1>6 DEF Asked
  <2> QED BY <1>1, <1>5, <1>7, <2>1 DEF Asked
<1>13. Asking'
  <2>1. \A e \in Device : At(e, "ask")' => At(e, "ask") /\ run'[e].ask = run[e].ask BY <1>7 DEF At
  <2>2. \A e \in Device : At(e, "ask")' => run'[e].ask.key # server'.key BY <1>5, <2>1
  <2>3. \A e, a \in Device : At(e, "ask")' => run'[e].ask.key \notin knows'[a] BY <1>1, <1>6, <2>1 DEF Asking
  <2>4. \A e, f \in Device : At(e, "ask")' /\ run'[e].ask.key = dev'[f].pending.key => e = f
    BY <1>1, <1>7, <2>1 DEF Asking
  <2>5. \A e \in Device, m \in net' : At(e, "ask")' => run'[e].ask.key # m.ask.key BY <1>1, <2>1 DEF Asking
  <2> QED BY <2>2, <2>3, <2>4, <2>5 DEF Asking
<1>14. \A e \in Device : Active(e)' <=> Active(e) BY <1>5 DEF Active
<1>15. Taken' BY <1>1, <1>5, <1>14 DEF Taken
<1>16. \A e, a \in Device : Bad(e, a)' => Bad(e, a) /\ Active(a) BY <1>5, <1>6, <1>14 DEF Bad
<1>17. ASSUME ~older', NEW e \in Device PROVE (OwedOK(e) /\ WithOK(e) /\ GivenOK(e))'
  <2>1. OwedOK(e) /\ WithOK(e) /\ GivenOK(e) BY <1>17 DEF Inv
  <2>2. OwedOK(e)'
    <3>1. At(e, "take")' => At(e, "take") BY <1>7 DEF At
    <3>2. (Owes(e)' <=> Owes(e)) /\ (OwesElse(e)' <=> OwesElse(e)) BY <1>7 DEF Owes, OwesElse
    <3>3. run'[e].with = run[e].with BY <1>7
    <3>4. \A a \in Device : (Active(e) /\ Bad(e, a))' => Active(e) /\ Bad(e, a) BY <1>14, <1>16
    <3> QED BY <2>1, <3>1, <3>2, <3>3, <3>4 DEF OwedOK
  <2>3. WithOK(e)'
    <3>1. At(e, "ask")' => At(e, "ask") BY <1>7 DEF At
    <3> QED BY <1>7, <2>1, <3>1 DEF WithOK
  <2>4. GivenOK(e)'
    <3>1. CASE dev[e].pending.key = ask.key
      <4>1. \A a \in Device : <<e, a>> \in took => ~Active(a) BY <1>17, <3>1 DEF Members
      <4>2. \A a \in Device : ~Bad(e, a)' BY <1>16, <4>1 DEF Bad
      <4> QED BY <4>2 DEF GivenOK
    <3>2. CASE dev[e].pending.key # ask.key
      <4>1. At(e, "answered")' => At(e, "answered")
        <5>1. TaskFits(e, dev[e], run[e]) BY DEF Inv, Fits
        <5>2. run[e].pc = "ask" => dev[e].pending.key = run[e].ask.key BY <5>1 DEF TaskFits
        <5> QED BY <1>7, <3>2, <5>2 DEF At
      <4>2. (At(e, "note") /\ run[e].mine)' => At(e, "note") /\ run[e].mine BY <1>7 DEF At
      <4>3. dev'[e].pending.key # server'.key BY <1>5, <1>7, <3>2
      <4>4. \A a \in Device : (Active(e) /\ Bad(e, a))' => Active(e) /\ Bad(e, a) BY <1>14, <1>16
      <4> QED BY <2>1, <4>1, <4>2, <4>3, <4>4 DEF GivenOK
    <3> QED BY <3>1, <3>2
  <2> QED BY <2>2, <2>3, <2>4
<1> QED BY <1>8, <1>9, <1>10, <1>11, <1>12, <1>13, <1>15, <1>17 DEF Inv

\* rotate: the server's answer.
LEMMA AskStep == ASSUME Inv, NEW d \in Device, Ask(d) PROVE Inv'
<1>1. /\ Typed /\ dev[d] \in Space /\ run[d] \in Task /\ own[d] \in Account
      /\ SpaceFits(dev[d]) /\ TaskFits(d, dev[d], run[d]) /\ RowsFit(d, dev[d])
  BY DeviceFacts
<1>2. run[d].pc = "ask" /\ At(d, "ask") /\ UNCHANGED <<net, own, took, older, spent>> BY DEF Ask, At, Ghosts
<1>3. CASE Accepts(d, run[d].ask, run[d].with, dev[d].cursor)
  <2>1. Changed(run[d].ask) /\ run' = [run EXCEPT ![d].pc = "answered"] /\ UNCHANGED dev
    BY <1>3 DEF Ask, Goto
  <2>2. PICK t : t = [run[d] EXCEPT !.pc = "answered"] OBVIOUS
  <2>3. run' = [run EXCEPT ![d] = t] BY <1>1, <2>1, <2>2 DEF Typed
  <2>4. "answered" \in Place BY DEF Place, Inside
  <2>5. t \in Task /\ t.pc = "answered" /\ run[d].ask \in Wires BY <1>1, <2>2, <2>4 DEF Task
  <2>6. run' \in [Device -> Task] /\ run'[d] = t /\ \A e \in Device : e # d => run'[e] = run[e]
    BY <1>1, <2>3, <2>5 DEF Typed
  <2>7. \A e \in Device : \/ run'[e] = run[e]
                          \/ /\ At(e, "ask") /\ run[e].ask = run[d].ask
                             /\ run'[e] = [run[e] EXCEPT !.pc = "answered"]
    BY <1>2, <2>2, <2>6
  <2>8. /\ run[d].ask.key \in 1 .. server.made /\ dev[d].pending.key = run[d].ask.key
    BY <1>1, <1>2 DEF TaskFits
  <2>9. /\ \A a \in Device : run[d].ask.key \notin knows[a]
        /\ \A m \in net' : m.ask.key # run[d].ask.key
        /\ \A e \in Device : run[d].ask.key = dev[e].pending.key => e = d
        /\ \A e \in Device : At(e, "ask") /\ run[e].ask.key = run[d].ask.key => e = d
    BY <1>2, <2>8 DEF Inv, Asking
  <2>10. \A e \in Device : At(e, "ask")' => run[e].ask.key # run[d].ask.key BY <2>5, <2>6, <2>9 DEF At
  <2>11. run[d].ask.epoch = server.epoch + 1 /\ run[d].with = Members BY <1>3 DEF Accepts
  <2>12. ~older => \A e, a \in Device : <<e, a>> \in took /\ dev[e].pending.key = run[d].ask.key => a \notin Members
    BY <1>2, <2>9, <2>11 DEF Inv, WithOK
  <2>13. net' \subseteq net BY <1>2
  <2> QED BY <1>2, <2>1, <2>5, <2>6, <2>7, <2>8, <2>9, <2>10, <2>11, <2>12, <2>13, ChangedStep
<1>4. CASE ~Accepts(d, run[d].ask, run[d].with, dev[d].cursor)
  <2>1. dev' = [dev EXCEPT ![d].pending = NoRotation] /\ Back(d) /\ UNCHANGED <<server, knows>>
    BY <1>4 DEF Ask, Back
  <2>2. PICK t \in Task : run' = [run EXCEPT ![d] = t] /\ t.pc \in {"idle", "one", "stop"} BY <1>1, <2>1, BackTask
  <2>3. PICK s : s = [dev[d] EXCEPT !.pending = NoRotation] OBVIOUS
  <2>4. dev' = [dev EXCEPT ![d] = s] BY <1>1, <2>1, <2>3 DEF Typed
  <2>5. /\ s \in Space /\ s.space = dev[d].space /\ s.open = dev[d].open /\ s.epoch = dev[d].epoch /\ s.key = dev[d].key
        /\ s.requeue = dev[d].requeue /\ s.pending = NoRotation /\ s.rows = dev[d].rows
        /\ s.owed = dev[d].owed /\ s.dirty = dev[d].dirty /\ s.seq = dev[d].seq
    BY <1>1, <2>3, NothingTyped DEF Space
  <2>6. dev[d].open /\ dev[d].space BY <1>1, <1>2 DEF TaskFits, SpaceFits, Inside
  <2>7. SpaceFits(s) /\ RowsFit(d, s) BY <1>1, <2>5, <2>6 DEF SpaceFits, RowsFit
  <2>8. TaskFits(d, s, t) BY <2>2, OutsideFits
  <2>9. own' = [own EXCEPT ![d] = own[d]] /\ spent' \in [events : Nat, edits : Nat] BY <1>2, DeviceFacts
  <2>10. s.owed \/ own[d].owes \/ ~Owes(d) BY <2>5 DEF Owes
  <2> QED BY <1>1, <1>2, <2>1, <2>2, <2>4, <2>5, <2>7, <2>8, <2>9, <2>10, OwnStep
<1> QED BY <1>3, <1>4

\* What people ask for, and faults, are counted.
LEMMA EventTyped == ASSUME Typed, Event PROVE spent' \in [events : Nat, edits : Nat]
<1>1. spent \in [events : Nat, edits : Nat] BY DEF Typed
<1> QED BY <1>1 DEF Event

\* The answer does not come: the rotation is on its way, and nobody else's.
LEMMA GiveUpStep == ASSUME Inv, NEW d \in Device, GiveUp(d) PROVE Inv'
<1>1. /\ Typed /\ dev[d] \in Space /\ run[d] \in Task /\ TaskFits(d, dev[d], run[d]) BY DeviceFacts
<1>2. /\ run[d].pc = "ask" /\ At(d, "ask") /\ UNCHANGED <<server, dev, own, knows, took, older>> /\ Back(d) /\ Event
  BY DEF GiveUp, At, Ghosts, Back
<1>3. PICK m : m = [from |-> d, ask |-> run[d].ask, with |-> run[d].with, cursor |-> dev[d].cursor] OBVIOUS
<1>4. m \in Request /\ m.from = d /\ m.ask = run[d].ask /\ m.with = run[d].with
  BY <1>1, <1>3 DEF Request, Task, Space
<1>5. net' = net \cup {m} BY <1>3 DEF GiveUp
<1>6. PICK t \in Task : run' = [run EXCEPT ![d] = t] /\ t.pc \in {"idle", "one", "stop"} BY <1>1, <1>2, BackTask
<1>7. run'[d] = t /\ \A e \in Device : e # d => run'[e] = run[e] BY <1>1, <1>6 DEF Typed
<1>8. Typed' BY <1>1, <1>2, <1>4, <1>5, <1>6, EventTyped DEF Typed
<1>9. ASSUME NEW e \in Device PROVE Fits(e)'
  <2>1. Fits(e) /\ TaskFits(d, dev[d], t) BY <1>6, OutsideFits DEF Inv
  <2>2. TaskFits(e, dev[e], run[e])'
    <3>1. TaskFits(e, dev[e], run'[e]) BY <1>7, <2>1 DEF Fits
    <3> QED BY <1>2, <3>1 DEF TaskFits
  <2> QED BY <1>2, <2>1, <2>2 DEF Fits, SpaceFits, RowsFit
<1>10. Stored /\ KnownKeys /\ Asked /\ Asking /\ Taken BY DEF Inv
<1>11. Stored' /\ KnownKeys' /\ Taken' BY <1>2, <1>10 DEF Stored, KnownKeys, Taken, Active
<1>12. /\ m.ask.key \in 1 .. server.made /\ m.ask.key = dev[d].pending.key BY <1>1, <1>2, <1>4 DEF TaskFits
<1>13. /\ m.ask.key # server.key /\ \A a \in Device : m.ask.key \notin knows[a]
       /\ \A n \in net : n.ask.key # m.ask.key
       /\ \A e \in Device : m.ask.key = dev[e].pending.key => e = d
       /\ \A e \in Device : At(e, "ask") /\ run[e].ask.key = m.ask.key => e = d
  BY <1>2, <1>4, <1>10, <1>12 DEF Asking
<1>14. Asked'
  <2>1. \A n \in net' : n.ask.key \in 1 .. server.made /\ n.ask.key # server.key BY <1>5, <1>10, <1>12, <1>13 DEF Asked
  <2>2. \A n \in net', a \in Device : n.ask.key \notin knows[a] BY <1>5, <1>10, <1>13 DEF Asked
  <2>3. \A n, o \in net' : n.ask.key = o.ask.key => n = o BY <1>5, <1>10, <1>13 DEF Asked
  <2>4. \A n \in net', e \in Device : n.ask.key = dev[e].pending.key => n.from = e BY <1>4, <1>5, <1>10, <1>13 DEF Asked
  <2> QED BY <1>2, <2>1, <2>2, <2>3, <2>4 DEF Asked
<1>15. \A e \in Device : At(e, "ask")' => e # d /\ At(e, "ask") /\ run'[e] = run[e] BY <1>6, <1>7 DEF At
<1>16. Asking'
  <2>1. \A e \in Device, n \in net' : At(e, "ask")' => run'[e].ask.key # n.ask.key BY <1>5, <1>10, <1>13, <1>15 DEF Asking
  <2> QED BY <1>2, <1>10, <1>15, <2>1 DEF Asking
<1>17. ASSUME ~older', NEW e \in Device PROVE (OwedOK(e) /\ WithOK(e) /\ GivenOK(e))'
  <2>1. OwedOK(e) /\ WithOK(e) /\ GivenOK(e) BY <1>2, <1>17 DEF Inv
  <2>2. \A a \in Device : (Active(e)' <=> Active(e)) /\ (Bad(e, a)' <=> Bad(e, a)) BY <1>2 DEF Active, Bad
  <2>3. \A pc \in {"take", "answered", "note", "ask"} : At(e, pc)' => At(e, pc) /\ run'[e] = run[e]
    BY <1>6, <1>7 DEF At
  <2>4. OwedOK(e)' BY <1>2, <2>1, <2>2, <2>3 DEF OwedOK, Owes, OwesElse
  <2>5. WithOK(e)' BY <1>2, <1>4, <1>5, <1>13, <2>1, <2>3 DEF WithOK
  <2>6. GivenOK(e)' BY <1>2, <2>1, <2>2, <2>3 DEF GivenOK
  <2> QED BY <2>4, <2>5, <2>6
<1> QED BY <1>8, <1>9, <1>11, <1>14, <1>16, <1>17 DEF Inv

\* A rotation that was given up comes to the server all the same.
LEMMA LateStep == ASSUME Inv, NEW m \in net, Late(m) PROVE Inv'
<1>1. Typed /\ Stored /\ KnownKeys /\ Asked /\ Asking /\ Taken /\ m \in Request BY DEF Inv, Typed
<1>2. net' = net \ {m} /\ net' \subseteq net /\ UNCHANGED <<dev, own, run, took, older, spent>> BY DEF Late, Ghosts
<1>3. CASE Accepts(m.from, m.ask, m.with, m.cursor)
  <2>1. Changed(m.ask) BY <1>3 DEF Late
  <2>2. m.ask \in Wires BY <1>1 DEF Request
  <2>3. m.ask.epoch = server.epoch + 1 /\ m.with = Members BY <1>3 DEF Accepts
  <2>4. /\ m.ask.key \in 1 .. server.made /\ \A a \in Device : m.ask.key \notin knows[a]
        /\ \A n \in net' : n.ask.key # m.ask.key
    BY <1>1, <1>2 DEF Asked
  <2>5. \A e \in Device : At(e, "ask")' => run[e].ask.key # m.ask.key BY <1>1, <1>2 DEF Asking, At
  <2>6. ~older => \A e, a \in Device : <<e, a>> \in took /\ dev[e].pending.key = m.ask.key => a \notin Members
    BY <2>3 DEF Inv, WithOK
  <2>7. run' \in [Device -> Task] /\ \A e \in Device : run'[e] = run[e] BY <1>1, <1>2 DEF Typed
  <2> QED BY <1>2, <2>1, <2>2, <2>3, <2>4, <2>5, <2>6, <2>7, ChangedStep
<1>4. CASE ~Accepts(m.from, m.ask, m.with, m.cursor)
  <2>1. UNCHANGED <<server, knows>> BY <1>4 DEF Late
  <2>2. Typed' BY <1>1, <1>2, <2>1 DEF Typed
  <2>3. \A e \in Device : Fits(e)' BY <1>2, <2>1 DEF Inv, Fits, SpaceFits, TaskFits, RowsFit
  <2>4. Stored' /\ KnownKeys' /\ Taken' BY <1>1, <1>2, <2>1 DEF Stored, KnownKeys, Taken, Active
  <2>5. Asked' BY <1>1, <1>2, <2>1 DEF Asked
  <2>6. Asking' BY <1>1, <1>2, <2>1 DEF Asking, At
  <2>7. ASSUME ~older', NEW e \in Device PROVE (OwedOK(e) /\ WithOK(e) /\ GivenOK(e))'
    <3>1. OwedOK(e) /\ WithOK(e) /\ GivenOK(e) BY <1>2, <2>7 DEF Inv
    <3>2. OwedOK(e)' BY <1>2, <2>1, <3>1 DEF OwedOK, Owes, OwesElse, At, Active, Bad
    <3>3. WithOK(e)' BY <1>2, <2>1, <3>1 DEF WithOK, At
    <3>4. GivenOK(e)' BY <1>2, <2>1, <3>1 DEF GivenOK, At, Active, Bad
    <3> QED BY <3>2, <3>3, <3>4
  <2> QED BY <2>2, <2>3, <2>4, <2>5, <2>6, <2>7 DEF Inv
<1> QED BY <1>3, <1>4

\* The answer came: the device leads, with its own key.
LEMMA AnsweredStep == ASSUME Inv, NEW d \in Device, Answered(d) PROVE Inv'
<1>1. /\ Typed /\ dev[d] \in Space /\ run[d] \in Task /\ own[d] \in Account /\ server \in Team
      /\ SpaceFits(dev[d]) /\ TaskFits(d, dev[d], run[d])
  BY DeviceFacts
<1>2. /\ run[d].pc = "answered" /\ At(d, "answered") /\ UNCHANGED <<server, net, own, knows, took, older, spent>>
      /\ dev' = Rekeyed(d, run[d].ask.epoch, run[d].ask.key, "lead")
      /\ run' = [run EXCEPT ![d] = [AtRest EXCEPT !.pc = "note", !.goal = "led", !.mine = TRUE, !.wire = run[d].ask]]
  BY DEF Answered, At, Ghosts
<1>3. /\ dev[d].open /\ dev[d].space /\ run[d].ask.epoch <= server.epoch
      /\ run[d].ask.epoch = server.epoch => run[d].ask.key = server.key
      /\ run[d].ask.key \in 1 .. server.made
  BY <1>1, <1>2 DEF TaskFits, SpaceFits, Inside
<1>4. run[d].ask \in Wires /\ run[d].ask.epoch \in Nat BY <1>1 DEF Task, Wires
<1>5. run[d].ask.key \in 1 .. MaxKeys
  <2>1. server.made \in 1 .. MaxKeys BY <1>1 DEF Team
  <2> QED BY <1>3, <2>1, TeamsAssumption
<1>6. PICK epoch \in Nat, key \in 1 .. MaxKeys : epoch = run[d].ask.epoch /\ key = run[d].ask.key BY <1>4, <1>5
<1>7. epoch <= server.epoch /\ (epoch = server.epoch => key = server.key) BY <1>3, <1>6
<1>8. PICK s \in Space : Rekeyed(d, epoch, key, "lead") = [dev EXCEPT ![d] = s] /\ Follower(d, s, epoch, key)
  BY <1>3, <1>7, RekeyedSpace
<1>9. dev' = [dev EXCEPT ![d] = s] BY <1>2, <1>6, <1>8
<1>10. /\ s.open /\ s.epoch = epoch /\ s.pending = NoRotation /\ s.owed = dev[d].owed /\ SpaceFits(s) /\ RowsFit(d, s)
  BY <1>8 DEF Follower
<1>11. PICK t : t = [AtRest EXCEPT !.pc = "note", !.goal = "led", !.mine = TRUE, !.wire = run[d].ask] OBVIOUS
<1>12. "note" \in Place /\ "led" \in Goals BY DEF Place, Inside, Goals
<1>13. t \in Task /\ t.pc = "note" /\ t.wire = run[d].ask BY <1>4, <1>11, <1>12, NothingTyped DEF Task
<1>14. run' = [run EXCEPT ![d] = t] BY <1>2, <1>11
<1>15. TaskFits(d, s, t) BY <1>6, <1>10, <1>13 DEF TaskFits
<1>16. own' = [own EXCEPT ![d] = own[d]] /\ spent' \in [events : Nat, edits : Nat] BY <1>2, DeviceFacts
<1>17. s.owed \/ own[d].owes \/ ~Owes(d) BY <1>10 DEF Owes
<1> QED BY <1>1, <1>2, <1>9, <1>10, <1>13, <1>14, <1>15, <1>16, <1>17, OwnStep

------------------------------------------------------------------------------
(* What a person asks for, and faults                                       *)

\* A step that leaves alone what the invariant looks at, but for rows.
LEMMA QuietStep ==
  ASSUME Inv, Typed', UNCHANGED <<net, own, run, knows, took, older>>,
         server'.epoch = server.epoch, server'.key = server.key, server'.made = server.made,
         server'.holds = server.holds, server'.state = server.state,
         \A e \in Device : /\ dev'[e].pending = dev[e].pending /\ dev'[e].owed = dev[e].owed
                           /\ dev'[e].space = dev[e].space /\ Fits(e)'
  PROVE  Inv'
<1>1. Stored /\ KnownKeys /\ Asked /\ Asking /\ Taken BY DEF Inv
<1>2. Stored' /\ KnownKeys' /\ Taken' BY <1>1 DEF Stored, KnownKeys, Taken, Active
<1>3. Asked' BY <1>1 DEF Asked
<1>4. Asking' BY <1>1 DEF Asking, At
<1>5. ASSUME ~older', NEW e \in Device PROVE (OwedOK(e) /\ WithOK(e) /\ GivenOK(e))'
  <2>1. OwedOK(e) /\ WithOK(e) /\ GivenOK(e) BY <1>5 DEF Inv
  <2>2. OwedOK(e)' BY <2>1 DEF OwedOK, Owes, OwesElse, At, Active, Bad
  <2>3. WithOK(e)' BY <2>1 DEF WithOK, At
  <2>4. GivenOK(e)' BY <2>1 DEF GivenOK, At, Active, Bad
  <2> QED BY <2>2, <2>3, <2>4
<1> QED BY <1>2, <1>3, <1>4, <1>5 DEF Inv

\* An edit waits to be sent, whatever the device is doing.
LEMMA EditStep == ASSUME Inv, NEW d \in Device, NEW r \in Record, Edit(d, r) PROVE Inv'
<1>1. /\ Typed /\ dev[d] \in Space /\ SpaceFits(dev[d]) /\ TaskFits(d, dev[d], run[d]) /\ RowsFit(d, dev[d])
      /\ spent \in [events : Nat, edits : Nat]
  BY DeviceFacts
<1>2. /\ dev[d].open /\ UNCHANGED <<server, net, own, run, knows, took, older>>
      /\ spent' = [spent EXCEPT !.edits = spent.edits + 1]
      /\ dev' = [dev EXCEPT ![d].rows[r] = spent.edits + 1, ![d].dirty = dev[d].dirty \cup {r}]
  BY <1>1 DEF Edit, Ghosts, Typed
<1>3. PICK n \in Nat : n = spent.edits + 1 /\ n # 0 BY <1>1
<1>4. PICK rows : rows = [dev[d].rows EXCEPT ![r] = n] OBVIOUS
<1>5. PICK dirty \in SUBSET Record : dirty = dev[d].dirty \cup {r} BY <1>1 DEF Space
<1>6. PICK s : s = [dev[d] EXCEPT !.rows = rows, !.dirty = dirty] OBVIOUS
<1>7. rows \in [Record -> Nat] /\ rows[r] # 0 /\ \A q \in Record : q # r => rows[q] = dev[d].rows[q]
  BY <1>1, <1>3, <1>4 DEF Space
<1>8. dev' = [dev EXCEPT ![d] = s]
  <2>1. dev' = [dev EXCEPT ![d].rows = rows, ![d].dirty = dirty] BY <1>1, <1>2, <1>3, <1>4, <1>5 DEF Typed, Space
  <2> QED BY <1>1, <1>6, <2>1 DEF Typed
<1>9. /\ s \in Space /\ s.space = dev[d].space /\ s.open = dev[d].open /\ s.epoch = dev[d].epoch /\ s.key = dev[d].key
      /\ s.requeue = dev[d].requeue /\ s.pending = dev[d].pending /\ s.rows = rows
      /\ s.owed = dev[d].owed /\ s.dirty = dirty /\ s.seq = dev[d].seq
  BY <1>1, <1>6, <1>7 DEF Space
<1>10. dev[d].space BY <1>1, <1>2 DEF SpaceFits
<1>11. SpaceFits(s) BY <1>1, <1>5, <1>7, <1>9, <1>10 DEF SpaceFits
<1>12. RowsFit(d, s) BY <1>1, <1>5, <1>7, <1>9 DEF RowsFit
<1>13. TaskFits(d, s, run[d]) BY <1>1, <1>9 DEF TaskFits
<1>14. dev'[d] = s /\ \A e \in Device : e # d => dev'[e] = dev[e] BY <1>1, <1>8 DEF Typed
<1>15. ASSUME NEW e \in Device
       PROVE  /\ dev'[e].pending = dev[e].pending /\ dev'[e].owed = dev[e].owed
              /\ dev'[e].space = dev[e].space /\ Fits(e)'
  <2>1. SpaceFits(dev'[e]) /\ RowsFit(e, dev'[e]) /\ TaskFits(e, dev'[e], run[e])
    BY <1>11, <1>12, <1>13, <1>14 DEF Inv, Fits
  <2>2. Fits(e)' BY <1>2, <2>1 DEF Fits, SpaceFits, TaskFits, RowsFit
  <2> QED BY <1>9, <1>14, <2>2
<1>16. spent' \in [events : Nat, edits : Nat] BY <1>1, <1>2
<1>17. Typed' BY <1>1, <1>2, <1>8, <1>9, <1>16 DEF Typed
<1> QED BY <1>2, <1>15, <1>17, QuietStep

\* The server forgets that a key is needed: nobody counted on it.
LEMMA ServerForgetsStep == ASSUME Inv, ServerForgets PROVE Inv'
<1>1. Typed /\ server \in Team BY DEF Inv, Typed
<1>2. /\ server' = [server EXCEPT !.needs = FALSE] /\ Event
      /\ UNCHANGED <<net, dev, own, run, knows, took, older>>
  BY DEF ServerForgets, Ghosts
<1>3. /\ server' \in Team /\ server'.epoch = server.epoch /\ server'.key = server.key /\ server'.made = server.made
      /\ server'.holds = server.holds /\ server'.state = server.state
  BY <1>1, <1>2 DEF Team
<1>4. Typed' BY <1>1, <1>2, <1>3, EventTyped DEF Typed
<1>5. \A e \in Device : Fits(e)' BY <1>2, <1>3 DEF Inv, Fits, SpaceFits, TaskFits, RowsFit
<1> QED BY <1>2, <1>3, <1>4, <1>5, QuietStep

\* confirm begins with the list of teams.
LEMMA ConfirmStep == ASSUME Inv, NEW d \in Device, NEW a \in Device, Confirm(d, a) PROVE Inv'
<1>1. /\ Typed /\ dev[d] \in Space /\ own[d] \in Account /\ SpaceFits(dev[d]) /\ RowsFit(d, dev[d]) BY DeviceFacts
<1>2. /\ run' = [run EXCEPT ![d] = [AtRest EXCEPT !.pc = "one", !.goal = "confirm", !.with = {a}]]
      /\ Event /\ UNCHANGED <<server, net, dev, own, knows, took, older>>
  BY DEF Confirm, Ghosts
<1>3. PICK t : t = [AtRest EXCEPT !.pc = "one", !.goal = "confirm", !.with = {a}] OBVIOUS
<1>4. "one" \in Place /\ "confirm" \in Goals /\ {a} \in SUBSET Device BY DEF Place, Goals
<1>5. t \in Task /\ t.pc = "one" BY <1>3, <1>4, NothingTyped DEF Task
<1>6. run' = [run EXCEPT ![d] = t] BY <1>2, <1>3
<1>7. TaskFits(d, dev[d], t) BY <1>5, OutsideFits
<1>8. dev' = [dev EXCEPT ![d] = dev[d]] /\ own' = [own EXCEPT ![d] = own[d]] BY <1>2, DeviceFacts
<1>9. dev[d].owed \/ own[d].owes \/ ~Owes(d) BY DEF Owes
<1>10. spent' \in [events : Nat, edits : Nat] BY <1>1, <1>2, EventTyped
<1> QED BY <1>1, <1>2, <1>5, <1>6, <1>7, <1>8, <1>9, <1>10, OwnStep

\* The program stops: what was noted stays, the space may be shut.
LEMMA CrashStep == ASSUME Inv, NEW d \in Device, Crash(d) PROVE Inv'
<1>1. /\ Typed /\ dev[d] \in Space /\ own[d] \in Account /\ SpaceFits(dev[d]) /\ RowsFit(d, dev[d]) BY DeviceFacts
<1>2. /\ run' = [run EXCEPT ![d] = AtRest] /\ Event /\ UNCHANGED <<server, net, own, knows, took, older>>
      /\ dev' = [dev EXCEPT ![d].open = dev[d].space /\ dev[d].sealed]
  BY DEF Crash, Ghosts
<1>3. PICK open \in BOOLEAN : open = (dev[d].space /\ dev[d].sealed) BY Zenon
<1>4. PICK s : s = [dev[d] EXCEPT !.open = open] OBVIOUS
<1>5. dev' = [dev EXCEPT ![d] = s] BY <1>1, <1>2, <1>3, <1>4 DEF Typed
<1>6. /\ s \in Space /\ s.space = dev[d].space /\ s.open = open /\ s.epoch = dev[d].epoch /\ s.key = dev[d].key
      /\ s.requeue = dev[d].requeue /\ s.pending = dev[d].pending /\ s.rows = dev[d].rows
      /\ s.owed = dev[d].owed /\ s.dirty = dev[d].dirty /\ s.seq = dev[d].seq
  BY <1>1, <1>4 DEF Space
<1>7. ~dev[d].space => s = NoSpace
  <2>1. ~dev[d].space => dev[d].open = open BY <1>1, <1>3 DEF SpaceFits, Space
  <2>2. ~dev[d].space => s = dev[d] BY <1>1, <1>4, <2>1 DEF Space
  <2> QED BY <1>1, <2>2 DEF SpaceFits
<1>8. SpaceFits(s) BY <1>1, <1>3, <1>6, <1>7 DEF SpaceFits
<1>9. RowsFit(d, s) BY <1>1, <1>6 DEF RowsFit
<1>10. own' = [own EXCEPT ![d] = own[d]] BY <1>2, DeviceFacts
<1>11. s.owed \/ own[d].owes \/ ~Owes(d) BY <1>6 DEF Owes
<1>12. spent' \in [events : Nat, edits : Nat] BY <1>1, <1>2, EventTyped
<1> QED BY <1>1, <1>2, <1>5, <1>6, <1>8, <1>9, <1>10, <1>11, <1>12, NothingTyped, RestFits, OwnStep

\* leave, its second half: who left keeps nothing.
LEMMA ForgetStep == ASSUME Inv, NEW d \in Device, Forget(d) PROVE Inv'
<1>1. Typed /\ own[d] \in Account /\ TaskFits(d, dev[d], run[d]) BY DeviceFacts
<1>2. PICK pins : pins = [a \in Device |-> IF a \in run[d].with THEN "none" ELSE own[d].pins[a]] OBVIOUS
<1>3. PICK o : o = [record |-> NoRotation, owes |-> FALSE, pins |-> pins] OBVIOUS
<1>4. /\ dev' = [dev EXCEPT ![d] = NoSpace] /\ own' = [own EXCEPT ![d] = o] /\ run' = [run EXCEPT ![d] = AtRest]
      /\ UNCHANGED <<server, net, knows, took, older, spent>> /\ run[d].pc = "forget"
  BY <1>2, <1>3 DEF Forget, Rest, At, Ghosts
<1>5. pins \in [Device -> Pin] BY <1>1, <1>2 DEF Account, Pin
<1>6. o \in Account BY <1>3, <1>5, NothingTyped DEF Account
<1>7. ~Active(d) BY <1>1, <1>4 DEF TaskFits, Active
<1>8. spent' \in [events : Nat, edits : Nat] BY <1>4, DeviceFacts
<1> QED BY <1>4, <1>6, <1>7, <1>8, NothingTyped, RestFits, OwnStep

\* remove, its last part: a key is owed, and a rotation begins.
LEMMA TookStep == ASSUME Inv, NEW d \in Device, Took(d) PROVE Inv'
<1>1. UNCHANGED <<server, net, knows, took, older, spent>> BY DEF Took, Ghosts
<1>2. CASE ~(run[d].had \/ (Active(d) /\ server.needs)) BY <1>1, <1>2, BackStep DEF Took, Back
<1>3. CASE run[d].had \/ (Active(d) /\ server.needs)
  <2>1. /\ dev' = OwesHere(d, TRUE) /\ own' = OwesThere(own, d, TRUE)
        /\ run' = [run EXCEPT ![d] = [AtRest EXCEPT !.pc = "one", !.goal = "removal"]]
    BY <1>3 DEF Took
  <2>2. own \in [Device -> Account] BY DEF Inv, Typed
  <2>3. PICK s \in Space, o \in Account :
           /\ OwesHere(d, TRUE) = [dev EXCEPT ![d] = s] /\ Alike(dev[d], s)
           /\ OwesThere(own, d, TRUE) = [own EXCEPT ![d] = o] /\ o.pins = own[d].pins
           /\ dev[d].space => s.owed = TRUE /\ o.owes = own[d].owes
           /\ ~dev[d].space => s.owed = dev[d].owed /\ o.owes = TRUE
    BY <2>2, OwesFacts
  <2>4. SpaceFits(s) /\ RowsFit(d, s) BY <2>3, DeviceFacts, AlikeFits
  <2>5. s.owed \/ o.owes BY <2>3
  <2>6. s.pending = dev[d].pending BY <2>3 DEF Alike
  <2>7. spent' \in [events : Nat, edits : Nat] BY <1>1, DeviceFacts
  <2>8. PICK t : t = [AtRest EXCEPT !.pc = "one", !.goal = "removal"] OBVIOUS
  <2>9. "one" \in Place /\ "removal" \in Goals BY DEF Place, Goals
  <2>10. t \in Task /\ t.pc = "one" BY <2>8, <2>9, NothingTyped DEF Task
  <2>11. TaskFits(d, s, t) BY <2>10, OutsideFits
  <2>12. run' = [run EXCEPT ![d] = t] BY <2>1, <2>8
  <2> QED BY <1>1, <2>1, <2>3, <2>4, <2>5, <2>6, <2>7, <2>10, <2>11, <2>12, OwnStep
<1> QED BY <1>2, <1>3

\* The server with one account's place changed.
LEMMA PlaceTyped ==
  ASSUME Typed, NEW a \in Device, NEW p \in State, NEW needs \in BOOLEAN,
         server' = [server EXCEPT !.state[a] = p, !.needs = needs]
  PROVE  /\ server' \in Team /\ server'.epoch = server.epoch /\ server'.key = server.key
         /\ server'.made = server.made /\ server'.holds = server.holds
         /\ server'.state[a] = p /\ \A e \in Device : e # a => server'.state[e] = server.state[e]
<1>1. server \in Team BY DEF Typed
<1>2. PICK state : state = [server.state EXCEPT ![a] = p] OBVIOUS
<1>3. /\ state \in [Device -> State] /\ state[a] = p /\ \A e \in Device : e # a => state[e] = server.state[e]
  BY <1>1, <1>2 DEF Team
<1>4. server' = [server EXCEPT !.state = state, !.needs = needs] BY <1>1, <1>2 DEF Team
<1> QED BY <1>1, <1>3, <1>4 DEF Team

\* Join, with an invite: who was taken out comes back, and no removal names them.
LEMMA JoinStep == ASSUME Inv, NEW d \in Device, Join(d) PROVE Inv'
<1>1. /\ Typed /\ dev[d] \in Space /\ run[d] \in Task /\ own[d] \in Account /\ server \in Team
      /\ SpaceFits(dev[d]) /\ TaskFits(d, dev[d], run[d]) /\ RowsFit(d, dev[d])
  BY DeviceFacts
<1>2. /\ run[d].pc = "idle" /\ server.state[d] = "out" /\ Event
      /\ server' = [server EXCEPT !.state[d] = "pending"]
      /\ own' = [own EXCEPT ![d].record = NoRotation]
      /\ took' = {t \in took : d \notin {t[1], t[2]}}
      /\ UNCHANGED <<net, dev, run, knows, older>>
  BY DEF Join, At
<1>3. /\ server' \in Team /\ server'.epoch = server.epoch /\ server'.key = server.key
      /\ server'.made = server.made /\ server'.holds = server.holds
      /\ server'.state[d] = "pending" /\ \A e \in Device : e # d => server'.state[e] = server.state[e]
  <2>1. "pending" \in State /\ server.needs \in BOOLEAN BY <1>1 DEF State, Team
  <2>2. server' = [server EXCEPT !.state[d] = "pending", !.needs = server.needs] BY <1>1, <1>2 DEF Team
  <2> QED BY <1>1, <2>1, <2>2, PlaceTyped
<1>4. PICK o : o = [own[d] EXCEPT !.record = NoRotation] OBVIOUS
<1>5. own' = [own EXCEPT ![d] = o] BY <1>1, <1>2, <1>4 DEF Typed
<1>6. o \in Account /\ o.pins = own[d].pins /\ o.owes = own[d].owes BY <1>1, <1>4, NothingTyped DEF Account
<1>7. \A e \in Device : e # d => own'[e] = own[e] BY <1>1, <1>5 DEF Typed
<1>8. took' \subseteq took /\ \A e, a \in Device : <<e, a>> \in took' => e # d /\ a # d BY <1>2
<1>9. Typed'
  <2>1. own' \in [Device -> Account] BY <1>1, <1>5, <1>6 DEF Typed
  <2>2. took' \subseteq Device \X Device BY <1>1, <1>8 DEF Typed
  <2> QED BY <1>1, <1>2, <1>3, <2>1, <2>2, EventTyped DEF Typed
<1>10. Fits(d)' BY <1>1, <1>2, <1>3, OutsideFits DEF Fits, SpaceFits, TaskFits, RowsFit, Inside
<1>11. Stored' BY <1>3 DEF Inv, Stored
<1>12. Taken' BY <1>3, <1>7, <1>8 DEF Inv, Taken, Active
<1>13. \A e, a \in Device : e # d /\ <<e, a>> \in took' =>
         <<e, a>> \in took /\ (Active(e)' => Active(e)) /\ (Bad(e, a)' => Bad(e, a))
  BY <1>2, <1>3, <1>8 DEF Active, Bad
<1>14. (OwedOK(d) /\ WithOK(d) /\ GivenOK(d))' BY <1>8 DEF OwedOK, WithOK, GivenOK, Bad
<1>15. \A r \in Record : server.holds[r].seq # 0 => server'.holds[r].seq # 0 BY <1>3
<1>16. \A e \in Device : e # d /\ server.state[e] = "out" => server'.state[e] = "out" BY <1>3
<1>17. \A a \in Device : knows'[a] \subseteq knows[a] \cup {server.key} BY <1>2
<1>18. /\ \A e \in Device : e # d => dev'[e] = dev[e] /\ run'[e] = run[e] /\ own'[e] = own[e]
       /\ net' = net /\ dev'[d].pending \in {dev[d].pending, NoRotation} /\ run'[d].pc # "ask" /\ (~older' => ~older)
  BY <1>2, <1>7
<1> QED BY <1>3, <1>9, <1>10, <1>11, <1>12, <1>13, <1>14, <1>15, <1>16, <1>17, <1>18, DeviceStep

\* An account goes, or does not, on what one device asks: leave and remove.
LEMMA OutStep ==
  ASSUME Inv, NEW d \in Device, NEW a \in Device, NEW t \in Task,
         server' = Out(a) \/ server' = server, run' = [run EXCEPT ![d] = t],
         UNCHANGED <<net, dev, own, knows, took, older>>, spent' \in [events : Nat, edits : Nat],
         t.pc \in {"idle", "took", "forget"}, t.pc = "forget" => server'.state[d] = "out"
  PROVE  Inv'
<1>1. /\ Typed /\ dev[d] \in Space /\ run[d] \in Task /\ server \in Team
      /\ SpaceFits(dev[d]) /\ RowsFit(d, dev[d])
  BY DeviceFacts
<1>2. /\ server' \in Team /\ server'.epoch = server.epoch /\ server'.key = server.key
      /\ server'.made = server.made /\ server'.holds = server.holds
      /\ \A e \in Device : server'.state[e] \in {server.state[e], "out"}
  <2>1. CASE server' = server BY <1>1, <2>1
  <2>2. CASE server' = Out(a)
    <3>1. PICK needs \in BOOLEAN : needs = (server.needs \/ Active(a)) BY Zenon
    <3>2. server' = [server EXCEPT !.state[a] = "out", !.needs = needs] BY <2>2, <3>1 DEF Out
    <3>3. "out" \in State BY DEF State
    <3>4. /\ server' \in Team /\ server'.epoch = server.epoch /\ server'.key = server.key
          /\ server'.made = server.made /\ server'.holds = server.holds
          /\ server'.state[a] = "out" /\ \A e \in Device : e # a => server'.state[e] = server.state[e]
      BY <1>1, <3>2, <3>3, PlaceTyped
    <3> QED BY <3>4
  <2> QED BY <2>1, <2>2
<1>3. run'[d] = t /\ \A e \in Device : e # d => run'[e] = run[e] BY <1>1 DEF Typed
<1>4. Typed' BY <1>1, <1>2 DEF Typed
<1>5. Fits(d)'
  <2>1. TaskFits(d, dev[d], t)' BY DEF TaskFits, Inside
  <2> QED BY <1>1, <1>2, <1>3, <2>1 DEF Fits, SpaceFits, RowsFit, TaskFits
<1>6. Stored' BY <1>2 DEF Inv, Stored
<1>7. \A e, b \in Device : (Active(e)' => Active(e)) /\ (Bad(e, b)' => Bad(e, b)) BY <1>2 DEF Active, Bad
<1>8. Taken' BY <1>2, <1>7 DEF Inv, Taken
<1>9. ASSUME ~older PROVE (OwedOK(d) /\ WithOK(d) /\ GivenOK(d))'
  <2>1. OwedOK(d) /\ WithOK(d) /\ GivenOK(d) BY <1>9 DEF Inv
  <2>2. OwedOK(d)' BY <1>3, <1>7, <2>1 DEF OwedOK, Owes, At
  <2>3. WithOK(d)' BY <1>3, <2>1 DEF WithOK, At
  <2>4. GivenOK(d)' BY <1>2, <1>3, <1>7, <2>1 DEF GivenOK, At
  <2> QED BY <2>2, <2>3, <2>4
<1>10. \A r \in Record : server.holds[r].seq # 0 => server'.holds[r].seq # 0 BY <1>2
<1>11. \A e \in Device : e # d /\ server.state[e] = "out" => server'.state[e] = "out" BY <1>2
<1>12. \A e, b \in Device : e # d /\ <<e, b>> \in took' =>
         <<e, b>> \in took /\ (Active(e)' => Active(e)) /\ (Bad(e, b)' => Bad(e, b))
  BY <1>7
<1>13. \A e \in Device : e # d => dev'[e] = dev[e] /\ run'[e] = run[e] /\ own'[e] = own[e] BY <1>3
<1>14. run'[d].pc # "ask" /\ dev'[d].pending \in {dev[d].pending, NoRotation} BY <1>3
<1>15. \A b \in Device : knows'[b] \subseteq knows[b] \cup {server.key} OBVIOUS
<1> QED BY <1>2, <1>4, <1>5, <1>6, <1>8, <1>9, <1>10, <1>11, <1>12, <1>13, <1>14, <1>15, DeviceStep

\* leave: the server first.
LEMMA LeaveStep == ASSUME Inv, NEW d \in Device, Leave(d) PROVE Inv'
<1>1. Typed /\ run[d] \in Task /\ server \in Team BY DeviceFacts
<1>2. /\ server' = Out(d) /\ Event /\ UNCHANGED <<net, dev, own, knows, took, older>>
      /\ run' = [run EXCEPT ![d].pc = "forget", ![d].with = {a \in Device : server.state[a] # "out"}]
  BY DEF Leave, Ghosts
<1>3. PICK with \in SUBSET Device : with = {a \in Device : server.state[a] # "out"} OBVIOUS
<1>4. PICK t : t = [run[d] EXCEPT !.pc = "forget", !.with = with] OBVIOUS
<1>5. run' = [run EXCEPT ![d] = t] BY <1>1, <1>2, <1>3, <1>4 DEF Typed
<1>6. "forget" \in Place BY DEF Place
<1>7. t \in Task /\ t.pc = "forget" BY <1>1, <1>4, <1>6 DEF Task
<1>8. server'.state[d] = "out" BY <1>1, <1>2 DEF Out, Team
<1>9. spent' \in [events : Nat, edits : Nat] BY <1>1, <1>2, EventTyped
<1> QED BY <1>2, <1>5, <1>7, <1>8, <1>9, OutStep

\* remove, its answer not heard: it may have happened, and a key stays owed.
LEMMA TakeUnheardStep == ASSUME Inv, NEW d \in Device, TakeUnheard(d) PROVE Inv'
<1>1. Typed /\ run[d] \in Task BY DeviceFacts
<1>2. /\ Event /\ UNCHANGED <<net, dev, own, knows, took, older>> /\ run' = [run EXCEPT ![d] = AtRest]
  BY DEF TakeUnheard, Rest, Ghosts
<1>3. PICK a \in Device : server' = Out(a) \/ server' = server BY <1>1 DEF TakeUnheard, Task
<1>4. spent' \in [events : Nat, edits : Nat] BY <1>1, <1>2, EventTyped
<1> QED BY <1>2, <1>3, <1>4, NothingTyped, RestFits, OutStep

\* A device writes down what it means to do, or takes it back; the server does not know.
LEMMA WordStep ==
  ASSUME Inv, NEW d \in Device, NEW s \in Space, NEW t \in Task, NEW o \in Account,
         dev' = [dev EXCEPT ![d] = s], run' = [run EXCEPT ![d] = t], own' = [own EXCEPT ![d] = o],
         UNCHANGED <<server, net, knows>>, spent' \in [events : Nat, edits : Nat],
         Alike(dev[d], s), TaskFits(d, s, t), t.pc # "ask",
         took' \subseteq Device \X Device, older' \in BOOLEAN, ~older' => ~older,
         \A e, a \in Device : e # d /\ <<e, a>> \in took' => <<e, a>> \in took,
         \A a \in Device : <<d, a>> \in took' =>
            /\ a # d /\ server.state[a] # "pending" /\ server.state[d] # "pending"
            /\ Active(d) => o.pins[a] = "removed",
         ~older' => (OwedOK(d) /\ WithOK(d) /\ GivenOK(d))'
  PROVE  Inv'
<1>1. /\ Typed /\ SpaceFits(dev[d]) /\ RowsFit(d, dev[d]) BY DeviceFacts
<1>2. dev'[d] = s /\ run'[d] = t /\ own'[d] = o BY <1>1 DEF Typed
<1>3. \A e \in Device : e # d => dev'[e] = dev[e] /\ run'[e] = run[e] /\ own'[e] = own[e] BY <1>1 DEF Typed
<1>4. Typed' BY <1>1 DEF Typed
<1>5. SpaceFits(s) /\ RowsFit(d, s) BY <1>1, AlikeFits
<1>6. Fits(d)' BY <1>2, <1>5 DEF Fits, SpaceFits, TaskFits, RowsFit
<1>7. Stored' BY DEF Inv, Stored
<1>8. \A e \in Device : Active(e)' <=> Active(e) BY DEF Active
<1>9. Taken' BY <1>2, <1>3, <1>8 DEF Inv, Taken
<1>10. \A e, a \in Device : e # d /\ <<e, a>> \in took' =>
         <<e, a>> \in took /\ (Active(e)' => Active(e)) /\ (Bad(e, a)' => Bad(e, a))
  BY <1>8 DEF Bad
<1>11. dev'[d].pending \in {dev[d].pending, NoRotation} /\ run'[d].pc # "ask" BY <1>2 DEF Alike
<1> QED BY <1>3, <1>4, <1>6, <1>7, <1>9, <1>10, <1>11, DeviceStep

\* confirm: a fingerprint that was compared is written down, and a removal taken back.
LEMMA AdmitStep == ASSUME Inv, NEW d \in Device, Admit(d) PROVE Inv'
<1>1. /\ Typed /\ dev[d] \in Space /\ run[d] \in Task /\ own[d] \in Account /\ TaskFits(d, dev[d], run[d])
      /\ dev = [dev EXCEPT ![d] = dev[d]]
  BY DeviceFacts
<1>2. run[d].pc = "admit" /\ UNCHANGED <<server, net, dev, knows, older, spent>> BY DEF Admit, At
<1>3. PICK a \in run[d].with :
         IF ~Active(d) \/ server.state[a] = "out" THEN Rest(d) /\ UNCHANGED <<own, took>>
         ELSE /\ own' = [own EXCEPT ![d].pins[a] = "confirmed"]
              /\ took' = took \ {<<d, a>>}
              /\ IF Active(a) THEN Rest(d) ELSE Goto(d, "wrap")
  BY DEF Admit
<1>4. CASE ~Active(d) \/ server.state[a] = "out" BY <1>2, <1>3, <1>4, BackStep DEF Back
<1>5. CASE ~(~Active(d) \/ server.state[a] = "out")
  <2>1. /\ own' = [own EXCEPT ![d].pins[a] = "confirmed"] /\ took' = took \ {<<d, a>>}
        /\ Rest(d) \/ Goto(d, "wrap")
    BY <1>3, <1>5
  <2>2. a \in Device BY <1>1 DEF Task
  <2>3. PICK pins : pins = [own[d].pins EXCEPT ![a] = "confirmed"] OBVIOUS
  <2>4. pins \in [Device -> Pin] /\ \A b \in Device : b # a => pins[b] = own[d].pins[b] BY <1>1, <2>2, <2>3 DEF Account, Pin
  <2>5. PICK o : o = [own[d] EXCEPT !.pins = pins] OBVIOUS
  <2>6. own' = [own EXCEPT ![d] = o] BY <1>1, <2>1, <2>3, <2>5 DEF Typed
  <2>7. o \in Account /\ o.pins = pins /\ o.owes = own[d].owes BY <1>1, <2>4, <2>5 DEF Account
  <2>8. PICK t \in Task : run' = [run EXCEPT ![d] = t] /\ t.pc \in {"idle", "wrap"} /\ TaskFits(d, dev[d], t)
    <3>1. CASE Rest(d) BY <3>1, NothingTyped, RestFits DEF Rest
    <3>2. CASE Goto(d, "wrap")
      <4>1. PICK t : t = [run[d] EXCEPT !.pc = "wrap"] OBVIOUS
      <4>2. "wrap" \in Place BY DEF Place, Inside
      <4>3. t \in Task /\ t.pc = "wrap" /\ t.wire = run[d].wire BY <1>1, <4>1, <4>2 DEF Task
      <4>4. run' = [run EXCEPT ![d] = t] BY <1>1, <3>2, <4>1 DEF Goto, Typed
      <4>5. TaskFits(d, dev[d], t) BY <1>1, <1>2, <4>3 DEF TaskFits, Inside
      <4> QED BY <4>3, <4>4, <4>5
    <3> QED BY <2>1, <3>1, <3>2
  <2>9. took' \subseteq took BY <2>1
  <2>10. \A b \in Device : <<d, b>> \in took' => <<d, b>> \in took /\ b # a BY <2>1
  <2>11. \A b \in Device : <<d, b>> \in took' =>
            /\ b # d /\ server.state[b] # "pending" /\ server.state[d] # "pending"
            /\ Active(d) => o.pins[b] = "removed"
    BY <2>4, <2>7, <2>10 DEF Inv, Taken
  <2>12. took' \subseteq Device \X Device BY <1>1, <2>9 DEF Typed
  <2>13. dev'[d] = dev[d] /\ run'[d] = t /\ own'[d] = o BY <1>1, <1>2, <2>6, <2>8 DEF Typed
  <2>14. \A b \in Device : (Active(b)' <=> Active(b)) /\ (Bad(d, b)' => Bad(d, b)) BY <1>2, <2>9 DEF Active, Bad
  <2>15. ASSUME ~older PROVE (OwedOK(d) /\ WithOK(d) /\ GivenOK(d))'
    <3>1. OwedOK(d) /\ WithOK(d) /\ GivenOK(d) BY <2>15 DEF Inv
    <3>2. OwedOK(d)' BY <2>7, <2>8, <2>13, <2>14, <3>1 DEF OwedOK, Owes, At
    <3>3. WithOK(d)' BY <1>2, <2>8, <2>9, <2>13, <3>1 DEF WithOK, At
    <3>4. GivenOK(d)' BY <1>2, <2>8, <2>13, <2>14, <3>1 DEF GivenOK, At
    <3> QED BY <3>2, <3>3, <3>4
  <2>16. older' \in BOOLEAN /\ (~older' => ~older) BY <1>1, <1>2 DEF Typed
  <2>17. Alike(dev[d], dev[d]) BY DEF Alike
  <2>18. dev' = [dev EXCEPT ![d] = dev[d]] /\ spent' \in [events : Nat, edits : Nat] BY <1>1, <1>2 DEF Typed
  <2>19. ~older' => (OwedOK(d) /\ WithOK(d) /\ GivenOK(d))' BY <2>15, <2>16
  <2>20. \A e, b \in Device : e # d /\ <<e, b>> \in took' => <<e, b>> \in took BY <2>9
  <2>21. UNCHANGED <<server, net, knows>> /\ dev[d] \in Space /\ t.pc # "ask" BY <1>1, <1>2, <2>8
  <2> QED BY <2>6, <2>7, <2>8, <2>11, <2>12, <2>16, <2>17, <2>18, <2>19, <2>20, <2>21, WordStep
<1> QED BY <1>4, <1>5

\* confirm: who waits is let in with the key.  Nobody who was taken out waits.
LEMMA WrapForStep == ASSUME Inv, NEW d \in Device, WrapFor(d) PROVE Inv'
<1>1. /\ Typed /\ dev[d] \in Space /\ run[d] \in Task /\ own[d] \in Account /\ server \in Team
      /\ SpaceFits(dev[d]) /\ TaskFits(d, dev[d], run[d]) /\ RowsFit(d, dev[d])
  BY DeviceFacts
<1>2. run[d].pc = "wrap" /\ UNCHANGED <<net, dev, own, took, older, spent>> BY DEF WrapFor, At, Ghosts
<1>3. PICK a \in run[d].with :
         IF ~Active(d) \/ server.state[a] = "out" THEN Rest(d) /\ UNCHANGED <<server, knows>>
         ELSE IF server.epoch # run[d].wire.epoch THEN Retry(d) /\ UNCHANGED <<server, knows>>
         ELSE /\ server' = [server EXCEPT !.state[a] = "active"]
              /\ knows' = [knows EXCEPT ![a] = knows[a] \cup {server.key}]
              /\ run' = [run EXCEPT ![d] = [AtRest EXCEPT !.pc = "push", !.goal = "led", !.wire = run[d].wire]]
  BY <1>1 DEF WrapFor
<1>4. CASE ~Active(d) \/ server.state[a] = "out" \/ server.epoch # run[d].wire.epoch
  BY <1>2, <1>3, <1>4, BackStep DEF Back
<1>5. CASE ~(~Active(d) \/ server.state[a] = "out" \/ server.epoch # run[d].wire.epoch)
  <2>1. /\ server' = [server EXCEPT !.state[a] = "active"]
        /\ knows' = [knows EXCEPT ![a] = knows[a] \cup {server.key}]
        /\ run' = [run EXCEPT ![d] = [AtRest EXCEPT !.pc = "push", !.goal = "led", !.wire = run[d].wire]]
        /\ Active(d) /\ server.state[a] # "out"
    BY <1>3, <1>5
  <2>2. a \in Device /\ run[d].wire \in Wires BY <1>1 DEF Task
  <2>3. /\ server' \in Team /\ server'.epoch = server.epoch /\ server'.key = server.key
        /\ server'.made = server.made /\ server'.holds = server.holds
        /\ server'.state[a] = "active" /\ \A e \in Device : e # a => server'.state[e] = server.state[e]
    <3>1. "active" \in State /\ server.needs \in BOOLEAN BY <1>1 DEF State, Team
    <3>2. server' = [server EXCEPT !.state[a] = "active", !.needs = server.needs] BY <1>1, <2>1 DEF Team
    <3> QED BY <1>1, <2>2, <3>1, <3>2, PlaceTyped
  <2>4. PICK t : t = [AtRest EXCEPT !.pc = "push", !.goal = "led", !.wire = run[d].wire] OBVIOUS
  <2>5. "push" \in Place /\ "led" \in Goals BY DEF Place, Inside, Goals
  <2>6. t \in Task /\ t.pc = "push" /\ t.wire = run[d].wire BY <2>2, <2>4, <2>5, NothingTyped DEF Task
  <2>7. run' = [run EXCEPT ![d] = t] BY <2>1, <2>4
  <2>8. run'[d] = t /\ \A e \in Device : e # d => run'[e] = run[e] BY <1>1, <2>7 DEF Typed
  <2>9. /\ knows' \in [Device -> SUBSET Nat]
        /\ \A b \in Device : knows'[b] \subseteq knows[b] \cup {server.key} /\ (b # a => knows'[b] = knows[b])
    <3>1. server.key \in Nat /\ knows \in [Device -> SUBSET Nat] BY <1>1 DEF Team, Typed
    <3> QED BY <2>1, <2>2, <3>1
  <2>10. Typed' BY <1>1, <1>2, <2>3, <2>6, <2>7, <2>9 DEF Typed
  <2>11. Fits(d)'
    <3>1. TaskFits(d, dev[d], t)' BY <1>1, <1>2, <2>6 DEF TaskFits, Inside
    <3> QED BY <1>1, <1>2, <2>3, <2>8, <3>1 DEF Fits, SpaceFits, RowsFit, TaskFits
  <2>12. Stored' BY <2>3 DEF Inv, Stored
  <2>13. server.state[a] \in {"pending", "active"} BY <1>1, <2>1, <2>2 DEF Team, State
  <2>14. Taken BY DEF Inv
  <2>15. \A e, b \in Device : <<e, b>> \in took =>
            (Active(e)' => Active(e)) /\ (Bad(e, b)' => Bad(e, b)) /\ (b = a => Active(a))
    <3> SUFFICES ASSUME NEW e \in Device, NEW b \in Device, <<e, b>> \in took
                 PROVE (Active(e)' => Active(e)) /\ (Bad(e, b)' => Bad(e, b)) /\ (b = a => Active(a))
      OBVIOUS
    <3>1. server.state[e] # "pending" /\ server.state[b] # "pending" BY <2>14 DEF Taken
    <3>2. Active(e)' => Active(e) BY <2>3, <2>13, <3>1 DEF Active
    <3>3. b = a => Active(a) BY <2>13, <3>1 DEF Active
    <3>4. CASE b = a BY <3>2, <3>3, <3>4 DEF Bad
    <3>5. CASE b # a BY <1>2, <2>3, <2>9, <3>2, <3>5 DEF Bad, Active
    <3> QED BY <3>2, <3>3, <3>4, <3>5
  <2>16. Taken'
    <3>1. \A e, b \in Device : <<e, b>> \in took => /\ server'.state[e] # "pending" /\ server'.state[b] # "pending"
                                                    /\ Active(e)' => Active(e)
      BY <2>3, <2>14, <2>15 DEF Taken
    <3> QED BY <1>2, <2>14, <3>1 DEF Taken
  <2>17. ASSUME ~older PROVE (OwedOK(d) /\ WithOK(d) /\ GivenOK(d))'
    <3>1. OwedOK(d) /\ WithOK(d) /\ GivenOK(d) BY <2>17 DEF Inv
    <3>2. \A b \in Device : Bad(d, b)' => Bad(d, b) BY <1>2, <2>15 DEF Bad
    <3>3. OwedOK(d)' BY <1>2, <2>1, <2>6, <2>8, <3>1, <3>2 DEF OwedOK, Owes, At
    <3>4. WithOK(d)' BY <1>2, <2>6, <2>8, <3>1 DEF WithOK, At
    <3>5. GivenOK(d)' BY <1>2, <2>1, <2>3, <2>6, <2>8, <3>1, <3>2 DEF GivenOK, At
    <3> QED BY <3>3, <3>4, <3>5
  <2>18. \A e, b \in Device : e # d /\ <<e, b>> \in took' =>
           <<e, b>> \in took /\ (Active(e)' => Active(e)) /\ (Bad(e, b)' => Bad(e, b))
    BY <1>2, <2>15
  <2>19. \A r \in Record : server.holds[r].seq # 0 => server'.holds[r].seq # 0 BY <2>3
  <2>20. \A e \in Device : e # d /\ server.state[e] = "out" => server'.state[e] = "out" BY <2>1, <2>3
  <2>21. /\ \A e \in Device : e # d => dev'[e] = dev[e] /\ run'[e] = run[e] /\ own'[e] = own[e]
         /\ net' = net /\ dev'[d].pending \in {dev[d].pending, NoRotation} /\ run'[d].pc # "ask" /\ (~older' => ~older)
    BY <1>2, <2>6, <2>8
  <2>22. ~older' => (OwedOK(d) /\ WithOK(d) /\ GivenOK(d))' BY <2>17, <2>21
  <2> QED BY <2>3, <2>9, <2>10, <2>11, <2>12, <2>16, <2>18, <2>19, <2>20, <2>21, <2>22, DeviceStep
<1> QED BY <1>4, <1>5

\* What is written down of one account, with what is owed or without.
Pinned(d, a, p, b, c, s, o) ==
  /\ Alike(dev[d], s) /\ o.pins[a] = p /\ \A e \in Device : e # a => o.pins[e] = own[d].pins[e]
  /\ c /\ dev[d].space => s.owed = b
  /\ c /\ ~dev[d].space => o.owes = b
  /\ (c /\ dev[d].space) \/ s.owed = dev[d].owed
  /\ (c /\ ~dev[d].space) \/ o.owes = own[d].owes

Pins(d, a, p, b, c) ==
  /\ dev' = IF c THEN OwesHere(d, b) ELSE dev
  /\ own' = IF c THEN OwesThere([own EXCEPT ![d].pins[a] = p], d, b) ELSE [own EXCEPT ![d].pins[a] = p]

\* A step that writes so leaves the rest of the device as it was.
LEMMA PinnedFacts ==
  ASSUME Inv, NEW d \in Device, NEW a \in Device, NEW p \in Pin, NEW b \in BOOLEAN, NEW c \in BOOLEAN,
         Pins(d, a, p, b, c)
  PROVE  \E s \in Space, o \in Account :
           dev' = [dev EXCEPT ![d] = s] /\ own' = [own EXCEPT ![d] = o] /\ Pinned(d, a, p, b, c, s, o)
<1>1. Typed /\ own[d] \in Account /\ dev[d] \in Space /\ dev = [dev EXCEPT ![d] = dev[d]] BY DeviceFacts
<1>2. PICK pins : pins = [own[d].pins EXCEPT ![a] = p] OBVIOUS
<1>3. pins \in [Device -> Pin] /\ pins[a] = p /\ \A e \in Device : e # a => pins[e] = own[d].pins[e]
  BY <1>1, <1>2 DEF Account
<1>4. PICK q : q = [own[d] EXCEPT !.pins = pins] OBVIOUS
<1>5. q \in Account /\ q.pins = pins /\ q.owes = own[d].owes BY <1>1, <1>3, <1>4 DEF Account
<1>6. PICK base : base = [own EXCEPT ![d].pins[a] = p] OBVIOUS
<1>7. base = [own EXCEPT ![d] = q] BY <1>1, <1>2, <1>4, <1>6 DEF Typed
<1>8. base \in [Device -> Account] /\ base[d] = q BY <1>1, <1>5, <1>7 DEF Typed
<1>9. CASE c
  <2>1. PICK s \in Space, o \in Account :
           /\ OwesHere(d, b) = [dev EXCEPT ![d] = s] /\ Alike(dev[d], s)
           /\ OwesThere(base, d, b) = [base EXCEPT ![d] = o] /\ o.pins = base[d].pins
           /\ dev[d].space => s.owed = b /\ o.owes = base[d].owes
           /\ ~dev[d].space => s.owed = dev[d].owed /\ o.owes = b
    BY <1>8, OwesFacts
  <2>2. dev' = [dev EXCEPT ![d] = s] /\ own' = [base EXCEPT ![d] = o] BY <1>6, <1>9, <2>1 DEF Pins
  <2>3. own' = [own EXCEPT ![d] = o] BY <1>7, <2>2
  <2>4. Pinned(d, a, p, b, c, s, o) BY <1>3, <1>5, <1>8, <1>9, <2>1 DEF Pinned
  <2> QED BY <2>2, <2>3, <2>4
<1>10. CASE ~c
  <2>1. dev' = [dev EXCEPT ![d] = dev[d]] /\ own' = [own EXCEPT ![d] = q] BY <1>1, <1>6, <1>7, <1>10 DEF Pins
  <2>2. Pinned(d, a, p, b, c, dev[d], q) BY <1>3, <1>5, <1>10 DEF Pinned, Alike
  <2> QED BY <1>1, <1>5, <2>1, <2>2
<1> QED BY <1>9, <1>10

\* remove: a key is owed before the server hears of it.
LEMMA RemoveStep == ASSUME Inv, NEW d \in Device, NEW a \in Device, Remove(d, a) PROVE Inv'
<1>1. /\ Typed /\ dev[d] \in Space /\ run[d] \in Task /\ own[d] \in Account /\ server \in Team BY DeviceFacts
<1>2. PICK c \in BOOLEAN : c = Active(a)
  <2>1. Active(a) = TRUE \/ Active(a) = FALSE BY Zenon DEF Active
  <2> QED BY <2>1, Zenon
<1>3. PICK before \in BOOLEAN : before = IF dev[d].space THEN dev[d].owed ELSE own[d].owes BY <1>1 DEF Space, Account
<1>4. PICK t : t = [AtRest EXCEPT !.pc = "take", !.goal = "removal", !.with = {a}, !.had = c, !.pin = own[d].pins[a],
                                  !.before = before]
  OBVIOUS
<1>5. /\ dev' = IF c THEN OwesHere(d, TRUE) ELSE dev
      /\ own' = IF c THEN OwesThere([own EXCEPT ![d].pins[a] = "removed"], d, TRUE) ELSE [own EXCEPT ![d].pins[a] = "removed"]
      /\ took' = IF c THEN took \cup {<<d, a>>} ELSE took
    <2>1. c <=> Active(a) BY <1>2, Zenon
    <2> QED BY <2>1 DEF Remove, OwesFirst
<1>6. run' = [run EXCEPT ![d] = t] BY <1>2, <1>3, <1>4 DEF Remove
<1>7. /\ d # a /\ Active(d) /\ Event /\ UNCHANGED <<server, net, knows>>
      /\ older' = (older \/ dev[d].pending # NoRotation) /\ (c => server.state[a] = "active")
  <2>1. c <=> Active(a) BY <1>2, Zenon
  <2>2. c => server.state[a] = "active" BY <2>1 DEF Active
  <2>3. /\ d # a /\ Active(d) /\ Event /\ UNCHANGED <<server, net, knows>>
        /\ older' = (older \/ dev[d].pending # NoRotation)
    BY Zenon DEF Remove
  <2> QED BY <2>2, <2>3, Zenon
<1>8. "removed" \in Pin BY DEF Pin
<1>9. PICK s \in Space, o \in Account :
         dev' = [dev EXCEPT ![d] = s] /\ own' = [own EXCEPT ![d] = o] /\ Pinned(d, a, "removed", TRUE, c, s, o)
  <2>1. PICK b \in BOOLEAN : b = TRUE BY Zenon
  <2>2. Pins(d, a, "removed", b, c) BY <1>5, <2>1, Zenon DEF Pins
  <2>3. PICK s \in Space, o \in Account :
           dev' = [dev EXCEPT ![d] = s] /\ own' = [own EXCEPT ![d] = o] /\ Pinned(d, a, "removed", b, c, s, o)
    BY <1>8, <2>2, PinnedFacts
  <2> QED BY <2>1, <2>3, Zenon
<1>10. "take" \in Place /\ "removal" \in Goals /\ {a} \in SUBSET Device /\ own[d].pins[a] \in Pin
  BY <1>1 DEF Place, Goals, Account
<1>11. t \in Task /\ t.pc = "take" /\ t.with = {a} /\ t.before = before BY <1>4, <1>10, NothingTyped DEF Task
<1>12. TaskFits(d, s, t) BY <1>11, OutsideFits
<1>13. took' \subseteq Device \X Device /\ \A e, b \in Device : <<e, b>> \in took' => <<e, b>> \in took \/ (c /\ e = d /\ b = a)
  BY <1>1, <1>5 DEF Typed
<1>14. \A b \in Device : <<d, b>> \in took' =>
         /\ b # d /\ server.state[b] # "pending" /\ server.state[d] # "pending"
         /\ Active(d) => o.pins[b] = "removed"
  <2> SUFFICES ASSUME NEW b \in Device, <<d, b>> \in took'
               PROVE  /\ b # d /\ server.state[b] # "pending" /\ server.state[d] # "pending"
                      /\ Active(d) => o.pins[b] = "removed"
    OBVIOUS
  <2>1. o.pins[a] = "removed" /\ \A e \in Device : e # a => o.pins[e] = own[d].pins[e] BY <1>9 DEF Pinned
  <2>2. CASE <<d, b>> \in took BY <2>1, <2>2 DEF Inv, Taken
  <2>3. CASE c /\ b = a BY <1>7, <2>1, <2>3 DEF Active
  <2> QED BY <1>13, <2>2, <2>3
<1>15. older' \in BOOLEAN /\ (~older' => ~older /\ dev[d].pending = NoRotation)
  <2>1. older' \in BOOLEAN BY <1>7, Zenon
  <2> QED BY <1>7, <2>1
<1>16. dev'[d] = s /\ run'[d] = t /\ own'[d] = o BY <1>1, <1>6, <1>9 DEF Typed
<1>17. ASSUME ~older' PROVE (OwedOK(d) /\ WithOK(d) /\ GivenOK(d))'
  <2>1. OwedOK(d) BY <1>15, <1>17 DEF Inv
  <2>2. s.pending = NoRotation /\ s.space = dev[d].space BY <1>9, <1>15, <1>17 DEF Pinned, Alike
  <2>3. server.key # 0 /\ server.made \in Nat BY <1>1 DEF Team
  <2>4. \A m \in net : m.ask.key # 0 BY <2>3 DEF Inv, Asked
  <2>5. WithOK(d)' BY <1>7, <1>11, <1>16, <2>2, <2>4, NothingTyped DEF WithOK, At
  <2>6. GivenOK(d)' BY <1>7, <1>11, <1>16, <2>2, <2>3, NothingTyped DEF GivenOK, At
  <2>7. OwedOK(d)'
    <3> SUFFICES ASSUME NEW b \in Device, Bad(d, b)'
                 PROVE /\ s.owed \/ o.owes
                       /\ b # a => t.before \/ IF s.space THEN o.owes ELSE s.owed
      BY <1>11, <1>16 DEF OwedOK, Owes, OwesElse, At
    <3>1. <<d, b>> \in took' /\ (Active(b) \/ server.key \in knows[b]) BY <1>7 DEF Bad, Active
    <3>2. CASE <<d, b>> \in took
      <4>1. dev[d].owed \/ own[d].owes BY <1>7, <2>1, <3>1, <3>2 DEF OwedOK, Bad, Owes
      <4> QED BY <1>3, <1>9, <1>11, <2>2, <4>1 DEF Pinned
    <3>3. CASE c /\ b = a BY <1>9, <3>3 DEF Pinned
    <3> QED BY <1>13, <3>1, <3>2, <3>3
  <2> QED BY <2>5, <2>6, <2>7
<1>18. spent' \in [events : Nat, edits : Nat] BY <1>1, <1>7, EventTyped
<1>19. Alike(dev[d], s) BY <1>9 DEF Pinned
<1>20. \A e, b \in Device : e # d /\ <<e, b>> \in took' => <<e, b>> \in took BY <1>13
<1>21. ~older' => (OwedOK(d) /\ WithOK(d) /\ GivenOK(d))' BY <1>17
<1> QED BY <1>6, <1>7, <1>9, <1>11, <1>12, <1>13, <1>14, <1>15, <1>18, <1>19, <1>20, <1>21, WordStep

\* remove, the server's answer: it happened, or all is as it was.
LEMMA TakeStep == ASSUME Inv, NEW d \in Device, Take(d) PROVE Inv'
<1>1. /\ Typed /\ dev[d] \in Space /\ run[d] \in Task /\ own[d] \in Account /\ server \in Team BY DeviceFacts
<1>2. At(d, "take") /\ UNCHANGED <<net, knows, older, spent>> BY DEF Take
<1>3. PICK a \in run[d].with :
         IF Removable(d, a)
         THEN server' = Out(a) /\ Goto(d, "took") /\ UNCHANGED <<dev, own, took>>
         ELSE /\ dev' = IF run[d].had /\ ~run[d].before THEN OwesHere(d, FALSE) ELSE dev
              /\ own' = IF run[d].had /\ ~run[d].before
                        THEN OwesThere([own EXCEPT ![d].pins[a] = run[d].pin], d, FALSE)
                        ELSE [own EXCEPT ![d].pins[a] = run[d].pin]
              /\ took' = took \ {<<d, a>>}
              /\ Rest(d) /\ UNCHANGED server
  BY DEF Take
<1>4. a \in Device /\ run[d].pin \in Pin BY <1>1 DEF Task
<1>5. CASE Removable(d, a)
  <2>1. PICK t : t = [run[d] EXCEPT !.pc = "took"] OBVIOUS
  <2>2. "took" \in Place BY DEF Place
  <2>3. t \in Task /\ t.pc = "took" BY <1>1, <2>1, <2>2 DEF Task
  <2>4. run' = [run EXCEPT ![d] = t] BY <1>1, <1>3, <1>5, <2>1 DEF Goto, Typed
  <2>5. server' = Out(a) /\ UNCHANGED <<dev, own, took>> BY <1>3, <1>5
  <2>6. spent' \in [events : Nat, edits : Nat] BY <1>1, <1>2 DEF Typed
  <2> QED BY <1>2, <1>4, <2>3, <2>4, <2>5, <2>6, OutStep
<1>6. CASE ~Removable(d, a)
  <2>1. PICK c \in BOOLEAN : c = (run[d].had /\ ~run[d].before) BY Zenon
  <2>2. /\ dev' = IF c THEN OwesHere(d, FALSE) ELSE dev
        /\ own' = IF c THEN OwesThere([own EXCEPT ![d].pins[a] = run[d].pin], d, FALSE)
                  ELSE [own EXCEPT ![d].pins[a] = run[d].pin]
        /\ took' = took \ {<<d, a>>} /\ run' = [run EXCEPT ![d] = AtRest] /\ server' = server
    BY <1>3, <1>6, <2>1, Zenon DEF Rest
  <2>3. PICK s \in Space, o \in Account :
           dev' = [dev EXCEPT ![d] = s] /\ own' = [own EXCEPT ![d] = o] /\ Pinned(d, a, run[d].pin, FALSE, c, s, o)
    <3>1. PICK b \in BOOLEAN : b = FALSE BY Zenon
    <3>2. Pins(d, a, run[d].pin, b, c) BY <2>2, <3>1, Zenon DEF Pins
    <3>3. PICK s \in Space, o \in Account :
             dev' = [dev EXCEPT ![d] = s] /\ own' = [own EXCEPT ![d] = o] /\ Pinned(d, a, run[d].pin, b, c, s, o)
      BY <1>4, <3>2, PinnedFacts
    <3> QED BY <3>1, <3>3, Zenon
  <2>4. took' \subseteq took /\ \A b \in Device : <<d, b>> \in took' => b # a BY <2>2
  <2>5. \A b \in Device : <<d, b>> \in took' =>
           /\ b # d /\ server.state[b] # "pending" /\ server.state[d] # "pending"
           /\ Active(d) => o.pins[b] = "removed"
    BY <2>3, <2>4 DEF Inv, Taken, Pinned
  <2>6. took' \subseteq Device \X Device /\ older' \in BOOLEAN /\ (~older' => ~older) BY <1>1, <1>2, <2>4 DEF Typed
  <2>7. dev'[d] = s /\ run'[d] = AtRest /\ own'[d] = o BY <1>1, <2>2, <2>3 DEF Typed
  <2>8. ASSUME ~older' PROVE (OwedOK(d) /\ WithOK(d) /\ GivenOK(d))'
    <3>1. OwedOK(d) /\ WithOK(d) /\ GivenOK(d) BY <2>6, <2>8 DEF Inv
    <3>2. s.pending = dev[d].pending /\ s.space = dev[d].space BY <2>3 DEF Pinned, Alike
    <3>3. AtRest.pc = "idle" BY RestFits
    <3>4. \A b \in Device : (Active(b)' <=> Active(b)) /\ (Bad(d, b)' => Bad(d, b) /\ b # a)
      BY <1>2, <2>2, <2>4 DEF Active, Bad
    <3>5. WithOK(d)' BY <1>2, <2>4, <2>7, <3>1, <3>2, <3>3 DEF WithOK, At
    <3>6. GivenOK(d)' BY <2>2, <2>7, <3>1, <3>2, <3>3, <3>4 DEF GivenOK, At
    <3>7. OwedOK(d)'
      <4> SUFFICES ASSUME NEW b \in Device, Active(d), Bad(d, b), b # a PROVE s.owed \/ o.owes
        BY <2>7, <3>3, <3>4 DEF OwedOK, Owes, At
      <4>1. dev[d].owed \/ own[d].owes BY <3>1 DEF OwedOK, Owes
      <4>2. run[d].before \/ IF dev[d].space THEN own[d].owes ELSE dev[d].owed
        <5>1. run[d].with \ {b} # {} BY <1>3
        <5> QED BY <1>2, <3>1, <5>1 DEF OwedOK, OwesElse
      <4>3. c => ~run[d].before BY <2>1
      <4> QED BY <2>3, <4>1, <4>2, <4>3 DEF Pinned
    <3> QED BY <3>5, <3>6, <3>7
  <2>9. spent' \in [events : Nat, edits : Nat] BY <1>1, <1>2 DEF Typed
  <2>10. Alike(dev[d], s) BY <2>3 DEF Pinned
  <2>11. \A e, b \in Device : e # d /\ <<e, b>> \in took' => <<e, b>> \in took BY <2>4
  <2>12. ~older' => (OwedOK(d) /\ WithOK(d) /\ GivenOK(d))' BY <2>8
  <2>13. UNCHANGED <<server, net, knows>> BY <1>2, <2>2
  <2> QED BY <2>2, <2>3, <2>5, <2>6, <2>9, <2>10, <2>11, <2>12, <2>13, NothingTyped, RestFits, WordStep
<1> QED BY <1>5, <1>6

------------------------------------------------------------------------------
(* The theorems                                                             *)

\* A team that was created, its members level with it.
LEMMA InitInv == ASSUME Init PROVE Inv
<1>1. PICK first \in SUBSET Device, rest \in {"pending", "out"} :
        /\ server = [epoch |-> 2, key |-> 1, earlier |-> <<>>, made |-> 1, needs |-> FALSE, cursor |-> 0,
                     holds |-> [r \in Record |-> [version |-> 0, seq |-> 0]],
                     state |-> [d \in Device |-> IF d \in first THEN "active" ELSE rest]]
        /\ net = {}
        /\ dev = [d \in Device |-> IF d \in first
                    THEN [NoSpace EXCEPT !.space = TRUE, !.open = TRUE, !.sealed = TRUE, !.epoch = 2, !.key = 1]
                    ELSE NoSpace]
        /\ own = [d \in Device |->
                    [record |-> IF d \in first THEN [epoch |-> 2, key |-> 1] ELSE NoRotation, owes |-> FALSE,
                     pins |-> [a \in Device |-> IF {a, d} \subseteq first THEN "confirmed" ELSE "none"]]]
        /\ knows = [d \in Device |-> IF d \in first THEN {1} ELSE {}]
        /\ run = [d \in Device |-> AtRest]
        /\ took = {} /\ older = FALSE
        /\ spent = [events |-> 0, edits |-> 0]
  BY DEF Init
<1>2. 1 \in 1 .. MaxKeys /\ 1 \in Key /\ <<>> \in Chain BY TeamsAssumption DEF Key, Chain
<1>3. PICK s : s = [NoSpace EXCEPT !.space = TRUE, !.open = TRUE, !.sealed = TRUE, !.epoch = 2, !.key = 1] OBVIOUS
<1>4. s \in Space BY <1>2, <1>3, NothingTyped DEF Space
<1>5. /\ s.space /\ s.open /\ s.epoch = 2 /\ s.key = 1 /\ s.pending = NoRotation /\ s.dirty = {}
      /\ \A r \in Record : s.rows[r] = 0 /\ s.seq[r] = 0
  BY <1>3 DEF NoSpace
<1>6. /\ server \in Team /\ server.epoch = 2 /\ server.key = 1 /\ server.made = 1
      /\ \A r \in Record : server.holds[r].seq = 0
  BY <1>1, <1>2 DEF Team, Held, State
<1>7. own \in [Device -> Account]
  <2> SUFFICES ASSUME NEW d \in Device PROVE own[d] \in Account BY <1>1
  <2>1. PICK pins : pins = [a \in Device |-> IF {a, d} \subseteq first THEN "confirmed" ELSE "none"] OBVIOUS
  <2>2. PICK rec : rec = IF d \in first THEN [epoch |-> 2, key |-> 1] ELSE NoRotation OBVIOUS
  <2>3. own[d] = [record |-> rec, owes |-> FALSE, pins |-> pins] BY <1>1, <2>1, <2>2
  <2>4. pins \in [Device -> Pin] BY <2>1 DEF Pin
  <2>5. rec \in Rotation BY <1>2, <2>2, NothingTyped DEF Rotation
  <2> QED BY <2>3, <2>4, <2>5 DEF Account
<1>8. dev \in [Device -> Space] /\ \A d \in Device : dev[d] = s \/ dev[d] = NoSpace BY <1>1, <1>3, <1>4, NothingTyped
<1>9. Typed
  <2>1. run \in [Device -> Task] /\ knows \in [Device -> SUBSET Nat] BY <1>1, NothingTyped
  <2>2. spent \in [events : Nat, edits : Nat] /\ older \in BOOLEAN BY <1>1
  <2>3. net \subseteq Request /\ took \subseteq Device \X Device BY <1>1
  <2> QED BY <1>6, <1>7, <1>8, <2>1, <2>2, <2>3 DEF Typed
<1>10. ASSUME NEW d \in Device PROVE Fits(d)
  <2>1. SpaceFits(s) /\ RowsFit(d, s) BY <1>5, <1>6 DEF SpaceFits, RowsFit
  <2>2. run[d] = AtRest BY <1>1
  <2> QED BY <1>8, <2>1, <2>2, RestFits DEF Fits
<1>11. \A d \in Device : dev[d].pending.key = 0 BY <1>5, <1>8, NothingTyped, RestFits
<1>12. \A a \in Device : knows[a] \subseteq 1 .. 1 BY <1>1
<1>13. Stored /\ KnownKeys BY <1>6, <1>11, <1>12 DEF Stored, KnownKeys
<1>14. \A d \in Device : run[d].pc = "idle" BY <1>1, RestFits
<1>15. Asked /\ Asking /\ Taken BY <1>1, <1>14 DEF Asked, Asking, Taken, At
<1>16. \A d \in Device : OwedOK(d) /\ WithOK(d) /\ GivenOK(d) BY <1>1 DEF OwedOK, WithOK, GivenOK, Bad
<1> QED BY <1>9, <1>10, <1>13, <1>15, <1>16 DEF Inv

\* Every step keeps the invariant.
LEMMA NextInv == ASSUME Inv, [Next]_vars PROVE Inv'
<1>1. ASSUME NEW d \in Device, Step(d) PROVE Inv'
  BY <1>1, SettleStep, GoneStep, StopStep, NoteStep, PushStep, PullStep, RequeueStep, LookAtStep, AskStep,
     AnsweredStep, AdmitStep, WrapForStep, TakeStep, TookStep, ForgetStep DEF Step
<1>2. ASSUME NEW d \in Device, Asks(d) PROVE Inv'
  BY <1>2, JoinStep, LeaveStep, ConfirmStep, RemoveStep, EditStep DEF Asks
<1>3. ASSUME NEW d \in Device, Faults(d) PROVE Inv' BY <1>3, GiveUpStep, TakeUnheardStep, CrashStep DEF Faults
<1>4. ASSUME NEW m \in net, Late(m) PROVE Inv' BY <1>4, LateStep
<1>5. CASE ServerForgets BY <1>5, ServerForgetsStep
<1>6. CASE UNCHANGED vars
  <2>1. Typed' BY <1>6 DEF Inv, Typed, vars
  <2>2. \A e \in Device : Fits(e)' BY <1>6 DEF Inv, Fits, SpaceFits, TaskFits, RowsFit, vars
  <2> QED BY <1>6, <2>1, <2>2, QuietStep DEF vars
<1> QED BY <1>1, <1>2, <1>3, <1>4, <1>5, <1>6 DEF Next

\* The invariant holds for any accounts, records and bounds (team.rs of the sync crate and
\* of the store).
THEOREM Invariance == Spec => []Inv
<1>1. Init => Inv BY InitInv
<1>2. Inv /\ [Next]_vars => Inv' BY NextInv
<1> QED BY <1>1, <1>2, PTL DEF Spec

\* A rotation is noted for the next epoch, what waits to be sent exists, and only an open
\* space is pushed, pulled or rotated.
THEOREM TypeCorrect == Spec => []TypeOK
<1>1. Inv => TypeOK
  <2> SUFFICES ASSUME Inv PROVE TypeOK OBVIOUS
  <2>1. server \in Team BY DEF Inv, Typed
  <2>2. /\ server.epoch \in Nat /\ server.key \in 1 .. MaxKeys /\ server.made \in 1 .. MaxKeys
        /\ Len(server.earlier) <= MaxEarlier
    BY <2>1 DEF Team, Chain
  <2>3. ASSUME NEW d \in Device
        PROVE  /\ dev[d].dirty \subseteq {r \in Record : dev[d].rows[r] # 0}
               /\ dev[d].pending # NoRotation => dev[d].pending.epoch = dev[d].epoch + 1
               /\ run[d].goal \in Goals /\ run[d].tries <= MaxTries
               /\ run[d].pc \in {"push", "pull", "requeue", "members", "ask", "answered"} => dev[d].open
    <3>1. run[d] \in Task /\ SpaceFits(dev[d]) /\ TaskFits(d, dev[d], run[d]) BY DeviceFacts
    <3>2. run[d].goal \in Goals /\ run[d].tries <= MaxTries BY <3>1, TeamsAssumption DEF Task
    <3> QED BY <3>1, <3>2 DEF SpaceFits, TaskFits, Inside
  <2> QED BY <2>2, <2>3 DEF TypeOK
<1> QED BY <1>1, Invariance, PTL

\* Who is level with the team has its key, however many rotations are on their way
\* (settle, team_note_rotation).
THEOREM OneKeyPerEpoch == Spec => []OneKey
<1>1. Inv => OneKey BY DEF Inv, Fits, SpaceFits, OneKey
<1> QED BY <1>1, Invariance, PTL

\* What a writing device has and does not mean to send, the server has (Rekey::Lead,
\* Rekey::Follow, team_requeue), wherever a change of key was cut off.
THEOREM NothingLost == Spec => []NothingIsLost
<1>1. Inv => NothingIsLost
  <2> SUFFICES ASSUME Inv, NEW d \in Writer, NEW r \in Record, dev[d].space, dev[d].epoch = server.epoch,
                      ~dev[d].requeue, r \notin dev[d].dirty, dev[d].rows[r] # 0
               PROVE  server.holds[r].version # 0
    BY DEF NothingIsLost
  <2>1. d \in Device BY TeamsAssumption
  <2>2. RowsFit(d, dev[d]) /\ Stored BY <2>1 DEF Inv, Fits
  <2> QED BY <2>2 DEF RowsFit, Stored
<1> QED BY <1>1, Invariance, PTL

\* While who was taken out knows the team's key, whoever took them out owes another
\* (remove, rotate_after_removal).
THEOREM KeyOwed == Spec => []KeyIsOwed
<1>1. Inv => KeyIsOwed
  <2> SUFFICES ASSUME Inv, NEW d \in Members, NEW a \in Device, <<d, a>> \in took, server.key \in knows[a], ~older
               PROVE  Owes(d)
    BY DEF KeyIsOwed
  <2>1. d \in Device /\ Active(d) BY DEF Members
  <2>2. OwedOK(d) BY <2>1 DEF Inv
  <2> QED BY <2>1, <2>2 DEF OwedOK, Bad
<1> QED BY <1>1, Invariance, PTL
==============================================================================
