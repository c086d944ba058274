------------------------------- MODULE Teams -------------------------------
(***************************************************************************)
(* A team: a vault several accounts share, and the changes of its key      *)
(* (uwussh-sync, team.rs; uwussh-store, team.rs; uwussh-vault, team.rs;    *)
(* apps/desktop/src-tauri, teams.rs).                                      *)
(*                                                                         *)
(* Every account has one device; a command takes the pass flag, so a       *)
(* device does one thing at a time.  A key is a number, its mark is the    *)
(* key.  A version of a record is the number of the edit that wrote it;    *)
(* how versions compare is the subject of Clock and Merge, and what a push *)
(* in flight meets that of Sync.  The server is another repository; it is  *)
(* modelled by what team.rs asks of it and what its test double answers.   *)
(***************************************************************************)
EXTENDS Integers, Sequences, FiniteSets

CONSTANTS
  Device,      \* accounts, each with its device
  Manager,     \* the ones that manage the team
  Writer,      \* the ones that write; the others read
  Record,
  MaxEarlier,  \* MAX_EARLIER: marks a wrap carries
  MaxTries,    \* ROTATE_TRIES
  MaxEdits,    \* bound: edits
  MaxKeys,     \* bound: keys made
  MaxEvents    \* bound: what people ask for, crashes, answers that do not come,
               \* and what the server forgets

ASSUME TeamsAssumption ==
  /\ Manager \subseteq Writer /\ Writer \subseteq Device /\ Manager # {}
  /\ {MaxEarlier, MaxEdits, MaxEvents} \subseteq Nat
  /\ {MaxTries, MaxKeys} \subseteq Nat \ {0}

VARIABLES
  server,  \* the team as the server has it
  net,     \* rotations that were asked for by who does not wait any more
  dev,     \* the team's space on a device
  own,     \* what an account wrote down in its own store
  run,     \* what a device is doing
  knows,   \* history: the keys an account was handed
  took,    \* history: <<d, a>>, d took out a, whom it saw active
  older,   \* history: d began that with a rotation it had not seen the end of
  spent

vars == <<server, net, dev, own, run, knows, took, older, spent>>

NoRotation == [epoch |-> 0, key |-> 0]
NoSpace ==
  [space |-> FALSE, open |-> FALSE, sealed |-> FALSE, epoch |-> 0, key |-> 0, requeue |-> FALSE,
   pending |-> NoRotation, owed |-> FALSE, rows |-> [r \in Record |-> 0], dirty |-> {},
   seq |-> [r \in Record |-> 0], cursor |-> 0]
NoWire == [epoch |-> 0, key |-> 0, earlier |-> <<>>, needs |-> FALSE]
AtRest == [pc |-> "idle", goal |-> "pass", wire |-> NoWire, mine |-> FALSE, conflict |-> FALSE,
           tries |-> 1, with |-> {}, had |-> FALSE, before |-> FALSE, pin |-> "none", ask |-> NoWire]

Goals == {"pass", "rotate", "removal", "confirm", "led"}

\* A rotation is noted for the epoch after the one the space is at, only records
\* that exist wait to be sent, and only an open space is pushed, pulled or rotated.
TypeOK ==
  /\ server.epoch \in Nat /\ server.key \in 1..MaxKeys /\ server.made \in 1..MaxKeys
  /\ Len(server.earlier) <= MaxEarlier
  /\ \A d \in Device :
       /\ dev[d].dirty \subseteq {r \in Record : dev[d].rows[r] # 0}
       /\ dev[d].pending # NoRotation => dev[d].pending.epoch = dev[d].epoch + 1
       /\ run[d].goal \in Goals /\ run[d].tries <= MaxTries
       /\ run[d].pc \in {"push", "pull", "requeue", "members", "ask", "answered"} => dev[d].open

-----------------------------------------------------------------------------
Event == spent.events < MaxEvents /\ spent' = [spent EXCEPT !.events = @ + 1]

At(d, pc)   == run[d].pc = pc
Goto(d, pc) == run' = [run EXCEPT ![d].pc = pc]
Rest(d)     == run' = [run EXCEPT ![d] = AtRest]

Active(d) == server.state[d] = "active"
Members   == {d \in Device : Active(d)}

Ghosts == <<took, older>>

Owes(d) == dev[d].owed \/ own[d].owes

\* owe: with the team's space, or in the account's own store.
OwesHere(d, b) == [dev EXCEPT ![d].owed = IF dev[d].space THEN b ELSE @]
OwesThere(base, d, b) == [base EXCEPT ![d].owes = IF dev[d].space THEN @ ELSE b]

\* A rotation did not come about.  After a removal that is written down once more.
Fails(d) == IF run[d].goal = "removal" THEN Goto(d, "stop") ELSE Rest(d)

Stop(d) ==
  /\ At(d, "stop")
  /\ dev' = OwesHere(d, TRUE)
  /\ own' = OwesThere(own, d, TRUE)
  /\ Rest(d)
  /\ UNCHANGED <<server, net, knows, Ghosts, spent>>

\* Something got in the way: from the list of teams again, so often.
Retry(d) ==
  IF run[d].tries < MaxTries
  THEN run' = [run EXCEPT ![d] = [AtRest EXCEPT !.pc = "one", !.goal = run[d].goal,
                                                !.tries = run[d].tries + 1, !.with = run[d].with]]
  ELSE Fails(d)

-----------------------------------------------------------------------------
(* settle: the key the server hands out.                                   *)

\* follows, follows_mark: the same key at the same epoch, or among the marks
\* where it has to be.
Follows(wire, epoch, key) ==
  IF wire.epoch = epoch THEN wire.key = key
  ELSE /\ wire.epoch > epoch /\ wire.epoch - epoch <= Len(wire.earlier)
       /\ wire.earlier[wire.epoch - epoch] = key

Wire == [epoch |-> server.epoch, key |-> server.key, earlier |-> server.earlier,
         needs |-> server.needs]

\* A pass that would find nothing changes nothing and is left out.
Due(d) ==
  \/ ~dev[d].open \/ dev[d].dirty # {} \/ dev[d].requeue \/ dev[d].pending # NoRotation
  \/ server.epoch # dev[d].epoch \/ \E r \in Record : server.holds[r].seq > dev[d].cursor
  \/ d \in Manager /\ (server.needs \/ Owes(d))

\* pass asks for the team itself when it is not listed; "not found" takes the
\* space away.
Gone(d) ==
  /\ At(d, "idle") /\ dev[d].space /\ server.state[d] = "out"
  /\ dev' = [dev EXCEPT ![d] = NoSpace]
  /\ UNCHANGED <<server, net, own, run, knows, Ghosts, spent>>

\* Mutant of TakenKey: a noted rotation is taken to have happened.
TakenNoted(d, w) == IF dev[d].pending.epoch = w.epoch THEN dev[d].pending.key ELSE w.key

TakenKey(d, w) == w.key

\* The rotation this device began did happen.
Mine(d, w) == dev[d].pending = [epoch |-> w.epoch, key |-> w.key]

\* Mutant of Rekeyed: whoever rotated sends nothing again.
RekeyedQuietly(d, epoch, key, how) ==
  [dev EXCEPT ![d] = [@ EXCEPT !.epoch = epoch, !.key = key, !.pending = NoRotation,
                               !.sealed = FALSE, !.requeue = (how = "follow"),
                               !.seq = [r \in Record |-> 0], !.cursor = 0]]

\* Mutant of Rekeyed: the noted rotation stays.
RekeyedNoted(d, epoch, key, how) ==
  [dev EXCEPT ![d] = [@ EXCEPT !.epoch = epoch, !.key = key,
                               !.sealed = FALSE, !.requeue = (how = "follow"),
                               !.dirty = IF how = "lead" THEN {r \in Record : dev[d].rows[r] # 0} ELSE dev[d].dirty,
                               !.seq = [r \in Record |-> 0], !.cursor = 0]]

\* team_rekey: who led sends everything, who follows waits for the pull.
Rekeyed(d, epoch, key, how) ==
  [dev EXCEPT ![d] = [@ EXCEPT !.epoch = epoch, !.key = key, !.pending = NoRotation,
                               !.sealed = FALSE, !.requeue = (how = "follow"),
                               !.dirty = IF how = "lead" THEN {r \in Record : dev[d].rows[r] # 0} ELSE dev[d].dirty,
                               !.seq = [r \in Record |-> 0], !.cursor = 0]]

\* What this account wrote down, and what this device holds, come before it; a
\* space whose key is gone opens only with the same key.
Trusted(d, w) ==
  /\ own[d].record # NoRotation => Follows(w, own[d].record.epoch, own[d].record.key)
  /\ dev[d].space => /\ dev[d].open \/ dev[d].epoch = w.epoch
                     /\ Follows(w, dev[d].epoch, dev[d].key)

Settled(d, w) ==
  IF ~dev[d].space
  THEN [dev EXCEPT ![d] = [NoSpace EXCEPT !.space = TRUE, !.open = TRUE, !.epoch = w.epoch, !.key = w.key]]
  ELSE IF w.epoch > dev[d].epoch
  THEN Rekeyed(d, w.epoch, TakenKey(d, w),
               IF Mine(d, w) THEN "lead" ELSE IF d \in Writer THEN "follow" ELSE "read")
  ELSE [dev EXCEPT ![d].open = TRUE, ![d].pending = NoRotation]

\* pass, and one: the team as it is listed, and its key.
Settle(d) ==
  /\ At(d, "one") \/ (At(d, "idle") /\ Active(d) /\ Due(d))
  /\ IF Active(d) /\ Trusted(d, Wire)
     THEN /\ dev' = Settled(d, Wire)
          /\ run' = [run EXCEPT ![d].pc = "note", ![d].wire = Wire, ![d].mine = Mine(d, Wire)]
     ELSE Fails(d) /\ UNCHANGED dev
  /\ UNCHANGED <<server, net, own, knows, Ghosts, spent>>

\* What follows in stores of their own: what was owed is given, the chain is
\* sealed again, the key is written down.
Note(d) ==
  /\ At(d, "note")
  /\ LET w == run[d].wire IN
     /\ dev' = [dev EXCEPT ![d].owed = @ /\ ~run[d].mine, ![d].sealed = TRUE]
     /\ own' = [own EXCEPT ![d].owes = @ /\ ~run[d].mine,
                           ![d].record = IF @.epoch < w.epoch
                                         THEN [epoch |-> w.epoch, key |-> w.key] ELSE @]
  /\ run' = [run EXCEPT ![d].pc = IF run[d].goal = "confirm" THEN "admit"
                                  ELSE IF d \in Writer THEN "push" ELSE "pull",
                        ![d].mine = FALSE]
  /\ UNCHANGED <<server, net, knows, Ghosts, spent>>

-----------------------------------------------------------------------------
(* sync: push and pull to the end, twice at most.                          *)

\* The team moved on: the next pass looks again, a rotation tries again.
MovedOn(d) ==
  IF Active(d) /\ run[d].goal \in {"rotate", "removal"} THEN Retry(d) ELSE Fails(d)

Current(d) == Active(d) /\ server.epoch = run[d].wire.epoch

\* What the server takes: a record it holds no newer state of than the sender
\* has seen.
Takes(d) == {r \in dev[d].dirty : server.holds[r].seq <= dev[d].seq[r]}

Push(d) ==
  /\ At(d, "push")
  /\ IF dev[d].dirty # {} /\ ~Current(d) THEN MovedOn(d) /\ UNCHANGED <<server, dev>>
     ELSE LET new == Takes(d)
              at  == server.cursor + 1 IN
          /\ server' = IF new = {} THEN server
                       ELSE [server EXCEPT !.cursor = at,
                               !.holds = [r \in Record |-> IF r \in new
                                            THEN [version |-> dev[d].rows[r], seq |-> at] ELSE @[r]]]
          /\ dev' = [dev EXCEPT ![d].dirty = @ \ new,
                                ![d].seq = [r \in Record |-> IF r \in new THEN at ELSE @[r]]]
          /\ run' = [run EXCEPT ![d].pc = "pull", ![d].conflict = (new # dev[d].dirty)]
  /\ UNCHANGED <<net, own, knows, Ghosts, spent>>

Pull(d) ==
  /\ At(d, "pull")
  /\ IF ~Current(d) THEN MovedOn(d) /\ UNCHANGED dev
     ELSE LET sent  == {r \in Record : server.holds[r].seq > dev[d].cursor}
              taken == {r \in sent : server.holds[r].version >= dev[d].rows[r]} IN
          /\ dev' = [dev EXCEPT
                       ![d].rows = [r \in Record |-> IF r \in taken THEN server.holds[r].version ELSE @[r]],
                       ![d].dirty = @ \ taken,
                       ![d].seq = [r \in Record |-> IF r \in sent THEN server.holds[r].seq ELSE @[r]],
                       ![d].cursor = IF sent = {} THEN @ ELSE server.cursor]
          /\ run' = [run EXCEPT ![d].pc = IF run[d].conflict /\ d \in Writer THEN "push" ELSE "requeue",
                                ![d].wire.needs = server.needs, ![d].conflict = FALSE]
  /\ UNCHANGED <<server, net, own, knows, Ghosts, spent>>

\* team_requeue: what the server did not send back goes to it again.
Queued(d) == {r \in Record : dev[d].rows[r] # 0 /\ dev[d].seq[r] = 0} \ dev[d].dirty

\* pass_one: a key that is needed or owed is given by whoever manages the team.
Requeue(d) ==
  /\ At(d, "requeue")
  /\ LET again == IF d \in Writer /\ dev[d].requeue THEN Queued(d) ELSE {} IN
     /\ dev' = [dev EXCEPT ![d].requeue = @ /\ d \notin Writer, ![d].dirty = @ \cup again]
     /\ IF again # {} THEN Goto(d, "push")
        ELSE IF run[d].goal \in {"rotate", "removal"} THEN Goto(d, "members")
        ELSE IF run[d].goal = "pass" /\ d \in Manager /\ (run[d].wire.needs \/ Owes(d))
        THEN run' = [run EXCEPT ![d] = [AtRest EXCEPT !.pc = "one", !.goal = "rotate"]]
        ELSE Rest(d)
  /\ UNCHANGED <<server, net, own, knows, Ghosts, spent>>

-----------------------------------------------------------------------------
(* rotate.                                                                 *)

\* handed_on
HandedOn(wire) == SubSeq(<<wire.key>> \o wire.earlier, 1,
                         IF Len(wire.earlier) < MaxEarlier THEN Len(wire.earlier) + 1 ELSE MaxEarlier)

\* Everybody is looked at before anything is written; the rotation is noted
\* before the server is asked.
LookAtMembers(d) ==
  /\ At(d, "members")
  /\ IF ~Active(d) \/ \E a \in Members \ {d} : own[d].pins[a] # "confirmed"
     THEN Fails(d) /\ UNCHANGED <<server, dev>>
     ELSE /\ server.made < MaxKeys
          /\ LET key == server.made + 1 IN
             /\ server' = [server EXCEPT !.made = key]
             /\ dev' = [dev EXCEPT ![d].pending = [epoch |-> run[d].wire.epoch + 1, key |-> key]]
             /\ run' = [run EXCEPT ![d].pc = "ask", ![d].with = Members,
                          ![d].ask = [epoch |-> run[d].wire.epoch + 1, key |-> key,
                                      earlier |-> HandedOn(run[d].wire), needs |-> FALSE]]
  /\ UNCHANGED <<net, own, knows, Ghosts, spent>>

\* The server changes the key when nothing came in between, and forgets the records.
Accepts(d, ask, with, cursor) ==
  Active(d) /\ ask.epoch = server.epoch + 1 /\ with = Members /\ cursor = server.cursor

Changed(ask) ==
  /\ server' = [server EXCEPT !.epoch = ask.epoch, !.key = ask.key, !.earlier = ask.earlier,
                              !.needs = FALSE, !.holds = [r \in Record |-> [version |-> 0, seq |-> 0]]]
  /\ knows' = [a \in Device |-> IF a \in Members THEN knows[a] \cup {ask.key} ELSE knows[a]]

Ask(d) ==
  /\ At(d, "ask")
  /\ IF Accepts(d, run[d].ask, run[d].with, dev[d].cursor)
     THEN Changed(run[d].ask) /\ Goto(d, "answered") /\ UNCHANGED dev
     ELSE /\ dev' = [dev EXCEPT ![d].pending = NoRotation]
          /\ IF Active(d) THEN Retry(d) ELSE Fails(d)
          /\ UNCHANGED <<server, knows>>
  /\ UNCHANGED <<net, own, Ghosts, spent>>

\* The answer does not come; the server may do it all the same, at once or later.
GiveUp(d) ==
  /\ At(d, "ask") /\ Event
  /\ net' = net \cup {[from |-> d, ask |-> run[d].ask, with |-> run[d].with, cursor |-> dev[d].cursor]}
  /\ Fails(d)
  /\ UNCHANGED <<server, dev, own, knows, Ghosts>>

Late(m) ==
  /\ m \in net /\ net' = net \ {m}
  /\ IF Accepts(m.from, m.ask, m.with, m.cursor) THEN Changed(m.ask) ELSE UNCHANGED <<server, knows>>
  /\ UNCHANGED <<dev, own, run, Ghosts, spent>>

Answered(d) ==
  /\ At(d, "answered")
  /\ dev' = Rekeyed(d, run[d].ask.epoch, run[d].ask.key, "lead")
  /\ run' = [run EXCEPT ![d] = [AtRest EXCEPT !.pc = "note", !.goal = "led", !.mine = TRUE,
                                              !.wire = run[d].ask]]
  /\ UNCHANGED <<server, net, own, knows, Ghosts, spent>>

-----------------------------------------------------------------------------
(* What a person asks for.                                                 *)

\* Join, with an invite: starting over.
Join(d) ==
  /\ At(d, "idle") /\ server.state[d] = "out" /\ Event
  /\ server' = [server EXCEPT !.state[d] = "pending"]
  /\ own' = [own EXCEPT ![d].record = NoRotation]
  /\ took' = {t \in took : d \notin {t[1], t[2]}}
  /\ UNCHANGED <<net, dev, run, knows, older>>

\* confirm: the fingerprint was compared.
Confirm(d, a) ==
  /\ At(d, "idle") /\ d # a /\ d \in Manager /\ server.state[a] # "out"
  /\ own[d].pins[a] # "confirmed" /\ Event
  /\ run' = [run EXCEPT ![d] = [AtRest EXCEPT !.pc = "one", !.goal = "confirm", !.with = {a}]]
  /\ UNCHANGED <<server, net, dev, own, knows, Ghosts>>

\* For who is in it is only written down; who waits is let in with the key.  A
\* removal that did not come about is taken back with it.
Admit(d) ==
  /\ At(d, "admit")
  /\ \E a \in run[d].with :
       IF ~Active(d) \/ server.state[a] = "out" THEN Rest(d) /\ UNCHANGED <<own, took>>
       ELSE /\ own' = [own EXCEPT ![d].pins[a] = "confirmed"]
            /\ took' = took \ {<<d, a>>}
            /\ IF Active(a) THEN Rest(d) ELSE Goto(d, "wrap")
  /\ UNCHANGED <<server, net, dev, knows, older, spent>>

WrapFor(d) ==
  /\ At(d, "wrap")
  /\ \E a \in run[d].with :
       IF ~Active(d) \/ server.state[a] = "out" THEN Rest(d) /\ UNCHANGED <<server, knows>>
       ELSE IF server.epoch # run[d].wire.epoch THEN Retry(d) /\ UNCHANGED <<server, knows>>
       ELSE /\ server' = [server EXCEPT !.state[a] = "active"]
            /\ knows' = [knows EXCEPT ![a] = @ \cup {server.key}]
            /\ run' = [run EXCEPT ![d] = [AtRest EXCEPT !.pc = "push", !.goal = "led", !.wire = run[d].wire]]
  /\ UNCHANGED <<net, dev, own, Ghosts, spent>>

\* Mutant of OwesFirst: written down only after the server answered.
OwesFirstNot(a) == FALSE

\* Somebody who was only waiting never had the key.
OwesFirst(a) == Active(a)

\* remove: nothing for them any more, and what is owed is written down, before
\* the server hears of it.
Remove(d, a) ==
  /\ At(d, "idle") /\ d # a /\ d \in Manager /\ Active(d) /\ server.state[a] # "out" /\ Event
  /\ dev' = IF OwesFirst(a) THEN OwesHere(d, TRUE) ELSE dev
  /\ LET barred == [own EXCEPT ![d].pins[a] = "removed"] IN
     own' = IF OwesFirst(a) THEN OwesThere(barred, d, TRUE) ELSE barred
  /\ run' = [run EXCEPT ![d] = [AtRest EXCEPT !.pc = "take", !.goal = "removal", !.with = {a},
                                  !.had = Active(a), !.pin = own[d].pins[a],
                                  !.before = IF dev[d].space THEN dev[d].owed ELSE own[d].owes]]
  /\ took' = IF Active(a) THEN took \cup {<<d, a>>} ELSE took
  /\ older' = (older \/ dev[d].pending # NoRotation)
  /\ UNCHANGED <<server, net, knows>>

\* The server: a member goes, the last owner does not.
Out(a) == [server EXCEPT !.state[a] = "out", !.needs = @ \/ Active(a)]
LastOwner(a) == a \in Manager /\ Members \cap Manager = {a}
Removable(d, a) == Active(d) /\ server.state[a] # "out" /\ ~LastOwner(a)

\* The server takes the member out, or refuses and all is as it was.
Take(d) ==
  /\ At(d, "take")
  /\ \E a \in run[d].with :
       IF Removable(d, a)
       THEN /\ server' = Out(a)
            /\ Goto(d, "took")
            /\ UNCHANGED <<dev, own, took>>
       ELSE /\ LET undo   == run[d].had /\ ~run[d].before
                   pinned == [own EXCEPT ![d].pins[a] = run[d].pin] IN
               /\ dev' = IF undo THEN OwesHere(d, FALSE) ELSE dev
               /\ own' = IF undo THEN OwesThere(pinned, d, FALSE) ELSE pinned
            /\ took' = took \ {<<d, a>>}
            /\ Rest(d)
            /\ UNCHANGED server
  /\ UNCHANGED <<net, knows, older, spent>>

\* The answer does not come.  It may have happened all the same.
TakeUnheard(d) ==
  /\ At(d, "take") /\ Event
  /\ \E a \in run[d].with : \/ Removable(d, a) /\ server' = Out(a)
                            \/ UNCHANGED server
  /\ Rest(d)
  /\ UNCHANGED <<net, dev, own, knows, Ghosts>>

\* Who only waited had no key, unless the server asks for a new one.
Took(d) ==
  /\ At(d, "took")
  /\ IF run[d].had \/ (Active(d) /\ server.needs)
     THEN /\ dev' = OwesHere(d, TRUE)
          /\ own' = OwesThere(own, d, TRUE)
          /\ run' = [run EXCEPT ![d] = [AtRest EXCEPT !.pc = "one", !.goal = "removal"]]
     ELSE Rest(d) /\ UNCHANGED <<dev, own>>
  /\ UNCHANGED <<server, net, knows, Ghosts, spent>>

\* leave: the server first, then what is here.
Leave(d) ==
  /\ At(d, "idle") /\ Active(d) /\ ~LastOwner(d) /\ Event
  /\ server' = Out(d)
  /\ run' = [run EXCEPT ![d].pc = "forget", ![d].with = {a \in Device : server.state[a] # "out"}]
  /\ UNCHANGED <<net, dev, own, knows, Ghosts>>

Forget(d) ==
  /\ At(d, "forget")
  /\ dev' = [dev EXCEPT ![d] = NoSpace]
  /\ own' = [own EXCEPT ![d] = [record |-> NoRotation, owes |-> FALSE,
               pins |-> [a \in Device |-> IF a \in run[d].with THEN "none" ELSE own[d].pins[a]]]]
  /\ Rest(d)
  /\ UNCHANGED <<server, net, knows, Ghosts, spent>>

Edit(d, r) ==
  /\ d \in Writer /\ dev[d].open /\ spent.edits < MaxEdits
  /\ spent' = [spent EXCEPT !.edits = @ + 1]
  /\ dev' = [dev EXCEPT ![d].rows[r] = spent.edits + 1, ![d].dirty = @ \cup {r}]
  /\ UNCHANGED <<server, net, own, run, knows, Ghosts>>

-----------------------------------------------------------------------------
(* Faults.                                                                 *)

\* The program stops and starts again: a space whose key was not sealed again
\* stays shut.
Crash(d) ==
  /\ Event /\ run[d] # AtRest
  /\ run' = [run EXCEPT ![d] = AtRest]
  /\ dev' = [dev EXCEPT ![d].open = dev[d].space /\ dev[d].sealed]
  /\ UNCHANGED <<server, net, own, knows, Ghosts>>

\* The server says nothing of a key being needed.
ServerForgets ==
  /\ Event /\ server.needs
  /\ server' = [server EXCEPT !.needs = FALSE]
  /\ UNCHANGED <<net, dev, own, run, knows, Ghosts>>

-----------------------------------------------------------------------------
\* create leaves a team at epoch 2, whose key comes after no other.  Its first
\* members compared each other's keys; the rest wait, or are
\* not asked yet.
Init ==
  \E first \in SUBSET Device, rest \in {"pending", "out"} :
  /\ Writer \subseteq first
  /\ server = [epoch |-> 2, key |-> 1, earlier |-> <<>>, made |-> 1, needs |-> FALSE, cursor |-> 0,
               holds |-> [r \in Record |-> [version |-> 0, seq |-> 0]],
               state |-> [d \in Device |-> IF d \in first THEN "active" ELSE rest]]
  /\ net = {}
  /\ dev = [d \in Device |-> IF d \in first
              THEN [NoSpace EXCEPT !.space = TRUE, !.open = TRUE, !.sealed = TRUE, !.epoch = 2, !.key = 1]
              ELSE NoSpace]
  /\ own = [d \in Device |->
              [record |-> IF d \in first THEN [epoch |-> 2, key |-> 1] ELSE NoRotation, owes |-> FALSE,
               pins |-> [a \in Device |-> IF {a, d} \subseteq first THEN "confirmed" ELSE "none"]]]
  /\ knows = [d \in Device |-> IF d \in first THEN {1} ELSE {}]
  /\ run = [d \in Device |-> AtRest]
  /\ took = {} /\ older = FALSE
  /\ spent = [events |-> 0, edits |-> 0]

Step(d) ==
  \/ Settle(d) \/ Gone(d) \/ Stop(d) \/ Note(d)
  \/ Push(d) \/ Pull(d) \/ Requeue(d)
  \/ LookAtMembers(d) \/ Ask(d) \/ Answered(d)
  \/ Admit(d) \/ WrapFor(d) \/ Take(d) \/ Took(d) \/ Forget(d)

Asks(d) ==
  \/ Join(d) \/ Leave(d)
  \/ \E a \in Device : Confirm(d, a) \/ Remove(d, a)
  \/ \E r \in Record : Edit(d, r)

Faults(d) == GiveUp(d) \/ TakeUnheard(d) \/ Crash(d)

Next ==
  \/ \E d \in Device : Step(d) \/ Asks(d) \/ Faults(d)
  \/ \E m \in net : Late(m)
  \/ ServerForgets

Spec == Init /\ [][Next]_vars

-----------------------------------------------------------------------------
(* Properties.                                                             *)

\* A device that is at the team's epoch has the team's key, although several
\* managers make a key for one epoch and a rotation may happen long after the
\* device that asked gave up (team_note_rotation, settle).
OneKey == \A d \in Device : dev[d].space =>
            /\ dev[d].epoch <= server.epoch
            /\ dev[d].epoch = server.epoch => dev[d].key = server.key

\* A change of key empties the server.  A record a writing device has and does
\* not mean to send is there, in this or another state (Rekey::Lead,
\* Rekey::Follow and team_requeue), wherever the change was cut off.
NothingIsLost ==
  \A d \in Writer, r \in Record :
    dev[d].space /\ dev[d].epoch = server.epoch /\ ~dev[d].requeue /\ r \notin dev[d].dirty /\ dev[d].rows[r] # 0
      => server.holds[r].version # 0

\* While who was taken out by a member knows the team's key, that member owes
\* the team another, whatever the server says (remove: "holds until the device gave
\* it one").  A rotation from before the removal is left out (`older`), and so is a
\* removal whose member or remover has joined again since (`took`); see the README.
KeyIsOwed ==
  \A d \in Members, a \in Device :
    <<d, a>> \in took /\ server.state[a] = "out" /\ server.key \in knows[a] /\ ~older
      => Owes(d)
=============================================================================
