---------------------------- MODULE SpacesInvariant -------------------------
(***************************************************************************)
(* The inductive invariant of Spaces, for any servers, hosts and bounds,    *)
(* and the first half of the proof that every step keeps it: the steps an   *)
(* operation has left, the registry, a server that is being set up, the     *)
(* change of the main server, and where the hosts are.  SpacesProofs has    *)
(* the second half and what follows.                                        *)
(***************************************************************************)
EXTENDS Spaces, FiniteSetTheorems, NaturalsInduction, TLAPS

------------------------------------------------------------------------------
(* What an operation has left to do                                         *)

Plain == {"Recover", "Clear", "Settle", "EndHandover", "Moved", "Unleave", "Failed", "Done",
          "Open", "Ready"}
Placed == {"Promote", "ClearDoc", "Unstage", "Hold", "TakeRunning", "Leave", "TakeHosts", "TakeKeys",
           "HandOn", "Personal", "StageMain", "Swap", "Unregister", "RemoveFiles", "Retire",
           "Mark", "MakeFile", "Register", "Unmark", "Discard", "Reseal"}
Dropped == {"DropHost", "DropKey", "DropKnown"}
Names == Plain \cup Placed \cup Dropped \cup {"Begin", "Note", "Import", "Stage"}

\* What the journal of a move says.
Entry == {j \in Journal : j.from # j.to /\ j.host[1] = j.target[1]}

\* What goes with a host.
Luggage == [key : {0} \cup Gen, known : BOOLEAN]

StepSet ==
  [do : Plain] \cup [do : Placed, at : Space] \cup [do : Dropped, at : Space, id : Id]
  \cup [do : {"Begin"}, id : Id, from : Space, to : Space]
  \cup [do : {"Note"}, j : Entry] \cup [do : {"Import"}, j : Entry, m : Luggage]
  \cup [do : {"Stage"}, at : Space, main : Space]

\* The order of steps: what is put in front of the others comes first (1 to 11),
\* then the rest of the operation.
Rank(a) ==
  CASE a = "Promote" -> 1 [] a = "ClearDoc" -> 2 [] a = "EndHandover" -> 3 [] a = "Unstage" -> 4
    [] a = "Note" -> 5 [] a = "Import" -> 6 [] a = "DropHost" -> 7 [] a = "DropKey" -> 8
    [] a = "DropKnown" -> 9 [] a = "Clear" -> 10 [] a = "Unleave" -> 11
    [] a = "Hold" -> 20 [] a = "TakeRunning" -> 21 [] a = "Leave" -> 22 [] a = "TakeHosts" -> 23
    [] a = "Recover" -> 24 [] a = "Begin" -> 24 [] a = "Moved" -> 24
    [] a = "TakeKeys" -> 25 [] a = "HandOn" -> 26
    [] a = "Personal" -> 27 [] a = "StageMain" -> 28 [] a = "Stage" -> 29 [] a = "Swap" -> 30
    [] a = "Settle" -> 31 [] a = "Unregister" -> 32 [] a = "RemoveFiles" -> 33 [] a = "Retire" -> 34
    [] a = "Mark" -> 35 [] a = "Register" -> 35 [] a = "Discard" -> 35 [] a = "MakeFile" -> 36
    [] a = "Unmark" -> 37 [] a = "Reseal" -> 38
    [] a = "Failed" -> 39 [] a = "Done" -> 39 [] a = "Ready" -> 39 [] a = "Open" -> 39

Repeated == {"Promote", "Unstage", "TakeRunning", "Recover", "Begin", "Moved"}
Ending   == {"Failed", "Done", "Ready", "Open"}

\* A step named a may have one named b somewhere behind it.
Precedes(a, b) ==
  /\ \/ Rank(a) < Rank(b)
     \/ Rank(a) = Rank(b) /\ a \in Repeated
     \/ a = "Settle" /\ b = "Recover"
  /\ b \notin {"Open", "Register", "Discard", "Note", "Mark"}
  /\ b = "Import" => a = "Note"
  /\ Rank(b) \in 7 .. 10 => Rank(a) \in 5 .. 10
  /\ Rank(b) \in 20 .. 23 => Rank(a) >= 20
  /\ Rank(b) \in 27 .. 31 => a = "TakeRunning" \/ Rank(a) \in 27 .. 31

\* Step y may come right after x.
Follows(x, y) ==
  /\ y.do = "Begin" => x.do \in {"Recover", "Clear"}
  /\ x.do = "Note" => y.do = "Import" /\ y.j = x.j
  /\ x.do = "Import" => y.do = "DropHost"
  /\ x.do = "DropHost" => y.do = "DropKey"
  /\ x.do = "Swap" => y.do = "Settle"
  /\ x.do = "TakeHosts" => y.do = "HandOn"
  /\ x.do = "HandOn" => y.do = "Unregister"
  /\ x.do = "Unleave" => y.do = "Failed"
  /\ x.do = "Mark" => y.do = "MakeFile" /\ y.at = x.at
  /\ x.do \in {"Register", "Discard"} => y.do = "Unmark" /\ y.at = x.at

Ordered(t) ==
  /\ \A m, n \in 1 .. Len(t) : m < n => Precedes(t[m].do, t[n].do)
  /\ \A n \in 1 .. Len(t) : n < Len(t) => Follows(t[n], t[n + 1])

ShapeOf(t) ==
  /\ t \in Seq(StepSet)
  /\ Ordered(t)
  /\ t # <<>> => t[Len(t)].do \in Ending

Shape == ShapeOf(todo)

Elems(t) == {t[n] : n \in 1 .. Len(t)}
Todo     == Elems(todo)

Within(names)   == \E x \in Todo : x.do \in names
Coming(name, s) == \E x \in Todo : x.do = name /\ x.at = s
AtFirst(names)  == todo # <<>> /\ Step.do \in names

------------------------------------------------------------------------------
(* The inductive invariant                                                  *)

StoreSet ==
  [host : [Id -> State], uses : [Id -> {0} \cup Gen], key : [Gen -> State], known : BOOLEAN,
   doc : [val : 0 .. MaxOps, at : Nat], kept : Seal, staged : Seal \cup {"nothing", "forget"}]

Kinds == {"none", "move", "main", "remove", "add", "adopt", "discard"}

Types ==
  /\ TypeOK
  /\ store \in [Space -> StoreSet]
  /\ op \in [kind : Kinds, space : Space \cup {None}, taking : BOOLEAN, moved : BOOLEAN]
  /\ spent \in [ops : Nat, crashes : Nat, errors : Nat]
  /\ now \in Nat \ {0}
  /\ \A s \in Space : store[s].doc.at < now

Starting == {"Open", "Settle", "Promote", "ClearDoc", "EndHandover", "Unstage", "Recover",
             "DropHost", "DropKey", "DropKnown", "Clear", "Ready"}
MoveNames == {"Recover", "Begin", "Note", "Import", "DropHost", "DropKey", "DropKnown", "Clear", "Failed", "Done"}
SwapNames == {"TakeRunning", "Personal", "StageMain", "Stage", "Swap", "Settle", "Promote", "ClearDoc",
              "EndHandover", "Unstage", "Failed", "Done"}
RemoveNames == MoveNames \cup SwapNames \cup
  {"Hold", "Leave", "TakeHosts", "Moved", "TakeKeys", "HandOn", "Unregister", "RemoveFiles", "Retire",
   "Unleave"}

\* The steps of each operation.
Allowed(kind) ==
  CASE kind = "none" -> Starting
    [] kind = "move" -> MoveNames
    [] kind = "main" -> SwapNames
    [] kind = "remove" -> RemoveNames
    [] kind = "add" -> {"Mark", "MakeFile", "Failed", "Done"}
    [] kind = "adopt" -> {"Register", "Unmark", "Reseal", "Discard", "Failed", "Done"}
    [] kind = "discard" -> {"Discard", "Unmark", "Done"}

\* An operation runs only once the program is up, and has its own steps.
KindOK ==
  /\ op.kind = "none" => op = Idle
  /\ op.kind # "none" => op.space \in Space /\ up /\ todo # <<>>
  /\ op.kind = "none" /\ up => todo = <<>>
  /\ ~up => todo # <<>> /\ open = {} /\ pending = None /\ held = {} /\ running = [s \in Space |-> "no"]
  /\ \A x \in Todo : x.do \in Allowed(op.kind)
  /\ op.kind # "remove" => ~op.taking /\ ~op.moved

RegOK(r) ==
  /\ \E x \in Space : r.entries = {r.main, x}
  /\ r.handover # r.main
  /\ r.journal # NoJournal => r.journal \in Entry /\ {r.journal.from, r.journal.to} \subseteq r.entries

\* The registry names at most two servers, and what is in memory is what is on
\* disk or less; a swap whose write tore is not in memory.
Registered ==
  /\ RegOK(mem) /\ RegOK(reg)
  /\ mem.main # reg.main => mem.handover = None /\ spent.errors # 0
  /\ mem.entries \subseteq reg.entries /\ mem.entries \subseteq files
  /\ spent.errors = 0 => reg.entries \subseteq files
  /\ mem.leaving \in {None, reg.leaving}

Unused(s) == store[s].uses = [i \in Id |-> 0] /\ store[s].doc.val = 0

\* A server that is being set up is empty, and not in the registry unless the
\* write that was to put it there tore.
Setup ==
  /\ \A s \in Space \ files : Unused(s)
  /\ pending # None =>
       /\ pending \in files \ mem.entries
       /\ pending \notin reg.entries \/ AtFirst({"Discard"})
       /\ mem.entries = {mem.main}
       /\ Unused(pending)
  /\ \A x \in Todo :
       /\ x.do \in {"Register", "Discard"} => x.at = pending
       /\ x.do \in {"Mark", "MakeFile"} =>
            pending = None /\ mem.entries = {mem.main} /\ x.at \notin files \cup reg.entries

\* The steps of a removal are about its server, which is held and does not sync,
\* and whose hosts all have their move to come.
Removing ==
  op.kind = "remove" =>
  /\ ~Within({"Hold"}) => op.space \in held
  /\ running[op.space] = "op" \/ Within({"TakeRunning"}) \/ (AtFirst({"Failed"}) /\ op.space \in mem.entries)
  /\ Within({"TakeHosts", "Recover", "Begin", "Note", "Import", "DropHost", "DropKey", "DropKnown", "Moved"}) =>
       mem.leaving = op.space \/ Within({"Leave"})
  /\ op.taking /\ ~op.moved => mem.leaving = op.space \/ AtFirst({"Failed"})
  /\ \A x \in Todo :
       /\ x.do \in {"Hold", "TakeRunning", "Leave", "TakeHosts", "TakeKeys", "HandOn", "Unregister",
                    "RemoveFiles", "Retire"} => x.at = op.space
       /\ x.do \in {"Hold", "TakeRunning", "Leave", "TakeHosts", "TakeKeys", "HandOn", "Unregister"} =>
            op.space \in mem.entries /\ mem.entries # {op.space}
       /\ x.do = "Begin" => x.from = op.space
       /\ x.do \in {"Note", "Import"} => x.j.from = op.space
       /\ x.do = "Unleave" => op.taking /\ ~op.moved
       /\ x.do = "Swap" => x.at # op.space
       /\ x.do = "Unregister" =>
            /\ op.taking \/ Within({"Leave"}) => Within({"HandOn"})
            /\ mem.main # op.space \/ Within({"HandOn", "Swap"})
            /\ \A i \in Id : Live(op.space, i) /\ i[1] \notin deleted =>
                 \/ Within({"TakeHosts"})
                 \/ \E y \in Todo : y.do = "Begin" /\ y.id = i
                 \/ \E y \in Todo : y.do = "DropHost" /\ y.id = i /\ y.at = op.space
       /\ x.do = "RemoveFiles" => op.space \notin reg.entries \/ Within({"Unregister"})
       /\ x.do = "RemoveFiles" => op.space # pending

\* A server that hosts have left is noted on disk and held, or it is not in the
\* registry any more.
Leaving ==
  /\ \A e \in left :
       /\ e[1] \in files \ {pending}
       /\ e[1] \notin unnoted =>
            /\ reg.leaving = e[1] \/ e[1] \notin reg.entries
            /\ mem.leaving = e[1] \/ e[1] \notin mem.entries
            /\ running[e[1]] # "going"
            /\ up => e[1] \in held \cup gone \/ (e[1] \notin mem.entries /\ running[e[1]] # "pass")
  /\ HeldWhileLeaving

\* A host nobody deleted is in a store of the registry, and nowhere else.
Copied ==
  /\ \A h \in Host \ deleted : \E s \in mem.entries, g \in Gen : Live(s, <<h, g>>)
  /\ \A s \in Space, i \in Id : Live(s, i) /\ i[1] \notin deleted => s \in mem.entries

Twice(s, i, t, k) == Live(s, i) /\ Live(t, k) /\ i[1] = k[1] /\ i[1] \notin deleted /\ <<s, i>> # <<t, k>>

Pair(s, i, t, k) ==
  /\ mem.journal = reg.journal
  /\ mem.journal = [host |-> i, target |-> k, from |-> s, to |-> t]

\* It is there twice only as the journal says.
OnceOrMoving == \A s, t \in Space, i, k \in Id : Twice(s, i, t, k) => Pair(s, i, t, k) \/ Pair(t, k, s, i)

Once == \A s, t \in Space, i, k \in Id : ~Twice(s, i, t, k)

JournalOK(r) ==
  r.journal # NoJournal /\ r.journal.host[1] \notin deleted =>
    Live(r.journal.from, r.journal.host) \/ Live(r.journal.to, r.journal.target)

\* The host of a journal entry is at one of its ends, and at the first one while
\* the entry is not on disk.
Journaled ==
  /\ JournalOK(mem) /\ JournalOK(reg)
  /\ mem.journal \notin {NoJournal, reg.journal} =>
       store[mem.journal.to].host[mem.journal.target] = "none"

WholeIn(st) ==
  /\ \A i \in Id :
       /\ st.host[i] = "live" => st.known /\ (i[1] \in Keyed => st.uses[i] # 0)
       /\ st.host[i] = "live" /\ st.uses[i] # 0 => st.key[st.uses[i]] = "live"
       /\ st.uses[i] # 0 => st.key[st.uses[i]] # "none"
       /\ st.host[i] = "none" => st.uses[i] = 0

\* A live host has its key and its host key; a row that uses a key has one.
Whole == \A s \in Space : WholeIn(store[s])

\* A key that only hosts that have left used.
Orphan(s, g) ==
  /\ store[s].key[g] = "live"
  /\ \E i \in Id : store[s].uses[i] = g
  /\ \A i \in Id : store[s].uses[i] = g => store[s].host[i] = "dead" /\ i[1] \notin deleted

\* There is one only until the move it comes from is over.
Neat(r) ==
  \A s \in r.entries, g \in Gen : Orphan(s, g) =>
    r.journal # NoJournal /\ r.journal.from = s /\ store[s].uses[r.journal.host] = g

Clean == \A s \in mem.entries, g \in Gen : ~Orphan(s, g)

Fits(j) ==
  /\ {j.from, j.to} \subseteq mem.entries
  /\ store[j.to].host[j.target] = "none"
  /\ j.host[1] \notin deleted => Live(j.from, j.host)

Carries(j, m) ==
  /\ m.known /\ (j.host[1] \in Keyed => m.key # 0)
  /\ m.key # 0 => FreshKeys # {} \/ store[j.to].key[m.key] # "dead"

\* The steps of a move fit the journal and the stores.
MoveOK ==
  /\ \A x \in Todo :
       /\ x.do = "Begin" => {x.from, x.to} \subseteq mem.entries /\ x.from # x.to
       /\ x.do = "Import" => Fits(x.j) /\ Carries(x.j, x.m)
       /\ x.do \in Dropped =>
            LET j == IF AtFirst({"Note"}) THEN Step.j ELSE mem.journal
            IN j # NoJournal /\ x.at = j.from /\ x.id = j.host
  /\ AtFirst({"Begin", "Note"}) => mem.journal = NoJournal
  /\ AtFirst({"Import"}) => mem.journal = Step.j /\ reg.journal = Step.j
  /\ AtFirst({"DropHost"}) =>
       /\ mem.journal = reg.journal
       /\ mem.journal.host[1] \notin deleted => Live(mem.journal.to, mem.journal.target)
  /\ AtFirst({"DropKey", "DropKnown", "Clear"}) => Once
  /\ AtFirst({"DropKnown", "Clear"}) => Clean

\* The steps of a change of the main server are about its two servers.
SwapOK ==
  \A x \in Todo :
    /\ x.do \in {"Personal", "StageMain", "Swap"} => x.at \in mem.entries \ {mem.main}
    /\ x.do = "Stage" => x.at = mem.main /\ x.main \in mem.entries \ {mem.main}
    /\ x.do = "ClearDoc" => x.at = mem.handover
    /\ x.do \in {"Promote", "Unstage"} => x.at \in mem.entries

\* The main store has the key bindings, and no other one has later ones; a server
\* that becomes main has them first.  When they were taken back no store has any.
Docs ==
  /\ doc = 0 => \A s \in reg.entries : store[s].doc.val = 0
  /\ doc \notin {0, None} =>
       \A m \in {mem.main, reg.main} :
         /\ store[m].doc.val = doc
         /\ \A s \in reg.entries : store[s].doc.val \in {0, doc} \/ store[s].doc.at < store[m].doc.at
  /\ \A x \in Todo : x.do = "Swap" =>
       doc \in {0, None} \/ store[x.at].doc.val = doc \/ Within({"Personal"})

Kept(s) == store[s].kept = mem.main

\* While no write failed: a server the main password has opened has its key kept
\* by the main one, or staged for the swap that is not settled yet.
Sealed ==
  spent.errors = 0 =>
  /\ mem.entries = reg.entries /\ mem.handover = reg.handover
  /\ stale # {} => chained = {}
  /\ mem.handover # None =>
       /\ mem.handover \in mem.entries
       /\ AtFirst({"Open", "Settle", "Promote", "ClearDoc", "EndHandover"})
       /\ Within({"Open", "Settle", "EndHandover"})
       /\ up => chained = {} \/ mem.main \in open
  /\ Within({"Promote"}) => mem.handover # None
  /\ chained \subseteq mem.entries
  /\ \A s \in chained \ {mem.main} :
       \/ Kept(s) /\ (mem.handover = None \/ store[s].staged = "nothing")
       \/ /\ mem.handover # None /\ store[s].staged = mem.main
          /\ Within({"Open", "Settle"}) \/ Coming("Promote", s)
  /\ \A x \in Todo : x.do = "Swap" /\ chained # {} =>
       /\ store[mem.main].staged = x.at \/ Within({"Stage"})
       /\ {mem.main, x.at} \subseteq open \/ Within({"Personal"})

Inv ==
  /\ Types /\ Shape /\ KindOK
  /\ Registered /\ Setup /\ Removing /\ Leaving
  /\ Copied /\ OnceOrMoving /\ Journaled /\ Whole /\ Neat(mem) /\ Neat(reg) /\ MoveOK
  /\ SwapOK /\ Docs /\ Sealed

------------------------------------------------------------------------------
(* Lists of steps                                                           *)

\* The table, to be cited instead of the definition.
LEMMA Ranks ==
  /\ Rank("Promote") = 1 /\ Rank("ClearDoc") = 2 /\ Rank("EndHandover") = 3 /\ Rank("Unstage") = 4
  /\ Rank("Note") = 5 /\ Rank("Import") = 6 /\ Rank("DropHost") = 7 /\ Rank("DropKey") = 8
  /\ Rank("DropKnown") = 9 /\ Rank("Clear") = 10 /\ Rank("Unleave") = 11
  /\ Rank("Hold") = 20 /\ Rank("TakeRunning") = 21 /\ Rank("Leave") = 22 /\ Rank("TakeHosts") = 23
  /\ Rank("Recover") = 24 /\ Rank("Begin") = 24 /\ Rank("Moved") = 24
  /\ Rank("TakeKeys") = 25 /\ Rank("HandOn") = 26
  /\ Rank("Personal") = 27 /\ Rank("StageMain") = 28 /\ Rank("Stage") = 29 /\ Rank("Swap") = 30
  /\ Rank("Settle") = 31 /\ Rank("Unregister") = 32 /\ Rank("RemoveFiles") = 33 /\ Rank("Retire") = 34
  /\ Rank("Mark") = 35 /\ Rank("Register") = 35 /\ Rank("Discard") = 35 /\ Rank("MakeFile") = 36
  /\ Rank("Unmark") = 37 /\ Rank("Reseal") = 38
  /\ Rank("Failed") = 39 /\ Rank("Done") = 39 /\ Rank("Ready") = 39 /\ Rank("Open") = 39
BY DEF Rank

\* The fields of a step.
LEMMA StepFields ==
  ASSUME NEW x \in StepSet
  PROVE  /\ x.do \in Names
         /\ x.do \in Placed \cup Dropped \cup {"Stage"} => x.at \in Space
         /\ x.do \in Dropped => x.id \in Id
         /\ x.do = "Begin" => x.id \in Id /\ x.from \in Space /\ x.to \in Space
         /\ x.do = "Note" => x.j \in Entry
         /\ x.do = "Import" => x.j \in Entry /\ x.m \in Luggage
         /\ x.do = "Stage" => x.main \in Space
<1>1. CASE x \in [do : Plain] BY <1>1 DEF Names, Plain, Placed, Dropped
<1>2. CASE x \in [do : Placed, at : Space] BY <1>2 DEF Names, Plain, Placed, Dropped
<1>3. CASE x \in [do : Dropped, at : Space, id : Id] BY <1>3 DEF Names, Plain, Placed, Dropped
<1>4. CASE x \in [do : {"Begin"}, id : Id, from : Space, to : Space] BY <1>4 DEF Names, Placed, Dropped
<1>5. CASE x \in [do : {"Note"}, j : Entry] BY <1>5 DEF Names, Placed, Dropped
<1>6. CASE x \in [do : {"Import"}, j : Entry, m : Luggage] BY <1>6 DEF Names, Placed, Dropped
<1>7. CASE x \in [do : {"Stage"}, at : Space, main : Space] BY <1>7 DEF Names, Placed, Dropped
<1> QED BY <1>1, <1>2, <1>3, <1>4, <1>5, <1>6, <1>7 DEF StepSet

\* The steps made with Do and DoIn.
LEMMA MadeSteps ==
  /\ \A a \in Plain : Do(a) \in StepSet /\ Do(a).do = a
  /\ \A a \in Placed, s \in Space : DoIn(a, s) \in StepSet /\ DoIn(a, s).do = a /\ DoIn(a, s).at = s
  /\ \A a \in Dropped, s \in Space, i \in Id :
       /\ DoHost(a, s, i) \in StepSet /\ DoHost(a, s, i).do = a
       /\ DoHost(a, s, i).at = s /\ DoHost(a, s, i).id = i
<1>1. \A a \in Plain : Do(a) \in [do : Plain] /\ Do(a).do = a BY DEF Do
<1>2. \A a \in Placed, s \in Space : DoIn(a, s) \in [do : Placed, at : Space] /\ DoIn(a, s).do = a /\ DoIn(a, s).at = s
  BY DEF DoIn
<1>3. \A a \in Dropped, s \in Space, i \in Id :
       /\ DoHost(a, s, i) \in [do : Dropped, at : Space, id : Id] /\ DoHost(a, s, i).do = a
       /\ DoHost(a, s, i).at = s /\ DoHost(a, s, i).id = i
  BY DEF DoHost
<1> QED BY <1>1, <1>2, <1>3 DEF StepSet

\* Taking the first step off a list.
LEMMA TailFacts ==
  ASSUME NEW t \in Seq(StepSet), t # <<>>
  PROVE  /\ Tail(t) \in Seq(StepSet) /\ Len(t) \in Nat \ {0} /\ Len(Tail(t)) = Len(t) - 1
         /\ \A n \in 1 .. Len(Tail(t)) : n + 1 \in 1 .. Len(t) /\ Tail(t)[n] = t[n + 1]
         /\ \A n \in 2 .. Len(t) : n - 1 \in 1 .. Len(Tail(t)) /\ Tail(t)[n - 1] = t[n]
OBVIOUS

\* A list without its first step is a list, whose steps come after the first.
LEMMA Pop ==
  ASSUME NEW t, ShapeOf(t), t # <<>>
  PROVE  /\ ShapeOf(Tail(t))
         /\ t[1] \in Elems(t) /\ t[1] \in StepSet /\ Elems(t) \subseteq StepSet
         /\ Elems(Tail(t)) \subseteq Elems(t)
         /\ \A x \in Elems(t) : x = t[1] \/ x \in Elems(Tail(t))
         /\ \A y \in Elems(Tail(t)) : Precedes(t[1].do, y.do)
         /\ Tail(t) # <<>> => Follows(t[1], Tail(t)[1]) /\ Tail(t)[1] \in Elems(Tail(t))
         /\ \A y \in Elems(Tail(t)) : y = Tail(t)[1] \/ Precedes(Tail(t)[1].do, y.do)
         /\ Tail(t) = <<>> => t[1].do \in Ending
<1> DEFINE u == Tail(t)
<1>1. t \in Seq(StepSet) BY DEF ShapeOf
<1>2. /\ u \in Seq(StepSet) /\ Len(t) \in Nat \ {0} /\ Len(u) = Len(t) - 1
      /\ \A n \in 1 .. Len(u) : n + 1 \in 1 .. Len(t) /\ u[n] = t[n + 1]
      /\ \A n \in 2 .. Len(t) : n - 1 \in 1 .. Len(u) /\ u[n - 1] = t[n]
  BY <1>1, TailFacts
<1>e. u = <<>> <=> Len(u) = 0 BY <1>2
<1> HIDE DEF u
<1>3. Ordered(u)
  <2>1. ASSUME NEW m \in 1 .. Len(u), NEW n \in 1 .. Len(u), m < n PROVE Precedes(u[m].do, u[n].do)
    <3>1. m + 1 \in 1 .. Len(t) /\ n + 1 \in 1 .. Len(t) /\ m + 1 < n + 1 BY <1>2, <2>1
    <3>2. Precedes(t[m + 1].do, t[n + 1].do) BY <3>1 DEF ShapeOf, Ordered
    <3> QED BY <1>2, <3>2
  <2>2. ASSUME NEW n \in 1 .. Len(u), n < Len(u) PROVE Follows(u[n], u[n + 1])
    <3>1. n + 1 \in 1 .. Len(t) /\ n + 1 < Len(t) /\ n + 1 \in 1 .. Len(u) BY <1>2, <2>2
    <3>2. Follows(t[n + 1], t[(n + 1) + 1]) BY <3>1 DEF ShapeOf, Ordered
    <3> QED BY <1>2, <3>1, <3>2
  <2> QED BY <2>1, <2>2 DEF Ordered
<1>4. u # <<>> => u[Len(u)].do \in Ending
  <2>1. SUFFICES ASSUME u # <<>> PROVE u[Len(u)].do \in Ending OBVIOUS
  <2>2. Len(u) \in 1 .. Len(u) BY <2>1, <1>2, <1>e
  <2>3. u[Len(u)] = t[Len(t)] BY <2>2, <1>2
  <2> QED BY <2>3, <1>2, <1>e DEF ShapeOf
<1>5. ShapeOf(u) BY <1>2, <1>3, <1>4 DEF ShapeOf
<1>6. 1 \in 1 .. Len(t) /\ t[1] \in Elems(t) /\ t[1] \in StepSet /\ Elems(t) \subseteq StepSet
  BY <1>1, <1>2 DEF Elems
<1>7. \A y \in Elems(u) : y \in Elems(t) /\ Precedes(t[1].do, y.do)
  <2>1. SUFFICES ASSUME NEW n \in 1 .. Len(u) PROVE u[n] \in Elems(t) /\ Precedes(t[1].do, u[n].do) BY DEF Elems
  <2>2. n + 1 \in 1 .. Len(t) /\ 1 < n + 1 /\ u[n] = t[n + 1] BY <1>2
  <2> QED BY <2>2, <1>6 DEF Elems, ShapeOf, Ordered
<1>8. \A x \in Elems(t) : x = t[1] \/ x \in Elems(u)
  <2>1. SUFFICES ASSUME NEW n \in 1 .. Len(t) PROVE t[n] = t[1] \/ t[n] \in Elems(u) BY DEF Elems
  <2>2. CASE n # 1
    <3>1. n \in 2 .. Len(t) BY <2>2, <1>2
    <3> QED BY <3>1, <1>2 DEF Elems
  <2> QED BY <2>2
<1>9. u # <<>> => Follows(t[1], u[1]) /\ u[1] \in Elems(u)
  <2>1. SUFFICES ASSUME u # <<>> PROVE Follows(t[1], u[1]) /\ u[1] \in Elems(u) OBVIOUS
  <2>2. 1 \in 1 .. Len(u) /\ u[1] = t[1 + 1] /\ 1 < Len(t) BY <2>1, <1>2, <1>e
  <2> QED BY <2>2, <1>6 DEF Elems, ShapeOf, Ordered
<1>10. u = <<>> => t[1].do \in Ending
  <2>1. SUFFICES ASSUME u = <<>> PROVE t[1].do \in Ending OBVIOUS
  <2>2. Len(t) = 1 BY <2>1, <1>2, <1>e
  <2> QED BY <2>2 DEF ShapeOf
<1>11. \A y \in Elems(u) : y = u[1] \/ Precedes(u[1].do, y.do)
  <2>1. SUFFICES ASSUME NEW n \in 1 .. Len(u), n # 1 PROVE Precedes(u[1].do, u[n].do) BY DEF Elems
  <2>2. 1 \in 1 .. Len(u) /\ 1 < n BY <2>1, <1>2
  <2> QED BY <2>2, <1>3 DEF Ordered
<1> QED BY <1>5, <1>6, <1>7, <1>8, <1>9, <1>10, <1>11 DEF u

\* Two lists put together.
LEMMA Join ==
  ASSUME NEW a \in Seq(StepSet), NEW b \in Seq(StepSet), Ordered(a), Ordered(b),
         \A x \in Elems(a), y \in Elems(b) : Precedes(x.do, y.do),
         a # <<>> /\ b # <<>> => Follows(a[Len(a)], b[1])
  PROVE  /\ a \o b \in Seq(StepSet) /\ Ordered(a \o b)
         /\ Elems(a \o b) = Elems(a) \cup Elems(b)
         /\ a # <<>> => a \o b # <<>> /\ (a \o b)[1] = a[1]
         /\ a = <<>> => a \o b = b
         /\ b = <<>> => a \o b = a
         /\ b # <<>> => a \o b # <<>> /\ (a \o b)[Len(a \o b)] = b[Len(b)]
<1> DEFINE c == a \o b
<1>1. /\ c \in Seq(StepSet) /\ Len(a) \in Nat /\ Len(b) \in Nat /\ Len(c) = Len(a) + Len(b)
      /\ \A n \in 1 .. Len(c) : c[n] = IF n <= Len(a) THEN a[n] ELSE b[n - Len(a)]
  OBVIOUS
<1>e. (a = <<>> <=> Len(a) = 0) /\ (b = <<>> <=> Len(b) = 0) /\ (c = <<>> <=> Len(c) = 0) BY <1>1
<1>m. (a = <<>> => c = b) /\ (b = <<>> => c = a) OBVIOUS
<1> HIDE DEF c
<1>2. /\ \A n \in 1 .. Len(a) : n \in 1 .. Len(c) /\ c[n] = a[n]
      /\ \A n \in 1 .. Len(b) : n + Len(a) \in 1 .. Len(c) /\ c[n + Len(a)] = b[n]
  <2>1. \A n \in 1 .. Len(a) : n \in 1 .. Len(c) /\ c[n] = a[n] BY <1>1
  <2>2. ASSUME NEW n \in 1 .. Len(b) PROVE n + Len(a) \in 1 .. Len(c) /\ c[n + Len(a)] = b[n]
    <3>1. n + Len(a) \in 1 .. Len(c) /\ ~(n + Len(a) <= Len(a)) /\ (n + Len(a)) - Len(a) = n BY <1>1
    <3> QED BY <1>1, <3>1
  <2> QED BY <2>1, <2>2
<1>3. ASSUME NEW m \in 1 .. Len(c), NEW n \in 1 .. Len(c), m < n PROVE Precedes(c[m].do, c[n].do)
  <2>1. CASE n <= Len(a)
    <3>1. m \in 1 .. Len(a) /\ n \in 1 .. Len(a) BY <1>1, <1>3, <2>1
    <3> QED BY <3>1, <1>2, <1>3 DEF Ordered
  <2>2. CASE m > Len(a)
    <3>1. m - Len(a) \in 1 .. Len(b) /\ n - Len(a) \in 1 .. Len(b) /\ m - Len(a) < n - Len(a)
      BY <1>1, <1>3, <2>2
    <3>2. Precedes(b[m - Len(a)].do, b[n - Len(a)].do) BY <3>1 DEF Ordered
    <3>3. c[m] = b[m - Len(a)] /\ c[n] = b[n - Len(a)] BY <1>1, <1>3, <2>2
    <3> QED BY <3>2, <3>3
  <2>3. CASE m <= Len(a) /\ n > Len(a)
    <3>1. m \in 1 .. Len(a) /\ n - Len(a) \in 1 .. Len(b) /\ c[m] = a[m] /\ c[n] = b[n - Len(a)]
      BY <1>1, <2>3
    <3>2. c[m] \in Elems(a) /\ c[n] \in Elems(b) BY <3>1 DEF Elems
    <3> QED BY <3>2
  <2> QED BY <2>1, <2>2, <2>3, <1>1
<1>4. ASSUME NEW n \in 1 .. Len(c), n < Len(c) PROVE Follows(c[n], c[n + 1])
  <2>1. CASE n < Len(a)
    <3>1. n \in 1 .. Len(a) /\ n + 1 \in 1 .. Len(a) BY <1>1, <1>4, <2>1
    <3> QED BY <3>1, <1>2, <2>1 DEF Ordered
  <2>2. CASE n > Len(a)
    <3>1. n - Len(a) \in 1 .. Len(b) /\ n - Len(a) < Len(b) BY <1>1, <1>4, <2>2
    <3>2. Follows(b[n - Len(a)], b[(n - Len(a)) + 1]) BY <3>1 DEF Ordered
    <3>3. c[n] = b[n - Len(a)] /\ c[n + 1] = b[(n - Len(a)) + 1] BY <1>1, <1>4, <2>2
    <3> QED BY <3>2, <3>3
  <2>3. CASE n = Len(a)
    <3>1. c[n] = a[Len(a)] /\ c[n + 1] = b[1] BY <1>1, <1>4, <2>3
    <3> QED BY <3>1, <2>3, <1>1, <1>4, <1>e
  <2> QED BY <2>1, <2>2, <2>3, <1>1
<1>5. Ordered(c) BY <1>3, <1>4 DEF Ordered
<1>6. Elems(c) = Elems(a) \cup Elems(b)
  <2>1. \A n \in 1 .. Len(c) : c[n] \in Elems(a) \cup Elems(b)
    <3>1. SUFFICES ASSUME NEW n \in 1 .. Len(c) PROVE c[n] \in Elems(a) \cup Elems(b) OBVIOUS
    <3>2. (n \in 1 .. Len(a) /\ c[n] = a[n]) \/ (n - Len(a) \in 1 .. Len(b) /\ c[n] = b[n - Len(a)]) BY <1>1
    <3> QED BY <3>2 DEF Elems
  <2>2. \A n \in 1 .. Len(a) : a[n] \in Elems(c) BY <1>2 DEF Elems
  <2>3. \A n \in 1 .. Len(b) : b[n] \in Elems(c) BY <1>2 DEF Elems
  <2> QED BY <2>1, <2>2, <2>3 DEF Elems
<1>7. a # <<>> => c # <<>> /\ c[1] = a[1] BY <1>1, <1>e
<1>8. b # <<>> => c # <<>> /\ c[Len(c)] = b[Len(b)] BY <1>1, <1>e
<1> QED BY <1>1, <1>5, <1>6, <1>7, <1>8, <1>m DEF c

\* A list of one step.
LEMMA One ==
  ASSUME NEW x \in StepSet
  PROVE  /\ <<x>> \in Seq(StepSet) /\ Ordered(<<x>>) /\ Elems(<<x>>) = {x}
         /\ <<x>> # <<>> /\ <<x>>[1] = x /\ Len(<<x>>) = 1
<1>1. <<x>> \in Seq(StepSet) /\ <<x>> # <<>> /\ <<x>>[1] = x /\ Len(<<x>>) = 1 OBVIOUS
<1>2. 1 .. 1 = {1} OBVIOUS
<1> QED BY <1>1, <1>2 DEF Ordered, Elems

\* Every element of a finite set is in its list.
LEMMA SetListed ==
  ASSUME NEW S, IsFiniteSet(S)
  PROVE  /\ SetToSeq(S) \in Seq(S)
         /\ Len(SetToSeq(S)) = Cardinality(S)
         /\ \A x \in S : \E n \in 1 .. Len(SetToSeq(S)) : SetToSeq(S)[n] = x
<1> DEFINE N == Cardinality(S)
           f == SetToSeq(S)
<1>1. N \in Nat /\ ExistsBijection(1 .. N, S) BY FS_CardinalityType
<1>2. PICK g \in [1 .. N -> S] : IsInjective(g)
  BY <1>1 DEF ExistsBijection, Bijection, Injection, IsInjective
<1>3. f \in [1 .. N -> S] /\ IsInjective(f) BY <1>2 DEF SetToSeq, IsInjective
<1>4. f \in Injection(1 .. N, S) BY <1>3 DEF Injection, IsInjective
<1>5. IsFiniteSet(1 .. N) /\ Cardinality(1 .. N) = N BY <1>1, FS_Interval
<1> HIDE DEF f, N
<1>6. f \in Surjection(1 .. N, S) BY <1>4, <1>5, FS_Injection DEF N
<1>7. \A x \in S : \E n \in 1 .. N : f[n] = x BY <1>6 DEF Surjection
<1>8. f \in Seq(S) /\ Len(f) = N BY <1>1, <1>3
<1> QED BY <1>7, <1>8 DEF f, N

\* The registry has one server or two.
LEMMA EntriesOf ==
  ASSUME NEW r, r \in Registry, RegOK(r)
  PROVE  /\ IsFiniteSet(r.entries) /\ r.main \in r.entries /\ r.entries \subseteq Space /\ r.main \in Space
         /\ \A s \in r.entries, t \in r.entries : s # r.main /\ t # r.main => s = t
<1>1. PICK x \in Space : r.entries = {r.main, x} BY DEF RegOK
<1>2. IsFiniteSet({r.main}) BY FS_Singleton
<1>3. IsFiniteSet({r.main} \cup {x}) BY <1>2, FS_AddElement
<1>4. r.entries = {r.main} \cup {x} BY <1>1
<1> QED BY <1>1, <1>3, <1>4 DEF Registry

\* One step for each server of a set.
LEMMA EachStep ==
  ASSUME NEW S \in SUBSET Space, IsFiniteSet(S), S # {}, NEW name \in {"Promote", "Unstage"}
  PROVE  /\ Each(name, S) \in Seq(StepSet) /\ Ordered(Each(name, S)) /\ Each(name, S) # <<>>
         /\ \A x \in Elems(Each(name, S)) : x \in StepSet /\ x.do = name /\ x.at \in S
         /\ \A s \in S : \E x \in Elems(Each(name, S)) : x.at = s
         /\ Each(name, S)[1].do = name
         /\ Each(name, S)[Len(Each(name, S))].do = name
<1> DEFINE f == SetToSeq(S)
           t == Each(name, S)
<1>1. f \in Seq(S) /\ \A x \in S : \E n \in 1 .. Len(f) : f[n] = x BY SetListed
<1>2. DOMAIN f = 1 .. Len(f) /\ Len(f) \in Nat /\ \A n \in 1 .. Len(f) : f[n] \in S BY <1>1
<1>3. t = [n \in 1 .. Len(f) |-> DoIn(name, f[n])] BY <1>2 DEF Each
<1> HIDE DEF f
<1>4. name \in Placed BY DEF Placed
<1>5. \A n \in 1 .. Len(f) : DoIn(name, f[n]) \in StepSet /\ DoIn(name, f[n]).do = name /\ DoIn(name, f[n]).at = f[n]
  BY <1>2, <1>4, MadeSteps
<1>6. t \in Seq(StepSet) /\ Len(t) = Len(f) /\ \A n \in 1 .. Len(f) : t[n] = DoIn(name, f[n])
  BY <1>2, <1>3, <1>5
<1> HIDE DEF t
<1>7. Len(f) # 0 BY <1>1, <1>2
<1>8. t # <<>> BY <1>6, <1>7
<1>9. Precedes(name, name) BY Ranks DEF Precedes, Repeated
<1>10. \A m, n \in 1 .. Len(t) : m < n => Precedes(t[m].do, t[n].do) BY <1>5, <1>6, <1>9
<1>11. \A n \in 1 .. Len(t) : n < Len(t) => Follows(t[n], t[n + 1])
  <2>1. SUFFICES ASSUME NEW n \in 1 .. Len(t), n < Len(t) PROVE Follows(t[n], t[n + 1]) OBVIOUS
  <2>2. n + 1 \in 1 .. Len(t) BY <2>1, <1>2, <1>6
  <2>3. t[n].do = name /\ t[n + 1].do = name BY <2>2, <1>5, <1>6
  <2> QED BY <2>3 DEF Follows
<1>12. \A x \in Elems(t) : x \in StepSet /\ x.do = name /\ x.at \in S BY <1>2, <1>5, <1>6 DEF Elems
<1>13. \A s \in S : \E x \in Elems(t) : x.at = s
  <2>1. SUFFICES ASSUME NEW s \in S PROVE \E x \in Elems(t) : x.at = s OBVIOUS
  <2>2. PICK n \in 1 .. Len(f) : f[n] = s BY <1>1
  <2>3. t[n] \in Elems(t) /\ t[n].at = s BY <2>2, <1>5, <1>6 DEF Elems
  <2> QED BY <2>3
<1>14. 1 \in 1 .. Len(f) /\ Len(t) \in 1 .. Len(f) BY <1>2, <1>6, <1>7
<1>15. t[1].do = name /\ t[Len(t)].do = name BY <1>5, <1>6, <1>14
<1> QED BY <1>6, <1>8, <1>10, <1>11, <1>12, <1>13, <1>15 DEF Ordered, t

\* The least of some numbers is one of them.
LEMMA LeastIn ==
  ASSUME NEW S \in SUBSET Nat, S # {}
  PROVE  Least(S) \in S
<1>1. \E g \in S : \A k \in S : ~(<<k, g>> \in OpToRel(<, Nat)) BY NatLessThanWellFounded, WFMin, Zenon
<1>2. PICK g \in S : \A k \in S : ~(<<k, g>> \in OpToRel(<, Nat)) BY <1>1
<1>3. \A k \in S : ~(k < g) BY <1>2 DEF OpToRel
<1>4. \A k \in S : g <= k BY <1>3
<1> QED BY <1>2, <1>4 DEF Least

\* Lists of two, three and four steps.
LEMMA Two ==
  ASSUME NEW a \in StepSet, NEW b \in StepSet, Precedes(a.do, b.do), Follows(a, b)
  PROVE  /\ <<a, b>> \in Seq(StepSet) /\ Ordered(<<a, b>>) /\ Elems(<<a, b>>) = {a, b}
         /\ <<a, b>> # <<>> /\ <<a, b>>[1] = a /\ <<a, b>>[Len(<<a, b>>)] = b
<1> DEFINE t == <<a, b>>
<1>1. t \in Seq(StepSet) /\ t # <<>> /\ Len(t) = 2 /\ t[1] = a /\ t[2] = b OBVIOUS
<1>2. 1 .. 2 = {1, 2} OBVIOUS
<1> HIDE DEF t
<1>3. Elems(t) = {a, b} BY <1>1, <1>2 DEF Elems
<1>4. Ordered(t) BY <1>1, <1>2 DEF Ordered
<1> QED BY <1>1, <1>3, <1>4 DEF t

\* A list of three steps.
LEMMA Three ==
  ASSUME NEW a \in StepSet, NEW b \in StepSet, NEW c \in StepSet,
         Precedes(a.do, b.do), Precedes(a.do, c.do), Precedes(b.do, c.do), Follows(a, b), Follows(b, c)
  PROVE  /\ <<a, b, c>> \in Seq(StepSet) /\ Ordered(<<a, b, c>>) /\ Elems(<<a, b, c>>) = {a, b, c}
         /\ <<a, b, c>> # <<>> /\ <<a, b, c>>[1] = a /\ <<a, b, c>>[Len(<<a, b, c>>)] = c
<1> DEFINE t == <<a, b, c>>
<1>1. t \in Seq(StepSet) /\ t # <<>> /\ Len(t) = 3 /\ t[1] = a /\ t[2] = b /\ t[3] = c OBVIOUS
<1>2. 1 .. 3 = {1, 2, 3} OBVIOUS
<1> HIDE DEF t
<1>3. Elems(t) = {a, b, c} BY <1>1, <1>2 DEF Elems
<1>4. Ordered(t) BY <1>1, <1>2 DEF Ordered
<1> QED BY <1>1, <1>3, <1>4 DEF t

\* Four steps that may come in this order.
FourSteps(a, b, c, d) ==
  /\ {a, b, c, d} \subseteq StepSet
  /\ Precedes(a.do, b.do) /\ Precedes(a.do, c.do) /\ Precedes(a.do, d.do)
  /\ Precedes(b.do, c.do) /\ Precedes(b.do, d.do) /\ Precedes(c.do, d.do)
  /\ Follows(a, b) /\ Follows(b, c) /\ Follows(c, d)

\* A list of four steps.
LEMMA Four ==
  ASSUME NEW a, NEW b, NEW c, NEW d, FourSteps(a, b, c, d)
  PROVE  /\ <<a, b, c, d>> \in Seq(StepSet) /\ Ordered(<<a, b, c, d>>)
         /\ Elems(<<a, b, c, d>>) = {a, b, c, d}
         /\ <<a, b, c, d>> # <<>> /\ <<a, b, c, d>>[1] = a
         /\ <<a, b, c, d>>[Len(<<a, b, c, d>>)] = d
<1> DEFINE t == <<a, b, c, d>>
<1>1. /\ t \in Seq(StepSet) /\ t # <<>> /\ Len(t) = 4
      /\ t[1] = a /\ t[2] = b /\ t[3] = c /\ t[4] = d
  BY DEF FourSteps
<1>2. 1 .. 4 = {1, 2, 3, 4} OBVIOUS
<1> HIDE DEF t
<1>3. Elems(t) = {a, b, c, d} BY <1>1, <1>2 DEF Elems
<1>4. Ordered(t)
  <2>1. \A m, n \in 1 .. 4 : m < n => Precedes(t[m].do, t[n].do) BY <1>1, <1>2 DEF FourSteps
  <2>2. \A n \in 1 .. 4 : n < 4 => Follows(t[n], t[n + 1]) BY <1>1, <1>2 DEF FourSteps
  <2> QED BY <1>1, <2>1, <2>2 DEF Ordered
<1> QED BY <1>1, <1>3, <1>4 DEF t

------------------------------------------------------------------------------
(* How a step changes the list                                              *)

\* The first step is done.
Popped ==
  /\ todo # <<>> /\ Step \in Todo /\ Todo \subseteq StepSet /\ Todo' \subseteq StepSet
  /\ \A y \in Todo' : y \in Todo /\ Precedes(Step.do, y.do)
  /\ \A x \in Todo : x = Step \/ x \in Todo'
  /\ todo' # <<>> => Follows(Step, Step') /\ Step' \in Todo'
  /\ todo' = <<>> => Step.do \in Ending

\* It is done, and the steps in M, of which f is the first, come instead.
Spliced(M, f) ==
  /\ todo # <<>> /\ Step \in Todo /\ Todo \subseteq StepSet /\ Todo' \subseteq StepSet
  /\ \A y \in Todo' : y \in M \/ (y \in Todo /\ Precedes(Step.do, y.do))
  /\ \A x \in Todo : x = Step \/ x \in Todo'
  /\ M \subseteq Todo'
  /\ todo' # <<>> /\ Step' = f /\ f \in M

\* The steps in M, of which f is the first, come instead of all of them.
Fresh(M, f) ==
  /\ Todo' = M /\ M \subseteq StepSet
  /\ todo' # <<>> /\ Step' = f /\ f \in M

\* A step that is done leaves the rest of the list.
LEMMA PopStep ==
  ASSUME Shape, todo # <<>>, Then(<<>>)
  PROVE  Shape' /\ Popped
<1>1. Tail(todo) \in Seq(StepSet) /\ todo' = <<>> \o Tail(todo) BY TailFacts DEF Shape, ShapeOf, Then
<1>2. todo' = Tail(todo) BY <1>1
<1>3. Shape' BY <1>2, Pop DEF Shape
<1>4. todo' # <<>> => Step' \in Todo' BY <1>2, Pop DEF Shape, Todo, Step
<1>5. Todo' \subseteq StepSet
  <2>1. todo' \in Seq(StepSet) BY <1>1, <1>2
  <2> QED BY <2>1 DEF Todo, Elems
<1> QED BY <1>2, <1>3, <1>4, <1>5, Pop DEF Shape, Popped, Todo, Step

\* Steps put in front of the rest.
LEMMA SpliceBefore ==
  ASSUME Shape, todo # <<>>, Step.do \notin Ending,
         NEW more \in Seq(StepSet), Ordered(more), more # <<>>, Then(more),
         \A x \in Elems(more), y, z \in Todo :
           /\ Follows(Step, z) /\ Precedes(Step.do, z.do) /\ Precedes(Step.do, y.do)
           /\ y = z \/ Precedes(z.do, y.do)
           => Precedes(x.do, y.do),
         \A y \in Todo : Follows(Step, y) /\ Precedes(Step.do, y.do) => Follows(more[Len(more)], y)
  PROVE  Shape' /\ Spliced(Elems(more), more[1])
<1> DEFINE u == Tail(todo)
<1>1. /\ ShapeOf(u) /\ todo[1] \in Elems(todo) /\ Elems(todo) \subseteq StepSet
      /\ Elems(u) \subseteq Elems(todo)
      /\ \A x \in Elems(todo) : x = todo[1] \/ x \in Elems(u)
      /\ \A y \in Elems(u) : Precedes(todo[1].do, y.do)
      /\ u # <<>> /\ Follows(todo[1], u[1]) /\ u[1] \in Elems(u)
      /\ \A y \in Elems(u) : y = u[1] \/ Precedes(u[1].do, y.do)
  BY Pop DEF Shape, Step
<1>2. todo' = more \o u BY DEF Then
<1>3. u \in Seq(StepSet) /\ Ordered(u) /\ u[Len(u)].do \in Ending BY <1>1 DEF ShapeOf
<1> HIDE DEF u
<1>4. \A x \in Elems(more), y \in Elems(u) : Precedes(x.do, y.do) BY <1>1 DEF Todo, Step
<1>5. Follows(more[Len(more)], u[1]) BY <1>1 DEF Todo, Step
<1>6. /\ more \o u \in Seq(StepSet) /\ Ordered(more \o u)
      /\ Elems(more \o u) = Elems(more) \cup Elems(u)
      /\ more \o u # <<>> /\ (more \o u)[1] = more[1]
      /\ (more \o u)[Len(more \o u)] = u[Len(u)]
  BY <1>1, <1>3, <1>4, <1>5, Join
<1>7. Shape' BY <1>2, <1>3, <1>6 DEF Shape, ShapeOf
<1>8. Todo' = Elems(more) \cup Elems(u) /\ Step' = more[1] /\ todo' # <<>> BY <1>2, <1>6 DEF Todo, Step
<1>9. Todo' \subseteq StepSet
  <2>1. todo' \in Seq(StepSet) BY <1>2, <1>6
  <2> QED BY <2>1 DEF Todo, Elems
<1>10. more[1] \in Elems(more)
  <2>1. 1 \in 1 .. Len(more) OBVIOUS
  <2> QED BY <2>1 DEF Elems
<1> QED BY <1>1, <1>7, <1>8, <1>9, <1>10 DEF Spliced, Todo, Step

\* A step that puts others in its place leaves a list when they come before the rest.
LEMMA SpliceStep ==
  ASSUME Shape, todo # <<>>, Step.do \notin Ending,
         NEW more \in Seq(StepSet), Ordered(more), more # <<>>, Then(more),
         \A x \in Elems(more), y \in Todo : Precedes(Step.do, y.do) => Precedes(x.do, y.do),
         \A y \in Todo : Follows(Step, y) /\ Precedes(Step.do, y.do) => Follows(more[Len(more)], y)
  PROVE  Shape' /\ Spliced(Elems(more), more[1])
BY SpliceBefore

\* A new list.
LEMMA FreshStep ==
  ASSUME NEW t \in Seq(StepSet), Ordered(t), t # <<>>, t[Len(t)].do \in Ending, todo' = t
  PROVE  Shape' /\ Fresh(Elems(t), t[1])
<1>1. Shape' BY DEF Shape, ShapeOf
<1>2. Todo' = Elems(t) /\ Step' = t[1] BY DEF Todo, Step
<1>3. Elems(t) \subseteq StepSet BY DEF Elems
<1>4. t[1] \in Elems(t)
  <2>1. 1 \in 1 .. Len(t) OBVIOUS
  <2> QED BY <2>1 DEF Elems
<1> QED BY <1>1, <1>2, <1>3, <1>4 DEF Fresh

\* A rank is a number.
LEMMA RankNat == \A a \in Names : Rank(a) \in 1 .. 39
BY Ranks DEF Names, Plain, Placed, Dropped

\* What may come behind a step may come behind those put in its place.
LEMMA Inherit ==
  ASSUME NEW b \in Names
  PROVE  /\ \A a \in {"Recover", "Begin"}, c \in {"Note", "Import", "DropHost", "DropKey", "DropKnown", "Clear"} :
              Precedes(a, b) => Precedes(c, b)
         /\ \A c \in {"Promote", "ClearDoc", "EndHandover", "Unstage"} : Precedes("Settle", b) => Precedes(c, b)
<1>1. Rank(b) \in 1 .. 39 BY RankNat
<1> QED BY <1>1, Ranks DEF Precedes, Repeated

\* Only the next step follows a step in a way that is fixed.
LEMMA FollowsFree ==
  ASSUME NEW x, NEW y, y.do # "Begin",
         x.do \notin {"Note", "Import", "DropHost", "Swap", "TakeHosts", "HandOn", "Unleave", "Mark",
                      "Register", "Discard"}
  PROVE  Follows(x, y)
BY DEF Follows

Drops(s, i) == {DoHost("DropHost", s, i), DoHost("DropKey", s, i), DoHost("DropKnown", s, i)}

\* What drop_moved_host and the note behind it leave to do.
LEMMA DroppingList ==
  ASSUME NEW s \in Space, NEW i \in Id
  PROVE  /\ Dropping(s, i) \o <<Do("Clear")>> \in Seq(StepSet) /\ Ordered(Dropping(s, i) \o <<Do("Clear")>>)
         /\ Elems(Dropping(s, i) \o <<Do("Clear")>>) = Drops(s, i) \cup {Do("Clear")}
         /\ Dropping(s, i) \o <<Do("Clear")>> # <<>>
         /\ (Dropping(s, i) \o <<Do("Clear")>>)[1] = DoHost("DropHost", s, i)
         /\ (Dropping(s, i) \o <<Do("Clear")>>)[Len(Dropping(s, i) \o <<Do("Clear")>>)] = Do("Clear")
         /\ Dropping(s, i) \in Seq(StepSet) /\ Ordered(Dropping(s, i))
         /\ Elems(Dropping(s, i)) = Drops(s, i) /\ Dropping(s, i) # <<>>
         /\ Dropping(s, i)[1] = DoHost("DropHost", s, i)
         /\ Dropping(s, i)[Len(Dropping(s, i))] = DoHost("DropKnown", s, i)
<1> DEFINE a == DoHost("DropHost", s, i)
           b == DoHost("DropKey", s, i)
           c == DoHost("DropKnown", s, i)
           d == Do("Clear")
           t == Dropping(s, i)
<1>1. /\ a \in StepSet /\ b \in StepSet /\ c \in StepSet /\ d \in StepSet
      /\ a.do = "DropHost" /\ b.do = "DropKey" /\ c.do = "DropKnown" /\ d.do = "Clear"
  BY MadeSteps DEF Dropped, Plain
<1>2. t = <<a, b, c>> BY DEF Dropping
<1> HIDE DEF a, b, c, d, t
<1>3. /\ Precedes(a.do, b.do) /\ Precedes(a.do, c.do) /\ Precedes(b.do, c.do)
      /\ Precedes(a.do, d.do) /\ Precedes(b.do, d.do) /\ Precedes(c.do, d.do)
  BY <1>1, Ranks DEF Precedes
<1>4. Follows(a, b) /\ Follows(b, c) /\ Follows(c, d) BY <1>1 DEF Follows
<1>5. t \in Seq(StepSet) /\ Ordered(t) /\ Elems(t) = {a, b, c} /\ t # <<>> /\ t[1] = a /\ t[Len(t)] = c
  BY <1>1, <1>2, <1>3, <1>4, Three
<1>6. /\ <<d>> \in Seq(StepSet) /\ Ordered(<<d>>) /\ Elems(<<d>>) = {d}
      /\ <<d>> # <<>> /\ <<d>>[1] = d /\ <<d>>[Len(<<d>>)] = d
  BY <1>1, One
<1>7. \A x \in Elems(t), y \in Elems(<<d>>) : Precedes(x.do, y.do) BY <1>3, <1>5, <1>6
<1>8. Follows(t[Len(t)], <<d>>[1]) BY <1>4, <1>5, <1>6
<1>9. /\ t \o <<d>> \in Seq(StepSet) /\ Ordered(t \o <<d>>) /\ Elems(t \o <<d>>) = Elems(t) \cup Elems(<<d>>)
      /\ t \o <<d>> # <<>> /\ (t \o <<d>>)[1] = t[1]
      /\ (t \o <<d>>)[Len(t \o <<d>>)] = <<d>>[Len(<<d>>)]
  BY <1>5, <1>6, <1>7, <1>8, Join
<1>10. Elems(t) = Drops(s, i) BY <1>5 DEF Drops, a, b, c
<1>11. Elems(t \o <<d>>) = Drops(s, i) \cup {d} BY <1>6, <1>9, <1>10
<1> QED BY <1>5, <1>6, <1>9, <1>10, <1>11 DEF a, b, c, d, t

\* What recover leaves to do.
LEMMA RecoverList ==
  ASSUME mem \in Registry, RegOK(mem), Shape, Recover
  PROVE  /\ Shape'
         /\ mem.journal = NoJournal => Popped
         /\ mem.journal # NoJournal /\ ~Arrived(mem.journal) => Spliced({Do("Clear")}, Do("Clear"))
         /\ mem.journal # NoJournal /\ Arrived(mem.journal) =>
              LET j == mem.journal
              IN Spliced(Drops(j.from, j.host) \cup {Do("Clear")}, DoHost("DropHost", j.from, j.host))
<1> DEFINE j == mem.journal
<1>1. todo # <<>> /\ Step.do = "Recover" /\ "Recover" \notin Ending BY DEF Recover, Doing, Step, Ending
<1>c. Do("Clear") \in StepSet /\ Do("Clear").do = "Clear" BY MadeSteps DEF Plain
<1>2. Todo \subseteq StepSet BY <1>1, Pop DEF Shape, Todo
<1>3. \A y \in Todo : y.do \in Names BY <1>2, StepFields
<1>4. CASE j = NoJournal
  <2>1. Then(<<>>) BY <1>4 DEF Recover
  <2> QED BY <1>1, <1>4, <2>1, PopStep DEF j
<1>5. CASE j # NoJournal
  <2>1. j \in Entry /\ j.from \in mem.entries /\ j.from \in Space /\ j.host \in Id
    BY <1>5 DEF RegOK, Entry, Journal
  <2>2. Then(Recovery(j)) BY <1>5 DEF Recover
  <2>3. CASE ~Arrived(j)
    <3> DEFINE more == <<Do("Clear")>>
    <3>1. Recovery(j) = <<>> \o <<Do("Clear")>> BY <2>3 DEF Recovery
    <3>2. more \in Seq(StepSet) /\ Ordered(more) /\ Elems(more) = {Do("Clear")} /\ more # <<>>
          /\ more[1] = Do("Clear") /\ more[Len(more)] = Do("Clear")
      BY <1>c, One
    <3>3. Recovery(j) = more BY <3>1, <3>2
    <3> HIDE DEF more
    <3>4. \A x \in Elems(more), y \in Todo : Precedes(Step.do, y.do) => Precedes(x.do, y.do)
      BY <1>1, <1>3, <1>c, <3>2, Inherit
    <3>5. \A y \in Todo : Follows(more[Len(more)], y) BY <1>c, <3>2 DEF Follows
    <3>6. Shape' /\ Spliced(Elems(more), more[1]) BY <1>1, <2>2, <3>2, <3>3, <3>4, <3>5, SpliceStep
    <3> QED BY <1>5, <2>3, <3>2, <3>6 DEF j
  <2>4. CASE Arrived(j)
    <3> DEFINE more == Dropping(j.from, j.host) \o <<Do("Clear")>>
    <3>1. Recovery(j) = more BY <2>1, <2>4 DEF Recovery
    <3>2. /\ more \in Seq(StepSet) /\ Ordered(more) /\ Elems(more) = Drops(j.from, j.host) \cup {Do("Clear")}
          /\ more # <<>> /\ more[1] = DoHost("DropHost", j.from, j.host) /\ more[Len(more)] = Do("Clear")
      BY <2>1, DroppingList
    <3>3. \A x \in Elems(more) : x.do \in {"DropHost", "DropKey", "DropKnown", "Clear"}
      BY <2>1, <3>2, <1>c, MadeSteps DEF Drops, Dropped
    <3> HIDE DEF more
    <3>4. \A x \in Elems(more), y \in Todo : Precedes(Step.do, y.do) => Precedes(x.do, y.do)
      BY <1>1, <1>3, <3>3, Inherit
    <3>5. \A y \in Todo : Follows(more[Len(more)], y) BY <1>c, <3>2 DEF Follows
    <3>6. Shape' /\ Spliced(Elems(more), more[1]) BY <1>1, <2>2, <3>1, <3>2, <3>4, <3>5, SpliceStep
    <3> QED BY <1>5, <2>4, <3>2, <3>6 DEF j
  <2> QED BY <2>3, <2>4
<1> QED BY <1>4, <1>5

\* An error ends the operation after the steps named in `front`.
Fallen(front) ==
  /\ todo' # <<>> /\ Step' \in Todo' /\ Todo' \subseteq StepSet
  /\ \A x \in Todo' :
       /\ x.do \in front \cup {"Unleave", "Failed"}
       /\ x.do = "Unstage" => x.at \in mem.entries
       /\ x.do = "Unleave" => op.kind = "remove" /\ op.taking /\ ~op.moved

\* What an operation that fails still does: unleave, then the error.
LEMMA UnwindList ==
  /\ Unwind \in Seq(StepSet) /\ Ordered(Unwind) /\ Unwind # <<>> /\ Unwind[Len(Unwind)].do = "Failed"
  /\ \A x \in Elems(Unwind) :
       /\ x.do \in {"Unleave", "Failed"}
       /\ x.do = "Unleave" => op.kind = "remove" /\ op.taking /\ ~op.moved
  /\ Unwind[1].do \in {"Unleave", "Failed"}
<1>1. /\ Do("Unleave") \in StepSet /\ Do("Failed") \in StepSet
      /\ Do("Unleave").do = "Unleave" /\ Do("Failed").do = "Failed"
  BY MadeSteps DEF Plain
<1>2. Precedes("Unleave", "Failed") BY Ranks DEF Precedes
<1>3. Follows(Do("Unleave"), Do("Failed")) BY <1>1 DEF Follows
<1>4. CASE op.kind = "remove" /\ op.taking /\ ~op.moved
  <2> DEFINE t == <<Do("Unleave"), Do("Failed")>>
  <2>1. Unwind = t BY <1>4 DEF Unwind
  <2>2. /\ t \in Seq(StepSet) /\ Ordered(t) /\ Elems(t) = {Do("Unleave"), Do("Failed")} /\ t # <<>>
        /\ t[1] = Do("Unleave") /\ t[Len(t)] = Do("Failed")
    BY <1>1, <1>2, <1>3, Two
  <2> HIDE DEF t
  <2> QED BY <1>1, <1>4, <2>1, <2>2
<1>5. CASE ~(op.kind = "remove" /\ op.taking /\ ~op.moved)
  <2> DEFINE t == <<Do("Failed")>>
  <2>1. Unwind = t BY <1>5 DEF Unwind
  <2>2. /\ t \in Seq(StepSet) /\ Ordered(t) /\ Elems(t) = {Do("Failed")} /\ t # <<>>
        /\ t[1] = Do("Failed") /\ t[Len(t)] = Do("Failed")
    BY <1>1, One
  <2> HIDE DEF t
  <2> QED BY <1>1, <2>1, <2>2
<1> QED BY <1>4, <1>5

\* What comes before the end of a failed operation.
LEMMA UnwindOrder ==
  \A x \in {"Clear", "Unstage"}, y \in {"Unleave", "Failed"} : Precedes(x, y)
BY Ranks DEF Precedes

\* An operation that fails is left with its end.
LEMMA UnwindStep ==
  ASSUME todo' = Unwind
  PROVE  Shape' /\ Fallen({}) /\ Step'.do # "Clear"
<1>1. Unwind \in Seq(StepSet) /\ Ordered(Unwind) /\ Unwind # <<>> /\ Unwind[Len(Unwind)].do \in Ending
  BY UnwindList DEF Ending
<1>2. Shape' /\ Fresh(Elems(Unwind), Unwind[1]) BY <1>1, FreshStep
<1> QED BY <1>2, UnwindList DEF Fresh, Fallen

\* An operation that fails with nothing to take back.
LEMMA FailedStep ==
  ASSUME todo' = <<Do("Failed")>>
  PROVE  Shape' /\ Fallen({}) /\ Step'.do = "Failed"
<1>1. Do("Failed") \in StepSet /\ Do("Failed").do = "Failed" /\ "Failed" \in Ending BY MadeSteps DEF Plain, Ending
<1> DEFINE t == <<Do("Failed")>>
<1>2. t \in Seq(StepSet) /\ Ordered(t) /\ Elems(t) = {Do("Failed")} /\ t # <<>> /\ t[1] = Do("Failed")
      /\ t[Len(t)].do \in Ending
  BY <1>1, One
<1> HIDE DEF t
<1>3. Shape' /\ Fresh(Elems(t), t[1]) BY <1>2, FreshStep DEF t
<1> QED BY <1>1, <1>2, <1>3 DEF Fresh, Fallen

\* A move whose import failed takes its note back first.
LEMMA ClearUnwindStep ==
  ASSUME todo' = <<Do("Clear")>> \o Unwind
  PROVE  Shape' /\ Fallen({"Clear"}) /\ Step'.do = "Clear"
<1> DEFINE a == <<Do("Clear")>>
           t == a \o Unwind
<1>1. Do("Clear") \in StepSet /\ Do("Clear").do = "Clear" BY MadeSteps DEF Plain
<1>2. /\ a \in Seq(StepSet) /\ Ordered(a) /\ Elems(a) = {Do("Clear")} /\ a # <<>> /\ a[1] = Do("Clear")
      /\ a[Len(a)] = Do("Clear")
  BY <1>1, One
<1> HIDE DEF a
<1>4. \A x \in Elems(a), y \in Elems(Unwind) : Precedes(x.do, y.do) BY <1>1, <1>2, UnwindOrder, UnwindList
<1>5. Follows(a[Len(a)], Unwind[1]) BY <1>1, <1>2, UnwindList DEF Follows
<1>6. /\ t \in Seq(StepSet) /\ Ordered(t) /\ Elems(t) = Elems(a) \cup Elems(Unwind)
      /\ t # <<>> /\ t[1] = a[1] /\ t[Len(t)] = Unwind[Len(Unwind)]
  BY <1>2, <1>4, <1>5, UnwindList, Join
<1> HIDE DEF t
<1>7. t[Len(t)].do \in Ending BY <1>6, UnwindList DEF Ending
<1>8. Shape' /\ Fresh(Elems(t), t[1]) BY <1>6, <1>7, FreshStep DEF t, a
<1> QED BY <1>1, <1>2, <1>6, <1>8, UnwindList DEF Fresh, Fallen

\* A swap that fails forgets what it staged, in every store.
LEMMA UnstageStep ==
  ASSUME mem \in Registry, RegOK(mem), todo' = Each("Unstage", mem.entries) \o Unwind
  PROVE  Shape' /\ Fallen({"Unstage"}) /\ Step'.do # "Clear"
<1> DEFINE a == Each("Unstage", mem.entries)
           t == a \o Unwind
<1>1. IsFiniteSet(mem.entries) /\ mem.entries # {} /\ mem.entries \in SUBSET Space BY EntriesOf
<1>2. /\ a \in Seq(StepSet) /\ Ordered(a) /\ a # <<>> /\ a[1].do = "Unstage" /\ a[Len(a)].do = "Unstage"
      /\ \A x \in Elems(a) : x \in StepSet /\ x.do = "Unstage" /\ x.at \in mem.entries
  BY <1>1, EachStep
<1> HIDE DEF a
<1>4. \A x \in Elems(a), y \in Elems(Unwind) : Precedes(x.do, y.do) BY <1>2, UnwindOrder, UnwindList
<1>5. Follows(a[Len(a)], Unwind[1]) BY <1>2, UnwindList DEF Follows
<1>6. /\ t \in Seq(StepSet) /\ Ordered(t) /\ Elems(t) = Elems(a) \cup Elems(Unwind)
      /\ t # <<>> /\ t[1] = a[1] /\ t[Len(t)] = Unwind[Len(Unwind)]
  BY <1>2, <1>4, <1>5, UnwindList, Join
<1> HIDE DEF t
<1>7. t[Len(t)].do \in Ending BY <1>6, UnwindList DEF Ending
<1>8. Shape' /\ Fresh(Elems(t), t[1]) BY <1>6, <1>7, FreshStep DEF t, a
<1> QED BY <1>2, <1>6, <1>8, UnwindList DEF Fresh, Fallen

\* The choice of an id for the target.
BeginTarget(i, to) == IF store[to].host[i] = "none" THEN i ELSE <<i[1], Least(FreshIds(i[1]))>>
BeginJournal == [host |-> Step.id, from |-> Step.from, to |-> Step.to, target |-> BeginTarget(Step.id, Step.to)]
BeginLuggage == [key |-> store[Step.from].uses[Step.id], known |-> store[Step.from].known]
BeginNote    == [do |-> "Note", j |-> BeginJournal]
BeginImport  == [do |-> "Import", j |-> BeginJournal, m |-> BeginLuggage]

\* move_between starts its note, import and drop, or fails.
LEMMA BeginCases ==
  ASSUME Begin
  PROVE  \/ todo' = Unwind
         \/ /\ Live(Step.from, Step.id)
            /\ store[Step.to].host[Step.id] = "none" \/ FreshIds(Step.id[1]) # {}
            /\ BeginLuggage.key # 0 => FreshKeys # {} \/ store[Step.to].key[BeginLuggage.key] # "dead"
            /\ Then(<<BeginNote, BeginImport>> \o Dropping(Step.from, Step.id) \o <<Do("Clear")>>)
BY DEF Begin, BeginNote, BeginImport, BeginJournal, BeginLuggage, BeginTarget

\* An id that nobody has had.
LEMMA TargetFits ==
  ASSUME NEW i \in Id, NEW to \in Space, store[to].host[i] = "none" \/ FreshIds(i[1]) # {}
  PROVE  /\ BeginTarget(i, to) \in Id /\ BeginTarget(i, to)[1] = i[1]
         /\ store[to].host[BeginTarget(i, to)] = "none"
<1>1. i[1] \in Host BY DEF Id
<1>2. CASE store[to].host[i] = "none" BY <1>2 DEF BeginTarget
<1>3. CASE store[to].host[i] # "none"
  <2> DEFINE S == FreshIds(i[1])
             g == Least(S)
  <2>1. S # {} /\ S \subseteq Gen BY <1>3 DEF FreshIds
  <2>2. S \in SUBSET Nat BY <2>1, SpacesAssumption DEF Gen
  <2>3. g \in S BY <2>1, <2>2, LeastIn
  <2>4. g \in Gen /\ store[to].host[<<i[1], g>>] = "none" BY <2>3 DEF FreshIds
  <2>5. BeginTarget(i, to) = <<i[1], g>> BY <1>3 DEF BeginTarget
  <2> HIDE DEF g, S
  <2> QED BY <1>1, <2>4, <2>5 DEF Id
<1> QED BY <1>2, <1>3

\* What move_between leaves to do, and what it read before.
LEMMA BeginList ==
  ASSUME Shape, store \in [Space -> StoreSet], Begin, Step.from # Step.to
  PROVE  /\ Shape'
         /\ \/ Fallen({}) /\ Step'.do # "Clear"
            \/ /\ Live(Step.from, Step.id)
               /\ BeginJournal \in Entry /\ BeginLuggage \in Luggage
               /\ store[Step.to].host[BeginJournal.target] = "none"
               /\ BeginLuggage.key # 0 => FreshKeys # {} \/ store[Step.to].key[BeginLuggage.key] # "dead"
               /\ Spliced({BeginNote, BeginImport} \cup Drops(Step.from, Step.id) \cup {Do("Clear")}, BeginNote)
<1>1. todo # <<>> /\ Step.do = "Begin" /\ "Begin" \notin Ending BY DEF Begin, Doing, Step, Ending
<1>2. Step \in StepSet /\ Todo \subseteq StepSet BY <1>1, Pop DEF Shape, Todo, Step
<1>3. \A y \in Todo : y.do \in Names BY <1>2, StepFields
<1>4. Step.id \in Id /\ Step.from \in Space /\ Step.to \in Space BY <1>1, <1>2, StepFields
<1>5. CASE todo' = Unwind BY <1>5, UnwindStep
<1>6. CASE todo' # Unwind
  <2>1. /\ Live(Step.from, Step.id)
        /\ store[Step.to].host[Step.id] = "none" \/ FreshIds(Step.id[1]) # {}
        /\ BeginLuggage.key # 0 => FreshKeys # {} \/ store[Step.to].key[BeginLuggage.key] # "dead"
        /\ Then(<<BeginNote, BeginImport>> \o Dropping(Step.from, Step.id) \o <<Do("Clear")>>)
    BY <1>6, BeginCases
  <2>2. /\ BeginTarget(Step.id, Step.to) \in Id /\ BeginTarget(Step.id, Step.to)[1] = Step.id[1]
        /\ store[Step.to].host[BeginTarget(Step.id, Step.to)] = "none"
    BY <1>4, <2>1, TargetFits
  <2>3. BeginJournal \in Entry /\ BeginJournal.target = BeginTarget(Step.id, Step.to)
    BY <1>4, <2>2 DEF BeginJournal, Entry, Journal
  <2>4. BeginLuggage \in Luggage
    <3>1. store[Step.from] \in StoreSet BY <1>4
    <3> QED BY <1>4, <3>1 DEF BeginLuggage, Luggage, StoreSet
  <2>5. /\ BeginNote \in [do : {"Note"}, j : Entry] /\ BeginNote.do = "Note" /\ BeginNote.j = BeginJournal
        /\ BeginImport \in [do : {"Import"}, j : Entry, m : Luggage] /\ BeginImport.do = "Import"
        /\ BeginImport.j = BeginJournal
    BY <2>3, <2>4 DEF BeginNote, BeginImport
  <2>6. BeginNote \in StepSet /\ BeginImport \in StepSet BY <2>5 DEF StepSet
  <2> DEFINE a == <<BeginNote, BeginImport>>
             b == Dropping(Step.from, Step.id)
             d == <<Do("Clear")>>
             ab == a \o b
             more == ab \o d
  <2>7. Precedes(BeginNote.do, BeginImport.do) /\ Follows(BeginNote, BeginImport)
    BY <2>5, Ranks DEF Precedes, Follows
  <2>8. /\ a \in Seq(StepSet) /\ Ordered(a) /\ Elems(a) = {BeginNote, BeginImport} /\ a # <<>>
        /\ a[1] = BeginNote /\ a[Len(a)] = BeginImport
    BY <2>6, <2>7, Two
  <2>9. /\ b \in Seq(StepSet) /\ Ordered(b) /\ Elems(b) = Drops(Step.from, Step.id) /\ b # <<>>
        /\ b[1] = DoHost("DropHost", Step.from, Step.id) /\ b[Len(b)] = DoHost("DropKnown", Step.from, Step.id)
    BY <1>4, DroppingList
  <2>10. /\ d \in Seq(StepSet) /\ Ordered(d) /\ Elems(d) = {Do("Clear")} /\ d # <<>>
         /\ d[1] = Do("Clear") /\ d[Len(d)] = Do("Clear")
    BY MadeSteps, One DEF Plain
  <2>11. /\ \A x \in Elems(b) : x.do \in {"DropHost", "DropKey", "DropKnown"}
         /\ b[1].do = "DropHost" /\ b[Len(b)].do = "DropKnown" /\ Do("Clear").do = "Clear"
    BY <1>4, <2>9, MadeSteps DEF Drops, Dropped, Plain
  <2>12. \A x \in {"Note", "Import"}, y \in {"DropHost", "DropKey", "DropKnown", "Clear"} : Precedes(x, y)
    BY Ranks DEF Precedes
  <2>c. \A x \in {"DropHost", "DropKey", "DropKnown"} : Precedes(x, "Clear") BY Ranks DEF Precedes
  <2>16. Then(more) BY <2>1
  <2> HIDE DEF a, b, d
  <2>13. \A x \in Elems(a), y \in Elems(b) : Precedes(x.do, y.do) BY <2>5, <2>8, <2>11, <2>12
  <2>14. Follows(a[Len(a)], b[1]) BY <2>5, <2>8, <2>11 DEF Follows
  <2>e. /\ ab \in Seq(StepSet) /\ Ordered(ab) /\ Elems(ab) = Elems(a) \cup Elems(b)
        /\ ab # <<>> /\ ab[1] = a[1] /\ ab[Len(ab)] = b[Len(b)]
    BY <2>8, <2>9, <2>13, <2>14, Join
  <2> HIDE DEF ab
  <2>f. \A x \in Elems(ab), y \in Elems(d) : Precedes(x.do, y.do)
    BY <2>5, <2>8, <2>10, <2>11, <2>12, <2>c, <2>e
  <2>g. Follows(ab[Len(ab)], d[1]) BY <2>10, <2>11, <2>e DEF Follows
  <2>15. /\ more \in Seq(StepSet) /\ Ordered(more) /\ Elems(more) = Elems(ab) \cup Elems(d)
         /\ more # <<>> /\ more[1] = a[1] /\ more[Len(more)] = d[Len(d)]
    BY <2>e, <2>10, <2>f, <2>g, Join
  <2> HIDE DEF more
  <2>17. \A x \in Elems(more) : x.do \in {"Note", "Import", "DropHost", "DropKey", "DropKnown", "Clear"}
    BY <2>5, <2>8, <2>10, <2>11, <2>15, <2>e
  <2>18. \A x \in Elems(more), y \in Todo : Precedes(Step.do, y.do) => Precedes(x.do, y.do)
    BY <1>1, <1>3, <2>17, Inherit
  <2>19. \A y \in Todo : Follows(more[Len(more)], y) BY <2>10, <2>11, <2>15 DEF Follows
  <2>20. Shape' /\ Spliced(Elems(more), more[1]) BY <1>1, <2>15, <2>16, <2>18, <2>19, SpliceStep
  <2>21. Elems(more) = {BeginNote, BeginImport} \cup Drops(Step.from, Step.id) \cup {Do("Clear")}
    BY <2>8, <2>9, <2>10, <2>15, <2>e
  <2> QED BY <2>1, <2>2, <2>3, <2>4, <2>8, <2>15, <2>20, <2>21
<1> QED BY <1>5, <1>6

\* What settle_handover leaves to do.
LEMMA SettleList ==
  ASSUME Shape, mem \in Registry, RegOK(mem), Settle
  PROVE  /\ Shape'
         /\ \E M, f : /\ Spliced(M, f)
                      /\ mem.handover = None =>
                           \A x \in M : x.do = "Unstage" /\ x.at \in mem.entries
                      /\ mem.handover # None =>
                           /\ f.do = "Promote"
                           /\ \A x \in M : \/ x.do = "Promote" /\ x.at \in mem.entries
                                           \/ x.do = "ClearDoc" /\ x.at = mem.handover
                                           \/ x.do = "EndHandover"
                           /\ \E x \in M : x.do = "EndHandover"
                           /\ \A s \in mem.entries : \E x \in M : x.do = "Promote" /\ x.at = s
<1>1. todo # <<>> /\ Step.do = "Settle" /\ "Settle" \notin Ending BY DEF Settle, Doing, Step, Ending
<1>2. Todo \subseteq StepSet BY <1>1, Pop DEF Shape, Todo
<1>3. \A y \in Todo : y.do \in Names BY <1>2, StepFields
<1>4. IsFiniteSet(mem.entries) /\ mem.entries # {} /\ mem.entries \in SUBSET Space BY EntriesOf
<1>b. \A y \in Todo : Follows(Step, y) => y.do # "Begin" BY <1>1 DEF Follows
<1>5. CASE mem.handover = None
  <2> DEFINE a == Each("Unstage", mem.entries)
  <2>1. Then(a) BY <1>5 DEF Settle, Settling
  <2>2. /\ a \in Seq(StepSet) /\ Ordered(a) /\ a # <<>> /\ a[1].do = "Unstage" /\ a[Len(a)].do = "Unstage"
        /\ \A x \in Elems(a) : x \in StepSet /\ x.do = "Unstage" /\ x.at \in mem.entries
    BY <1>4, EachStep
  <2> HIDE DEF a
  <2>3. \A x \in Elems(a), y \in Todo : Precedes(Step.do, y.do) => Precedes(x.do, y.do)
    BY <1>1, <1>3, <2>2, Inherit
  <2>4. \A y \in Todo : Follows(Step, y) => Follows(a[Len(a)], y) BY <1>b, <2>2 DEF Follows
  <2>5. Shape' /\ Spliced(Elems(a), a[1]) BY <1>1, <2>1, <2>2, <2>3, <2>4, SpliceStep
  <2> QED BY <1>5, <2>2, <2>5
<1>6. CASE mem.handover # None
  <2> DEFINE a == Each("Promote", mem.entries)
             b == IF mem.handover \in mem.entries THEN <<DoIn("ClearDoc", mem.handover)>> ELSE <<>>
             c == <<Do("EndHandover")>>
             ab == a \o b
             more == ab \o c
  <2>1. Then(more) BY <1>6 DEF Settle, Settling
  <2>2. /\ a \in Seq(StepSet) /\ Ordered(a) /\ a # <<>> /\ a[1].do = "Promote" /\ a[Len(a)].do = "Promote"
        /\ \A x \in Elems(a) : x \in StepSet /\ x.do = "Promote" /\ x.at \in mem.entries
        /\ \A s \in mem.entries : \E x \in Elems(a) : x.at = s
    BY <1>4, EachStep
  <2>3. /\ b \in Seq(StepSet) /\ Ordered(b) /\ \A x \in Elems(b) : x.do = "ClearDoc" /\ x.at = mem.handover
        /\ b # <<>> => b[1].do = "ClearDoc" /\ b[Len(b)].do = "ClearDoc"
    <3>1. CASE mem.handover \in mem.entries
      <4> DEFINE y == DoIn("ClearDoc", mem.handover)
      <4>1. y \in StepSet /\ y.do = "ClearDoc" /\ y.at = mem.handover BY <1>4, <3>1, MadeSteps DEF Placed
      <4>2. b = <<y>> BY <3>1
      <4> HIDE DEF y
      <4> QED BY <4>1, <4>2, One
    <3>2. CASE mem.handover \notin mem.entries
      <4>1. b = <<>> BY <3>2
      <4>2. <<>> \in Seq(StepSet) /\ Len(<<>>) = 0 OBVIOUS
      <4> QED BY <4>1, <4>2 DEF Ordered, Elems
    <3> QED BY <3>1, <3>2
  <2>4. /\ c \in Seq(StepSet) /\ Ordered(c) /\ Elems(c) = {Do("EndHandover")} /\ c # <<>>
        /\ c[1] = Do("EndHandover") /\ c[Len(c)] = Do("EndHandover") /\ Do("EndHandover").do = "EndHandover"
    BY MadeSteps, One DEF Plain
  <2> HIDE DEF a, b, c
  <2>5. /\ Precedes("Promote", "ClearDoc") /\ Precedes("Promote", "EndHandover") /\ Precedes("ClearDoc", "EndHandover")
    BY Ranks DEF Precedes
  <2>6. \A x \in Elems(a), y \in Elems(b) : Precedes(x.do, y.do) BY <2>2, <2>3, <2>5
  <2>7. b # <<>> => Follows(a[Len(a)], b[1]) BY <2>2, <2>3 DEF Follows
  <2>8. /\ ab \in Seq(StepSet) /\ Ordered(ab) /\ Elems(ab) = Elems(a) \cup Elems(b)
        /\ ab # <<>> /\ ab[1] = a[1] /\ (b = <<>> => ab = a) /\ (b # <<>> => ab[Len(ab)] = b[Len(b)])
    BY <2>2, <2>3, <2>6, <2>7, Join
  <2> HIDE DEF ab
  <2>9. ab[Len(ab)].do \in {"Promote", "ClearDoc"} BY <2>2, <2>3, <2>8
  <2>10. \A x \in Elems(ab), y \in Elems(c) : Precedes(x.do, y.do) BY <2>2, <2>3, <2>4, <2>5, <2>8
  <2>11. Follows(ab[Len(ab)], c[1]) BY <2>4, <2>9 DEF Follows
  <2>12. /\ more \in Seq(StepSet) /\ Ordered(more) /\ Elems(more) = Elems(ab) \cup Elems(c)
         /\ more # <<>> /\ more[1] = ab[1] /\ more[Len(more)] = c[Len(c)]
    BY <2>4, <2>8, <2>10, <2>11, Join
  <2> HIDE DEF more
  <2>13. \A x \in Elems(more) : \/ x.do = "Promote" /\ x.at \in mem.entries
                                \/ x.do = "ClearDoc" /\ x.at = mem.handover
                                \/ x.do = "EndHandover"
    BY <2>2, <2>3, <2>4, <2>8, <2>12
  <2>14. \A x \in Elems(more), y \in Todo : Precedes(Step.do, y.do) => Precedes(x.do, y.do)
    BY <1>1, <1>3, <2>13, Inherit
  <2>15. \A y \in Todo : Follows(Step, y) => Follows(more[Len(more)], y) BY <1>b, <2>4, <2>12 DEF Follows
  <2>16. Shape' /\ Spliced(Elems(more), more[1]) BY <1>1, <2>1, <2>12, <2>14, <2>15, SpliceStep
  <2>17. more[1].do = "Promote" BY <2>2, <2>8, <2>12
  <2>18. \E x \in Elems(more) : x.do = "EndHandover" BY <2>4, <2>12
  <2>19. \A s \in mem.entries : \E x \in Elems(more) : x.do = "Promote" /\ x.at = s
    BY <2>2, <2>8, <2>12
  <2> QED BY <1>6, <2>13, <2>16, <2>17, <2>18, <2>19
<1> QED BY <1>5, <1>6

\* The steps of a change of the main server.
StageStep(new) == [do |-> "Stage", at |-> mem.main, main |-> new]
SwapSteps(new) ==
  {DoIn("Personal", new), DoIn("StageMain", new), StageStep(new), DoIn("Swap", new), Do("Settle")}

\* The step that stages the old main server's key.
LEMMA StageFields ==
  ASSUME NEW new \in Space, mem.main \in Space
  PROVE  /\ StageStep(new) \in StepSet /\ StageStep(new).do = "Stage"
         /\ StageStep(new).at = mem.main /\ StageStep(new).main = new
<1>1. StageStep(new) \in [do : {"Stage"}, at : Space, main : Space] BY DEF StageStep
<1> QED BY <1>1 DEF StepSet, StageStep

\* A list of one step.
LEMMA Single ==
  ASSUME NEW t \in Seq(StepSet), Len(t) = 1
  PROVE  t # <<>> /\ Elems(t) = {t[1]} /\ Ordered(t)
<1>1. t # <<>> OBVIOUS
<1>2. 1 .. 1 = {1} OBVIOUS
<1> QED BY <1>1, <1>2 DEF Elems, Ordered

\* What make_main leaves to do.
LEMMA SwapList ==
  ASSUME mem \in Registry, RegOK(mem), NEW new \in mem.entries \ {mem.main}
  PROVE  /\ Swapping(new) \in Seq(StepSet) /\ Ordered(Swapping(new)) /\ Elems(Swapping(new)) = SwapSteps(new)
         /\ Swapping(new) # <<>> /\ Swapping(new)[1] = DoIn("Personal", new)
         /\ Swapping(new)[Len(Swapping(new))] = Do("Settle")
<1>1. /\ mem.main \in mem.entries /\ mem.entries \subseteq Space /\ IsFiniteSet(mem.entries)
      /\ \A s, t \in mem.entries : s # mem.main /\ t # mem.main => s = t
  BY EntriesOf
<1>2. new \in Space /\ mem.main \in Space /\ mem.entries = {mem.main, new} BY <1>1
<1>3. mem.entries \ {new} = {mem.main} BY <1>2
<1>4. Cardinality(mem.entries) - 1 = 1
  <2>1. IsFiniteSet({mem.main}) /\ Cardinality({mem.main}) = 1 BY FS_Singleton
  <2>2. Cardinality({mem.main} \cup {new}) = 2 BY <2>1, FS_AddElement
  <2>3. mem.entries = {mem.main} \cup {new} BY <1>2
  <2> QED BY <2>2, <2>3
<1>5. SetToSeq(mem.entries \ {new})[1] = mem.main
  <2>1. IsFiniteSet({mem.main}) /\ Cardinality({mem.main}) = 1 BY FS_Singleton
  <2>2. SetToSeq({mem.main}) \in Seq({mem.main}) /\ Len(SetToSeq({mem.main})) = 1 BY <2>1, SetListed
  <2>3. SetToSeq({mem.main})[1] \in {mem.main} BY <2>2
  <2> QED BY <1>3, <2>3
<1> DEFINE p == DoIn("Personal", new)
           m == DoIn("StageMain", new)
           g == StageStep(new)
           w == DoIn("Swap", new)
           e == Do("Settle")
           a == <<p, m>>
           b == [n \in 1 .. Cardinality(mem.entries) - 1 |->
                   [do |-> "Stage", at |-> SetToSeq(mem.entries \ {new})[n], main |-> new]]
           c == <<w, e>>
           ab == a \o b
           t == ab \o c
<1>6. Swapping(new) = t BY DEF Swapping
<1>7. /\ p \in StepSet /\ m \in StepSet /\ w \in StepSet /\ e \in StepSet /\ g \in StepSet
      /\ p.do = "Personal" /\ m.do = "StageMain" /\ w.do = "Swap" /\ e.do = "Settle" /\ g.do = "Stage"
  BY <1>2, MadeSteps, StageFields DEF Placed, Plain
<1>8. b = [n \in 1 .. 1 |-> g]
  <2>1. 1 .. 1 = {1} /\ 1 .. (Cardinality(mem.entries) - 1) = 1 .. 1 BY <1>4
  <2>2. \A n \in 1 .. 1 : [do |-> "Stage", at |-> SetToSeq(mem.entries \ {new})[n], main |-> new] = g
    BY <1>5, <2>1 DEF StageStep
  <2> HIDE DEF g
  <2> QED BY <2>1, <2>2
<1>9. /\ Precedes("Personal", "StageMain") /\ Precedes("Personal", "Stage") /\ Precedes("Personal", "Swap")
      /\ Precedes("Personal", "Settle") /\ Precedes("StageMain", "Stage") /\ Precedes("StageMain", "Swap")
      /\ Precedes("StageMain", "Settle") /\ Precedes("Stage", "Swap") /\ Precedes("Stage", "Settle")
      /\ Precedes("Swap", "Settle")
  BY Ranks DEF Precedes
<1> HIDE DEF p, m, g, w, e, b
<1>10. b \in Seq(StepSet) /\ Len(b) = 1 /\ b[1] = g BY <1>7, <1>8
<1>11. b # <<>> /\ Elems(b) = {g} /\ Ordered(b) BY <1>10, Single
<1>12. Follows(p, m) /\ Follows(m, g) /\ Follows(g, w) /\ Follows(w, e) BY <1>7 DEF Follows
<1>13. a \in Seq(StepSet) /\ Ordered(a) /\ Elems(a) = {p, m} /\ a # <<>> /\ a[1] = p /\ a[Len(a)] = m
  BY <1>7, <1>9, <1>12, Two
<1>14. c \in Seq(StepSet) /\ Ordered(c) /\ Elems(c) = {w, e} /\ c # <<>> /\ c[1] = w /\ c[Len(c)] = e
  BY <1>7, <1>9, <1>12, Two
<1> HIDE DEF a, c
<1>15. \A x \in Elems(a), y \in Elems(b) : Precedes(x.do, y.do) BY <1>7, <1>9, <1>11, <1>13
<1>16. /\ ab \in Seq(StepSet) /\ Ordered(ab) /\ Elems(ab) = Elems(a) \cup Elems(b)
       /\ ab # <<>> /\ ab[1] = p /\ ab[Len(ab)] = g
  BY <1>10, <1>11, <1>12, <1>13, <1>15, Join
<1> HIDE DEF ab
<1>17. \A x \in Elems(ab), y \in Elems(c) : Precedes(x.do, y.do) BY <1>7, <1>9, <1>11, <1>13, <1>14, <1>16
<1>18. /\ t \in Seq(StepSet) /\ Ordered(t) /\ Elems(t) = Elems(ab) \cup Elems(c)
       /\ t # <<>> /\ t[1] = p /\ t[Len(t)] = e
  BY <1>12, <1>14, <1>16, <1>17, Join
<1>19. Elems(t) = {p, m, g, w, e} BY <1>11, <1>13, <1>14, <1>16, <1>18
<1> HIDE DEF t
<1> QED BY <1>6, <1>18, <1>19 DEF SwapSteps, p, m, g, w, e

\* The names of the steps of a change, and what may come behind the next one.
LEMMA SwapStepFields ==
  ASSUME NEW new \in Space, mem.main \in Space, NEW x \in SwapSteps(new)
  PROVE  /\ x \in StepSet /\ x.do \in {"Personal", "StageMain", "Stage", "Swap", "Settle"}
         /\ x.do \in {"Personal", "StageMain", "Swap"} => x.at = new
         /\ x.do = "Stage" => x.at = mem.main /\ x.main = new
BY MadeSteps, StageFields DEF SwapSteps, Placed, Plain

\* A removal of the main server makes the other one main first.
LEMMA HandOnList ==
  ASSUME Shape, mem \in Registry, RegOK(mem), HandOn, mem.main = Step.at => Other(Step.at) \in mem.entries \ {mem.main}
  PROVE  /\ Shape'
         /\ IF mem.main = Step.at
            THEN Spliced(SwapSteps(Other(Step.at)), DoIn("Personal", Other(Step.at)))
            ELSE Popped
<1>1. todo # <<>> /\ Step.do = "HandOn" /\ "HandOn" \notin Ending BY DEF HandOn, Doing, Step, Ending
<1>2. Todo \subseteq StepSet BY <1>1, Pop DEF Shape, Todo
<1>3. \A y \in Todo : y.do \in Names BY <1>2, StepFields
<1>4. CASE mem.main # Step.at
  <2>1. Then(<<>>) BY <1>4 DEF HandOn
  <2> QED BY <1>1, <1>4, <2>1, PopStep
<1>5. CASE mem.main = Step.at
  <2> DEFINE new == Other(Step.at)
             t == Swapping(new)
  <2>1. Then(t) BY <1>5 DEF HandOn
  <2>2. new \in mem.entries \ {mem.main} BY <1>5
  <2> HIDE DEF new
  <2>3. /\ t \in Seq(StepSet) /\ Ordered(t) /\ Elems(t) = SwapSteps(new) /\ t # <<>>
        /\ t[1] = DoIn("Personal", new) /\ t[Len(t)] = Do("Settle")
    BY <2>2, SwapList
  <2>4. new \in Space /\ mem.main \in Space BY <2>2, EntriesOf
  <2> HIDE DEF t
  <2>5. \A x \in Elems(t) : x.do \in {"Personal", "StageMain", "Stage", "Swap", "Settle"}
    BY <2>3, <2>4, SwapStepFields
  <2>6. ASSUME NEW x \in Elems(t), NEW y \in Todo, NEW z \in Todo, Follows(Step, z),
               y = z \/ Precedes(z.do, y.do)
        PROVE  Precedes(x.do, y.do)
    <3>1. z.do = "Unregister" BY <1>1, <2>6 DEF Follows
    <3>2. Rank(y.do) \in 1 .. 39 BY <1>3, RankNat
    <3>3. y.do = "Unregister" \/ Precedes("Unregister", y.do) BY <2>6, <3>1
    <3>4. \A a \in {"Personal", "StageMain", "Stage", "Swap", "Settle"} : Precedes(a, y.do)
      BY <3>2, <3>3, Ranks DEF Precedes, Repeated
    <3> QED BY <2>5, <3>4
  <2>7. Do("Settle").do = "Settle" BY MadeSteps DEF Plain
  <2>8. \A y \in Todo : Follows(Step, y) => Follows(t[Len(t)], y) BY <1>1, <2>3, <2>7 DEF Follows
  <2>9. Shape' /\ Spliced(Elems(t), t[1]) BY <1>1, <2>1, <2>3, <2>6, <2>8, SpliceBefore
  <2> QED BY <1>5, <2>3, <2>9 DEF new
<1> QED BY <1>4, <1>5

\* The three steps for each host of a server that is taken away.
TakeOf(ids, s, to) ==
  [n \in 1 .. 3 * Len(ids) |->
     IF n % 3 = 0 THEN Do("Moved") ELSE Moving(ids[(n + 2) \div 3], s, to)[n % 3]]

BeginStep(i, s, to) == [do |-> "Begin", id |-> i, from |-> s, to |-> to]

\* The step that starts the move of one host.
LEMMA BeginFields ==
  ASSUME NEW i \in Id, NEW s \in Space, NEW to \in Space
  PROVE  /\ BeginStep(i, s, to) \in StepSet /\ BeginStep(i, s, to).do = "Begin"
         /\ BeginStep(i, s, to).id = i /\ BeginStep(i, s, to).from = s /\ BeginStep(i, s, to).to = to
<1>1. BeginStep(i, s, to) \in [do : {"Begin"}, id : Id, from : Space, to : Space] BY DEF BeginStep
<1> QED BY <1>1 DEF StepSet, BeginStep

\* Moves of one removal come in any order.
LEMMA TakeOrder ==
  \A x, y \in {"Recover", "Begin", "Moved"} : Precedes(x, y)
BY Ranks DEF Precedes, Repeated

\* The moves of the hosts of a server that is removed.
LEMMA TakeList ==
  ASSUME NEW ids \in Seq(Id), NEW s \in Space, NEW to \in Space
  PROVE  /\ TakeOf(ids, s, to) \in Seq(StepSet) /\ Ordered(TakeOf(ids, s, to))
         /\ \A x \in Elems(TakeOf(ids, s, to)) :
              \/ x.do \in {"Recover", "Moved"}
              \/ \E n \in 1 .. Len(ids) : x = BeginStep(ids[n], s, to)
         /\ \A n \in 1 .. Len(ids) : BeginStep(ids[n], s, to) \in Elems(TakeOf(ids, s, to))
         /\ TakeOf(ids, s, to) # <<>> => TakeOf(ids, s, to)[1].do = "Recover"
<1> DEFINE t == TakeOf(ids, s, to)
           L == Len(ids)
<1>1. L \in Nat /\ \A n \in 1 .. L : ids[n] \in Id OBVIOUS
<1> HIDE DEF L
<1>2. /\ Do("Recover") \in StepSet /\ Do("Recover").do = "Recover"
      /\ Do("Moved") \in StepSet /\ Do("Moved").do = "Moved"
  BY MadeSteps DEF Plain
<1>3. \A n \in 1 .. 3 * L : /\ n % 3 \in {0, 1, 2}
                            /\ (n + 2) \div 3 \in 1 .. L
                            /\ (n + 1) % 3 = 2 => n % 3 = 1
  BY <1>1
<1>4. \A n \in 1 .. L : 3 * n - 1 \in 1 .. 3 * L /\ (3 * n - 1) % 3 = 2 /\ ((3 * n - 1) + 2) \div 3 = n
  BY <1>1
<1>5. 1 % 3 = 1 OBVIOUS
<1>6. \A i : Moving(i, s, to)[1] = Do("Recover") /\ Moving(i, s, to)[2] = BeginStep(i, s, to)
  BY DEF Moving, BeginStep
<1> DEFINE v(n) == IF n % 3 = 0 THEN Do("Moved")
                   ELSE IF n % 3 = 1 THEN Do("Recover") ELSE BeginStep(ids[(n + 2) \div 3], s, to)
<1>7. t = [n \in 1 .. 3 * L |-> v(n)]
  <2>1. \A n \in 1 .. 3 * L :
          (IF n % 3 = 0 THEN Do("Moved") ELSE Moving(ids[(n + 2) \div 3], s, to)[n % 3]) = v(n)
    BY <1>3, <1>6
  <2> QED BY <2>1 DEF TakeOf, L
<1> HIDE DEF t
<1>8. \A n \in 1 .. 3 * L : /\ v(n) \in StepSet
                            /\ n % 3 = 0 => v(n).do = "Moved"
                            /\ n % 3 = 1 => v(n).do = "Recover"
                            /\ n % 3 = 2 => v(n).do = "Begin"
  BY <1>1, <1>2, <1>3, BeginFields
<1> HIDE DEF v
<1>9. t \in Seq(StepSet) /\ Len(t) = 3 * L /\ \A n \in 1 .. 3 * L : t[n] = v(n)
  BY <1>1, <1>7, <1>8
<1>10. \A n \in 1 .. 3 * L : t[n].do \in {"Recover", "Begin", "Moved"} BY <1>3, <1>8, <1>9
<1>12. \A m, n \in 1 .. Len(t) : m < n => Precedes(t[m].do, t[n].do) BY <1>9, <1>10, TakeOrder
<1>13. \A n \in 1 .. Len(t) : n < Len(t) => Follows(t[n], t[n + 1])
  <2>1. SUFFICES ASSUME NEW n \in 1 .. 3 * L, n < 3 * L PROVE Follows(t[n], t[n + 1]) BY <1>9
  <2>2. n + 1 \in 1 .. 3 * L BY <2>1, <1>1
  <2>3. t[n + 1].do = "Begin" => (n + 1) % 3 = 2 BY <2>2, <1>3, <1>8, <1>9
  <2>4. t[n + 1].do = "Begin" => t[n].do = "Recover" BY <2>3, <1>3, <1>8, <1>9
  <2> QED BY <2>4, <1>10 DEF Follows
<1>14. \A x \in Elems(t) : x.do \in {"Recover", "Moved"} \/ \E n \in 1 .. L : x = BeginStep(ids[n], s, to)
  <2>1. SUFFICES ASSUME NEW n \in 1 .. 3 * L
                 PROVE  \/ t[n].do \in {"Recover", "Moved"}
                        \/ \E k \in 1 .. L : t[n] = BeginStep(ids[k], s, to)
    BY <1>9 DEF Elems
  <2>2. CASE n % 3 # 2 BY <2>2, <1>3, <1>8, <1>9
  <2>3. CASE n % 3 = 2
    <3>1. t[n] = BeginStep(ids[(n + 2) \div 3], s, to) BY <2>3, <1>9 DEF v
    <3> QED BY <3>1, <1>3
  <2> QED BY <2>2, <2>3
<1>15. \A n \in 1 .. L : BeginStep(ids[n], s, to) \in Elems(t)
  <2>1. SUFFICES ASSUME NEW n \in 1 .. L PROVE BeginStep(ids[n], s, to) \in Elems(t) OBVIOUS
  <2>2. t[3 * n - 1] = BeginStep(ids[n], s, to) BY <1>4, <1>9 DEF v
  <2>3. 3 * n - 1 \in 1 .. Len(t) BY <1>4, <1>9
  <2> QED BY <2>2, <2>3 DEF Elems
<1>16. t # <<>> => t[1].do = "Recover"
  <2>1. SUFFICES ASSUME t # <<>> PROVE t[1].do = "Recover" OBVIOUS
  <2>2. Len(t) # 0 BY <2>1, <1>9
  <2>3. 1 \in 1 .. 3 * L BY <2>2, <1>1, <1>9
  <2> QED BY <2>3, <1>5, <1>8, <1>9
<1> QED BY <1>9, <1>12, <1>13, <1>14, <1>15, <1>16 DEF Ordered, t, L

\* The ids of hosts are finite in number.
LEMMA FiniteIds == IsFiniteSet(Id)
<1>1. MaxGen \in Int BY SpacesAssumption
<1>2. IsFiniteSet(Gen) BY <1>1, FS_Interval DEF Gen
<1> QED BY <1>2, SpacesAssumption, FS_Product DEF Id

\* What take_hosts leaves to do: settle the last move, then move each host.
LEMMA TakeHostsList ==
  ASSUME Shape, TakeHosts, Other(Step.at) \in Space
  PROVE  /\ Shape'
         /\ \E M, f :
              /\ Spliced(M, f)
              /\ f.do \in {"Recover", "TakeKeys"}
              /\ \A x \in M : \/ x.do \in {"Recover", "Moved"}
                              \/ x.do = "TakeKeys" /\ x.at = Step.at
                              \/ x.do = "Begin" /\ x.from = Step.at /\ x.to = Other(Step.at)
              /\ \A i \in Id : Live(Step.at, i) => \E x \in M : x.do = "Begin" /\ x.id = i
<1>1. todo # <<>> /\ Step.do = "TakeHosts" /\ "TakeHosts" \notin Ending BY DEF TakeHosts, Doing, Step, Ending
<1>2. Step \in StepSet /\ Todo \subseteq StepSet BY <1>1, Pop DEF Shape, Todo, Step
<1>3. \A y \in Todo : y.do \in Names BY <1>2, StepFields
<1>4. Step.at \in Space BY <1>1, <1>2, StepFields DEF Placed
<1> DEFINE S   == {i \in Id : Live(Step.at, i)}
           ids == SetToSeq(S)
           to  == Other(Step.at)
           a   == TakeOf(ids, Step.at, to)
           b   == <<DoIn("TakeKeys", Step.at)>>
           more == a \o b
<1>5. Then(more) BY DEF TakeHosts, TakeOf
<1>6. IsFiniteSet(S) BY FiniteIds, FS_Subset
<1>7. ids \in Seq(S) /\ \A x \in S : \E n \in 1 .. Len(ids) : ids[n] = x BY <1>6, SetListed
<1>8. ids \in Seq(Id) BY <1>7
<1>9. to \in Space OBVIOUS
<1> HIDE DEF ids, to
<1>10. /\ a \in Seq(StepSet) /\ Ordered(a)
       /\ \A x \in Elems(a) : \/ x.do \in {"Recover", "Moved"}
                              \/ \E n \in 1 .. Len(ids) : x = BeginStep(ids[n], Step.at, to)
       /\ \A n \in 1 .. Len(ids) : BeginStep(ids[n], Step.at, to) \in Elems(a)
       /\ a # <<>> => a[1].do = "Recover"
  BY <1>4, <1>8, <1>9, TakeList
<1>11. /\ b \in Seq(StepSet) /\ Ordered(b) /\ Elems(b) = {DoIn("TakeKeys", Step.at)} /\ b # <<>>
       /\ b[1] = DoIn("TakeKeys", Step.at) /\ b[Len(b)] = DoIn("TakeKeys", Step.at)
       /\ DoIn("TakeKeys", Step.at).do = "TakeKeys" /\ DoIn("TakeKeys", Step.at).at = Step.at
  BY <1>4, MadeSteps, One DEF Placed
<1> HIDE DEF a, b
<1>12. \A n \in 1 .. Len(ids) : /\ BeginStep(ids[n], Step.at, to).do = "Begin"
                                /\ BeginStep(ids[n], Step.at, to).id = ids[n]
                                /\ BeginStep(ids[n], Step.at, to).from = Step.at
                                /\ BeginStep(ids[n], Step.at, to).to = to
  BY <1>4, <1>8, <1>9, BeginFields
<1>13. \A x \in Elems(a) : x.do \in {"Recover", "Moved", "Begin"} BY <1>10, <1>12
<1>14. \A x \in {"Recover", "Moved", "Begin"} : Precedes(x, "TakeKeys") BY Ranks DEF Precedes
<1>15. \A x \in Elems(a), y \in Elems(b) : Precedes(x.do, y.do) BY <1>11, <1>13, <1>14
<1>16. a # <<>> => Follows(a[Len(a)], b[1])
  <2>1. SUFFICES ASSUME a # <<>> PROVE Follows(a[Len(a)], b[1]) OBVIOUS
  <2>2. Len(a) \in 1 .. Len(a) BY <2>1, <1>10
  <2>3. a[Len(a)] \in Elems(a) BY <2>2 DEF Elems
  <2> QED BY <2>3, <1>11, <1>13 DEF Follows
<1>17. /\ more \in Seq(StepSet) /\ Ordered(more) /\ Elems(more) = Elems(a) \cup Elems(b)
       /\ more # <<>> /\ (a # <<>> => more[1] = a[1]) /\ (a = <<>> => more = b)
       /\ more[Len(more)] = b[Len(b)]
  BY <1>10, <1>11, <1>15, <1>16, Join
<1> HIDE DEF more
<1>18. ASSUME NEW x \in Elems(more), NEW y \in Todo, NEW z \in Todo, Follows(Step, z),
              y = z \/ Precedes(z.do, y.do)
       PROVE  Precedes(x.do, y.do)
  <2>1. z.do = "HandOn" BY <1>1, <1>18 DEF Follows
  <2>2. Rank(y.do) \in 1 .. 39 BY <1>3, RankNat
  <2>3. y.do = "HandOn" \/ Precedes("HandOn", y.do) BY <1>18, <2>1
  <2>4. \A c \in {"Recover", "Moved", "Begin", "TakeKeys"} : Precedes(c, y.do)
    BY <2>2, <2>3, Ranks DEF Precedes, Repeated
  <2>5. x.do \in {"Recover", "Moved", "Begin", "TakeKeys"} BY <1>11, <1>13, <1>17
  <2> QED BY <2>4, <2>5
<1>19. \A y \in Todo : Follows(Step, y) => Follows(more[Len(more)], y) BY <1>1, <1>11, <1>17 DEF Follows
<1>20. Shape' /\ Spliced(Elems(more), more[1]) BY <1>1, <1>5, <1>17, <1>18, <1>19, SpliceBefore
<1>21. more[1].do \in {"Recover", "TakeKeys"} BY <1>10, <1>11, <1>17
<1>22. \A x \in Elems(more) : \/ x.do \in {"Recover", "Moved"}
                              \/ x.do = "TakeKeys" /\ x.at = Step.at
                              \/ x.do = "Begin" /\ x.from = Step.at /\ x.to = to
  BY <1>10, <1>11, <1>12, <1>17
<1>23. \A i \in Id : Live(Step.at, i) => \E x \in Elems(more) : x.do = "Begin" /\ x.id = i
  <2>1. SUFFICES ASSUME NEW i \in S PROVE \E x \in Elems(more) : x.do = "Begin" /\ x.id = i OBVIOUS
  <2>2. PICK n \in 1 .. Len(ids) : ids[n] = i BY <1>7
  <2>3. BeginStep(ids[n], Step.at, to) \in Elems(more) BY <1>10, <1>17
  <2> QED BY <2>2, <2>3, <1>12
<1> QED BY <1>20, <1>21, <1>22, <1>23 DEF to

\* No steps.
LEMMA Nil == <<>> \in Seq(StepSet) /\ Ordered(<<>>) /\ Elems(<<>>) = {}
<1>1. <<>> \in Seq(StepSet) /\ Len(<<>>) = 0 OBVIOUS
<1>2. 1 .. 0 = {} OBVIOUS
<1> DEFINE t == <<>>
<1>3. t \in Seq(StepSet) /\ Len(t) = 0 BY <1>1
<1> HIDE DEF t
<1>4. Elems(t) = {} /\ Ordered(t) BY <1>2, <1>3 DEF Elems, Ordered
<1> QED BY <1>1, <1>4 DEF t

\* The order of the steps of the operations that start.
LEMMA StartOrder ==
  /\ \A a \in Names : a \notin Ending => Precedes(a, "Done")
  /\ Precedes("TakeRunning", "TakeRunning")
  /\ \A y \in {"Personal", "StageMain", "Stage", "Swap", "Settle"} : Precedes("TakeRunning", y)
<1>1. \A a \in Plain : a \notin Ending => Precedes(a, "Done") BY Ranks DEF Precedes, Plain, Ending
<1>2. \A a \in Placed : Precedes(a, "Done") BY Ranks DEF Precedes, Placed
<1>3. \A a \in Dropped \cup {"Begin", "Note", "Import", "Stage"} : Precedes(a, "Done") BY Ranks DEF Precedes, Dropped
<1>4. \A a \in Names : a \notin Ending => Precedes(a, "Done") BY <1>1, <1>2, <1>3 DEF Names
<1>5. Precedes("TakeRunning", "TakeRunning") BY Ranks DEF Precedes, Repeated
<1>6. \A y \in {"Personal", "StageMain", "Stage", "Swap", "Settle"} : Precedes("TakeRunning", y)
  BY Ranks DEF Precedes
<1> QED BY <1>4, <1>5, <1>6

\* The order of the steps of a removal.
LEMMA RemoveOrder ==
  /\ Precedes("Hold", "TakeRunning") /\ Precedes("Leave", "TakeHosts")
  /\ \A x \in {"Hold", "TakeRunning"}, y \in {"Leave", "TakeHosts"} : Precedes(x, y)
  /\ \A x \in {"Hold", "TakeRunning", "Leave", "TakeHosts"},
        y \in {"HandOn", "Unregister", "RemoveFiles", "Retire"} : Precedes(x, y)
  /\ Precedes("HandOn", "Unregister") /\ Precedes("HandOn", "RemoveFiles") /\ Precedes("HandOn", "Retire")
  /\ Precedes("Unregister", "RemoveFiles") /\ Precedes("Unregister", "Retire") /\ Precedes("RemoveFiles", "Retire")
<1>1. /\ Precedes("Hold", "TakeRunning") /\ Precedes("Leave", "TakeHosts")
      /\ \A x \in {"Hold", "TakeRunning"}, y \in {"Leave", "TakeHosts"} : Precedes(x, y)
  BY Ranks DEF Precedes
<1>2. \A x \in {"Hold", "TakeRunning", "Leave", "TakeHosts"},
         y \in {"HandOn", "Unregister", "RemoveFiles", "Retire"} : Precedes(x, y)
  BY Ranks DEF Precedes
<1>3. /\ Precedes("HandOn", "Unregister") /\ Precedes("HandOn", "RemoveFiles") /\ Precedes("HandOn", "Retire")
      /\ Precedes("Unregister", "RemoveFiles") /\ Precedes("Unregister", "Retire") /\ Precedes("RemoveFiles", "Retire")
  BY Ranks DEF Precedes
<1> QED BY <1>1, <1>2, <1>3

\* An operation that starts.
LEMMA StartList ==
  ASSUME NEW t \in Seq(StepSet), Ordered(t), t # <<>>, todo' = t \o <<Do("Done")>>,
         \A x \in Elems(t) : x.do \notin Ending \cup {"Note", "Import", "DropHost", "Swap", "TakeHosts", "HandOn",
                                                      "Unleave", "Mark", "Register", "Discard"}
                             \/ (x # t[Len(t)] /\ x.do \notin Ending)
  PROVE  Shape' /\ Fresh(Elems(t) \cup {Do("Done")}, t[1])
<1> DEFINE d == <<Do("Done")>>
           u == t \o d
<1>1. /\ d \in Seq(StepSet) /\ Ordered(d) /\ Elems(d) = {Do("Done")} /\ d # <<>>
      /\ d[1] = Do("Done") /\ d[Len(d)] = Do("Done") /\ Do("Done").do = "Done"
  BY MadeSteps, One DEF Plain
<1> HIDE DEF d
<1>2. \A x \in Elems(t) : x \in StepSet /\ x.do \in Names BY StepFields DEF Elems
<1>3. \A x \in Elems(t) : x.do \notin Ending OBVIOUS
<1>4. \A x \in Elems(t), y \in Elems(d) : Precedes(x.do, y.do) BY <1>1, <1>2, <1>3, StartOrder
<1>5. t[Len(t)] \in Elems(t)
  <2>1. Len(t) \in 1 .. Len(t) OBVIOUS
  <2> QED BY <2>1 DEF Elems
<1>6. Follows(t[Len(t)], d[1]) BY <1>1, <1>5 DEF Follows
<1>7. /\ u \in Seq(StepSet) /\ Ordered(u) /\ Elems(u) = Elems(t) \cup Elems(d)
      /\ u # <<>> /\ u[1] = t[1] /\ u[Len(u)] = d[Len(d)]
  BY <1>1, <1>4, <1>6, Join
<1>8. todo' = u BY DEF d
<1> HIDE DEF u
<1>9. u[Len(u)].do \in Ending BY <1>1, <1>7 DEF Ending
<1>10. Shape' /\ Fresh(Elems(u), u[1]) BY <1>7, <1>8, <1>9, FreshStep
<1> QED BY <1>1, <1>7, <1>10

\* The steps of move_host.
LEMMA MoveList ==
  ASSUME NEW i \in Id, NEW s \in Space, NEW to \in Space, todo' = Moving(i, s, to) \o <<Do("Done")>>
  PROVE  Shape' /\ Fresh({Do("Recover"), BeginStep(i, s, to), Do("Done")}, Do("Recover"))
<1> DEFINE t == <<Do("Recover"), BeginStep(i, s, to)>>
<1>1. /\ Do("Recover") \in StepSet /\ Do("Recover").do = "Recover"
      /\ BeginStep(i, s, to) \in StepSet /\ BeginStep(i, s, to).do = "Begin"
  BY MadeSteps, BeginFields DEF Plain
<1>2. Precedes("Recover", "Begin") BY TakeOrder
<1>3. Follows(Do("Recover"), BeginStep(i, s, to)) BY <1>1 DEF Follows
<1>4. /\ t \in Seq(StepSet) /\ Ordered(t) /\ Elems(t) = {Do("Recover"), BeginStep(i, s, to)} /\ t # <<>>
      /\ t[1] = Do("Recover")
  BY <1>1, <1>2, <1>3, Two
<1>5. todo' = t \o <<Do("Done")>> BY DEF Moving, BeginStep
<1> HIDE DEF t
<1>6. Shape' /\ Fresh(Elems(t) \cup {Do("Done")}, t[1]) BY <1>1, <1>4, <1>5, StartList DEF Ending
<1>7. Elems(t) \cup {Do("Done")} = {Do("Recover"), BeginStep(i, s, to), Do("Done")} BY <1>4
<1> QED BY <1>4, <1>6, <1>7

\* The steps of make_main, with the passes of both servers waited for.
LEMMA MainList ==
  ASSUME mem \in Registry, RegOK(mem), NEW s \in mem.entries \ {mem.main},
         todo' = (<<DoIn("TakeRunning", mem.main), DoIn("TakeRunning", s)>> \o Swapping(s)) \o <<Do("Done")>>
  PROVE  Shape' /\ Fresh({DoIn("TakeRunning", mem.main), DoIn("TakeRunning", s), Do("Done")} \cup SwapSteps(s),
                         DoIn("TakeRunning", mem.main))
<1>1. s \in Space /\ mem.main \in Space BY EntriesOf
<1> DEFINE p == DoIn("TakeRunning", mem.main)
           q == DoIn("TakeRunning", s)
           a == <<p, q>>
           b == Swapping(s)
           t == a \o b
<1>2. p \in StepSet /\ p.do = "TakeRunning" /\ q \in StepSet /\ q.do = "TakeRunning"
  BY <1>1, MadeSteps DEF Placed
<1> HIDE DEF p, q
<1>3. Precedes("TakeRunning", "TakeRunning") BY StartOrder
<1>4. \A y \in {"Personal", "StageMain", "Stage", "Swap", "Settle"} : Precedes("TakeRunning", y) BY StartOrder
<1>5. Follows(p, q) BY <1>2 DEF Follows
<1>6. a \in Seq(StepSet) /\ Ordered(a) /\ Elems(a) = {p, q} /\ a # <<>> /\ a[1] = p /\ a[Len(a)] = q
  BY <1>2, <1>3, <1>5, Two
<1>7. /\ b \in Seq(StepSet) /\ Ordered(b) /\ Elems(b) = SwapSteps(s) /\ b # <<>>
      /\ b[1] = DoIn("Personal", s) /\ b[Len(b)] = Do("Settle")
  BY SwapList
<1>8. todo' = t \o <<Do("Done")>> BY DEF p, q
<1> HIDE DEF a, b
<1>9. \A x \in SwapSteps(s) : x.do \in {"Personal", "StageMain", "Stage", "Swap", "Settle"}
  BY <1>1, SwapStepFields
<1>10. DoIn("Personal", s) \in SwapSteps(s) /\ DoIn("Personal", s).do = "Personal" /\ Do("Settle").do = "Settle"
  BY <1>1, MadeSteps DEF SwapSteps, Placed, Plain
<1>11. \A x \in Elems(a), y \in Elems(b) : Precedes(x.do, y.do) BY <1>2, <1>4, <1>6, <1>7, <1>9
<1>12. Follows(a[Len(a)], b[1]) BY <1>2, <1>6, <1>7, <1>10 DEF Follows
<1>13. /\ t \in Seq(StepSet) /\ Ordered(t) /\ Elems(t) = Elems(a) \cup Elems(b)
       /\ t # <<>> /\ t[1] = p /\ t[Len(t)] = Do("Settle")
  BY <1>6, <1>7, <1>11, <1>12, Join
<1> HIDE DEF t
<1>14. \A x \in Elems(t) : x.do \notin Ending /\ (x = t[Len(t)] => x.do = "Settle")
  BY <1>2, <1>6, <1>7, <1>9, <1>10, <1>13 DEF Ending
<1>15. Shape' /\ Fresh(Elems(t) \cup {Do("Done")}, t[1]) BY <1>8, <1>13, <1>14, StartList DEF Ending
<1>16. Elems(t) \cup {Do("Done")} = {p, q, Do("Done")} \cup SwapSteps(s) BY <1>6, <1>7, <1>13
<1> QED BY <1>13, <1>15, <1>16 DEF p, q

\* The steps of a removal.
RemoveSteps(s, keep) ==
  {DoIn("Hold", s), DoIn("TakeRunning", s), DoIn("HandOn", s), DoIn("Unregister", s), DoIn("RemoveFiles", s),
   DoIn("Retire", s), Do("Done")}
  \cup IF keep THEN {DoIn("Leave", s), DoIn("TakeHosts", s)} ELSE {}

\* The steps of remove, with and without taking the hosts.
LEMMA RemoveList ==
  ASSUME NEW s \in Space, NEW keep \in BOOLEAN,
         todo' = (<<DoIn("Hold", s), DoIn("TakeRunning", s)>>
                  \o (IF keep THEN <<DoIn("Leave", s), DoIn("TakeHosts", s)>> ELSE <<>>)
                  \o <<DoIn("HandOn", s), DoIn("Unregister", s), DoIn("RemoveFiles", s),
                       DoIn("Retire", s)>>) \o <<Do("Done")>>
  PROVE  Shape' /\ Fresh(RemoveSteps(s, keep), DoIn("Hold", s))
<1> DEFINE x1 == DoIn("Hold", s)
           x2 == DoIn("TakeRunning", s)
           x3 == DoIn("Leave", s)
           x4 == DoIn("TakeHosts", s)
           x5 == DoIn("HandOn", s)
           x6 == DoIn("Unregister", s)
           x7 == DoIn("RemoveFiles", s)
           x8 == DoIn("Retire", s)
           a == <<x1, x2>>
           b == IF keep THEN <<x3, x4>> ELSE <<>>
           c == <<x5, x6, x7, x8>>
           ab == a \o b
           t == ab \o c
<1>1. /\ x1 \in StepSet /\ x1.do = "Hold" /\ x2 \in StepSet /\ x2.do = "TakeRunning"
      /\ x3 \in StepSet /\ x3.do = "Leave" /\ x4 \in StepSet /\ x4.do = "TakeHosts"
      /\ x5 \in StepSet /\ x5.do = "HandOn" /\ x6 \in StepSet /\ x6.do = "Unregister"
      /\ x7 \in StepSet /\ x7.do = "RemoveFiles" /\ x8 \in StepSet /\ x8.do = "Retire"
  BY MadeSteps DEF Placed
<1>2. todo' = t \o <<Do("Done")>> OBVIOUS
<1>3. RemoveSteps(s, keep) = {x1, x2, x5, x6, x7, x8, Do("Done")} \cup IF keep THEN {x3, x4} ELSE {}
  BY DEF RemoveSteps
<1> HIDE DEF x1, x2, x3, x4, x5, x6, x7, x8
<1>4. /\ Precedes("Hold", "TakeRunning") /\ Precedes("Leave", "TakeHosts")
      /\ \A x \in {"Hold", "TakeRunning"}, y \in {"Leave", "TakeHosts"} : Precedes(x, y)
  BY RemoveOrder
<1>5. \A x \in {"Hold", "TakeRunning", "Leave", "TakeHosts"},
         y \in {"HandOn", "Unregister", "RemoveFiles", "Retire"} : Precedes(x, y)
  BY RemoveOrder
<1>6. /\ Precedes("HandOn", "Unregister") /\ Precedes("HandOn", "RemoveFiles") /\ Precedes("HandOn", "Retire")
      /\ Precedes("Unregister", "RemoveFiles") /\ Precedes("Unregister", "Retire") /\ Precedes("RemoveFiles", "Retire")
  BY RemoveOrder
<1>7. /\ Follows(x1, x2) /\ Follows(x2, x3) /\ Follows(x3, x4) /\ Follows(x2, x5) /\ Follows(x4, x5)
      /\ Follows(x5, x6) /\ Follows(x6, x7) /\ Follows(x7, x8)
  BY <1>1 DEF Follows
<1>8. a \in Seq(StepSet) /\ Ordered(a) /\ Elems(a) = {x1, x2} /\ a # <<>> /\ a[1] = x1 /\ a[Len(a)] = x2
  BY <1>1, <1>4, <1>7, Two
<1>9. /\ b \in Seq(StepSet) /\ Ordered(b) /\ Elems(b) = (IF keep THEN {x3, x4} ELSE {})
      /\ keep => b # <<>> /\ b[1] = x3 /\ b[Len(b)] = x4
      /\ ~keep => b = <<>>
  <2>1. CASE keep
    <3>1. b = <<x3, x4>> BY <2>1
    <3> QED BY <1>1, <1>4, <1>7, <2>1, <3>1, Two
  <2>2. CASE ~keep
    <3>1. b = <<>> BY <2>2
    <3> QED BY <2>2, <3>1, Nil
  <2> QED BY <2>1, <2>2
<1>10. /\ c \in Seq(StepSet) /\ Ordered(c) /\ Elems(c) = {x5, x6, x7, x8} /\ c # <<>>
       /\ c[1] = x5 /\ c[Len(c)] = x8
  <2>1. FourSteps(x5, x6, x7, x8) BY <1>1, <1>6, <1>7 DEF FourSteps
  <2> QED BY <2>1, Four
<1> HIDE DEF a, b, c
<1>11. \A x \in Elems(a), y \in Elems(b) : Precedes(x.do, y.do) BY <1>1, <1>4, <1>8, <1>9
<1>12. a # <<>> /\ b # <<>> => Follows(a[Len(a)], b[1]) BY <1>7, <1>8, <1>9
<1>13. /\ ab \in Seq(StepSet) /\ Ordered(ab) /\ Elems(ab) = Elems(a) \cup Elems(b) /\ ab # <<>> /\ ab[1] = x1
       /\ (b = <<>> => ab = a) /\ (b # <<>> => ab[Len(ab)] = b[Len(b)])
  BY <1>8, <1>9, <1>11, <1>12, Join
<1> HIDE DEF ab
<1>14. ab[Len(ab)] = (IF keep THEN x4 ELSE x2) BY <1>8, <1>9, <1>13
<1>15. \A x \in Elems(ab) : x.do \in {"Hold", "TakeRunning", "Leave", "TakeHosts"} BY <1>1, <1>8, <1>9, <1>13
<1>16. \A y \in Elems(c) : y.do \in {"HandOn", "Unregister", "RemoveFiles", "Retire"} BY <1>1, <1>10
<1>17. \A x \in Elems(ab), y \in Elems(c) : Precedes(x.do, y.do) BY <1>5, <1>15, <1>16
<1>18. Follows(ab[Len(ab)], c[1]) BY <1>7, <1>10, <1>14
<1>19. /\ t \in Seq(StepSet) /\ Ordered(t) /\ Elems(t) = Elems(ab) \cup Elems(c)
       /\ t # <<>> /\ t[1] = x1 /\ t[Len(t)] = x8
  BY <1>10, <1>13, <1>17, <1>18, Join
<1> HIDE DEF t
<1>20. \A x \in Elems(t) : x.do \notin Ending /\ (x = t[Len(t)] => x.do = "Retire")
  BY <1>1, <1>15, <1>16, <1>19 DEF Ending
<1>21. Shape' /\ Fresh(Elems(t) \cup {Do("Done")}, t[1]) BY <1>2, <1>19, <1>20, StartList DEF Ending
<1>22. Elems(t) \cup {Do("Done")} = RemoveSteps(s, keep) BY <1>3, <1>8, <1>9, <1>10, <1>13, <1>19
<1> QED BY <1>19, <1>21, <1>22 DEF x1

\* Setting a second server up, or giving it up.
LEMMA SetupOrder ==
  /\ Precedes("Mark", "MakeFile") /\ Precedes("Discard", "Unmark") /\ Precedes("Register", "Unmark")
  /\ Precedes("Register", "Reseal") /\ Precedes("Unmark", "Reseal")
  /\ Precedes("Discard", "Failed") /\ Precedes("Unmark", "Failed")
  /\ Precedes("Settle", "Recover") /\ Precedes("Settle", "Ready") /\ Precedes("Recover", "Ready")
BY Ranks DEF Precedes

\* The steps of add.
LEMMA AddList ==
  ASSUME NEW s \in Space, todo' = <<DoIn("Mark", s), DoIn("MakeFile", s)>> \o <<Do("Done")>>
  PROVE  Shape' /\ Fresh({DoIn("Mark", s), DoIn("MakeFile", s), Do("Done")}, DoIn("Mark", s))
<1> DEFINE a == DoIn("Mark", s)
           b == DoIn("MakeFile", s)
           t == <<a, b>>
<1>1. /\ a \in StepSet /\ a.do = "Mark" /\ a.at = s
      /\ b \in StepSet /\ b.do = "MakeFile" /\ b.at = s
  BY MadeSteps DEF Placed
<1>2. todo' = t \o <<Do("Done")>> OBVIOUS
<1> HIDE DEF a, b
<1>3. Precedes(a.do, b.do) /\ Follows(a, b) BY <1>1, SetupOrder DEF Follows
<1>4. t \in Seq(StepSet) /\ Ordered(t) /\ Elems(t) = {a, b} /\ t # <<>> /\ t[1] = a /\ t[Len(t)] = b
  BY <1>1, <1>3, Two
<1> HIDE DEF t
<1>5. \A x \in Elems(t) : x.do \notin Ending /\ (x = t[Len(t)] => x.do = "MakeFile") BY <1>1, <1>4 DEF Ending
<1>6. Shape' /\ Fresh(Elems(t) \cup {Do("Done")}, t[1]) BY <1>2, <1>4, <1>5, StartList DEF Ending
<1>7. Elems(t) \cup {Do("Done")} = {a, b, Do("Done")} BY <1>4
<1> QED BY <1>4, <1>6, <1>7 DEF a, b

\* The steps of adopt.
LEMMA AdoptList ==
  ASSUME NEW s \in Space, todo' = <<DoIn("Register", s), DoIn("Unmark", s), DoIn("Reseal", s)>> \o <<Do("Done")>>
  PROVE  Shape' /\ Fresh({DoIn("Register", s), DoIn("Unmark", s), DoIn("Reseal", s), Do("Done")}, DoIn("Register", s))
<1> DEFINE a == DoIn("Register", s)
           b == DoIn("Unmark", s)
           c == DoIn("Reseal", s)
           t == <<a, b, c>>
<1>1. /\ a \in StepSet /\ a.do = "Register" /\ a.at = s
      /\ b \in StepSet /\ b.do = "Unmark" /\ b.at = s
      /\ c \in StepSet /\ c.do = "Reseal"
  BY MadeSteps DEF Placed
<1>2. todo' = t \o <<Do("Done")>> OBVIOUS
<1> HIDE DEF a, b, c
<1>3. /\ Precedes(a.do, b.do) /\ Precedes(a.do, c.do) /\ Precedes(b.do, c.do)
      /\ Follows(a, b) /\ Follows(b, c)
  BY <1>1, SetupOrder DEF Follows
<1>4. t \in Seq(StepSet) /\ Ordered(t) /\ Elems(t) = {a, b, c} /\ t # <<>> /\ t[1] = a /\ t[Len(t)] = c
  BY <1>1, <1>3, Three
<1> HIDE DEF t
<1>5. \A x \in Elems(t) : x.do \notin Ending /\ (x = t[Len(t)] => x.do = "Reseal") BY <1>1, <1>4 DEF Ending
<1>6. Shape' /\ Fresh(Elems(t) \cup {Do("Done")}, t[1]) BY <1>2, <1>4, <1>5, StartList DEF Ending
<1>7. Elems(t) \cup {Do("Done")} = {a, b, c, Do("Done")} BY <1>4
<1> QED BY <1>4, <1>6, <1>7 DEF a, b, c

\* The steps of discard.
LEMMA DiscardList ==
  ASSUME NEW s \in Space, todo' = <<DoIn("Discard", s), DoIn("Unmark", s)>> \o <<Do("Done")>>
  PROVE  Shape' /\ Fresh({DoIn("Discard", s), DoIn("Unmark", s), Do("Done")}, DoIn("Discard", s))
<1> DEFINE a == DoIn("Discard", s)
           b == DoIn("Unmark", s)
           t == <<a, b>>
<1>1. /\ a \in StepSet /\ a.do = "Discard" /\ a.at = s
      /\ b \in StepSet /\ b.do = "Unmark" /\ b.at = s
  BY MadeSteps DEF Placed
<1>2. todo' = t \o <<Do("Done")>> OBVIOUS
<1> HIDE DEF a, b
<1>3. Precedes(a.do, b.do) /\ Follows(a, b) BY <1>1, SetupOrder DEF Follows
<1>4. t \in Seq(StepSet) /\ Ordered(t) /\ Elems(t) = {a, b} /\ t # <<>> /\ t[1] = a /\ t[Len(t)] = b
  BY <1>1, <1>3, Two
<1> HIDE DEF t
<1>5. \A x \in Elems(t) : x.do \notin Ending /\ (x = t[Len(t)] => x.do = "Unmark") BY <1>1, <1>4 DEF Ending
<1>6. Shape' /\ Fresh(Elems(t) \cup {Do("Done")}, t[1]) BY <1>2, <1>4, <1>5, StartList DEF Ending
<1>7. Elems(t) \cup {Do("Done")} = {a, b, Do("Done")} BY <1>4
<1> QED BY <1>4, <1>6, <1>7 DEF a, b

\* Giving it up after the registry could not be written.
LEMMA GiveUpList ==
  ASSUME NEW s \in Space, todo' = <<DoIn("Discard", s), DoIn("Unmark", s), Do("Failed")>>
  PROVE  Shape' /\ Fresh({DoIn("Discard", s), DoIn("Unmark", s), Do("Failed")}, DoIn("Discard", s))
<1> DEFINE a == DoIn("Discard", s)
           b == DoIn("Unmark", s)
           c == Do("Failed")
           t == <<a, b, c>>
<1>1. /\ a \in StepSet /\ a.do = "Discard" /\ a.at = s
      /\ b \in StepSet /\ b.do = "Unmark" /\ b.at = s
      /\ c \in StepSet /\ c.do = "Failed"
  BY MadeSteps DEF Placed, Plain
<1>2. todo' = t OBVIOUS
<1> HIDE DEF a, b, c
<1>3. /\ Precedes(a.do, b.do) /\ Precedes(a.do, c.do) /\ Precedes(b.do, c.do)
      /\ Follows(a, b) /\ Follows(b, c)
  BY <1>1, SetupOrder DEF Follows
<1>4. t \in Seq(StepSet) /\ Ordered(t) /\ Elems(t) = {a, b, c} /\ t # <<>> /\ t[1] = a /\ t[Len(t)] = c
  BY <1>1, <1>3, Three
<1> HIDE DEF t
<1>5. t[Len(t)].do \in Ending BY <1>1, <1>4 DEF Ending
<1>6. Shape' /\ Fresh(Elems(t), t[1]) BY <1>2, <1>4, <1>5, FreshStep
<1> QED BY <1>4, <1>6 DEF a, b, c

\* What a start has to do.
LEMMA OpenList ==
  ASSUME todo' = <<Do("Settle"), Do("Recover"), Do("Ready")>>
  PROVE  Shape' /\ Fresh({Do("Settle"), Do("Recover"), Do("Ready")}, Do("Settle"))
<1> DEFINE a == Do("Settle")
           b == Do("Recover")
           c == Do("Ready")
           t == <<a, b, c>>
<1>1. /\ a \in StepSet /\ a.do = "Settle" /\ b \in StepSet /\ b.do = "Recover"
      /\ c \in StepSet /\ c.do = "Ready"
  BY MadeSteps DEF Plain
<1>2. todo' = t OBVIOUS
<1> HIDE DEF a, b, c
<1>3. /\ Precedes(a.do, b.do) /\ Precedes(a.do, c.do) /\ Precedes(b.do, c.do)
      /\ Follows(a, b) /\ Follows(b, c)
  BY <1>1, SetupOrder DEF Follows
<1>4. t \in Seq(StepSet) /\ Ordered(t) /\ Elems(t) = {a, b, c} /\ t # <<>> /\ t[1] = a /\ t[Len(t)] = c
  BY <1>1, <1>3, Three
<1> HIDE DEF t
<1>5. t[Len(t)].do \in Ending BY <1>1, <1>4 DEF Ending
<1>6. Shape' /\ Fresh(Elems(t), t[1]) BY <1>2, <1>4, <1>5, FreshStep
<1> QED BY <1>4, <1>6 DEF a, b, c

\* After a crash the program has to be opened.
LEMMA CrashList ==
  ASSUME todo' = <<Do("Open")>>
  PROVE  Shape' /\ Fresh({Do("Open")}, Do("Open"))
<1> DEFINE a == Do("Open")
           t == <<a>>
<1>1. a \in StepSet /\ a.do = "Open" BY MadeSteps DEF Plain
<1> HIDE DEF a
<1>2. t \in Seq(StepSet) /\ Ordered(t) /\ Elems(t) = {a} /\ t # <<>> /\ t[1] = a /\ Len(t) = 1
  BY <1>1, One
<1>3. todo' = t BY DEF a
<1> HIDE DEF t
<1>4. t[Len(t)].do \in Ending BY <1>1, <1>2 DEF Ending
<1>5. Shape' /\ Fresh(Elems(t), t[1]) BY <1>2, <1>3, <1>4, FreshStep
<1> QED BY <1>2, <1>5 DEF a

\* Nothing is left to do.
LEMMA EmptyList ==
  ASSUME todo' = <<>>
  PROVE  Shape' /\ Todo' = {}
<1> QED BY Nil DEF Shape, ShapeOf, Todo

------------------------------------------------------------------------------
(* What the transactions do to a store                                      *)

SameRows(st, nt)  == nt.host = st.host /\ nt.uses = st.uses /\ nt.key = st.key /\ nt.known = st.known
SameSeals(st, nt) == nt.kept = st.kept /\ nt.staged = st.staged

\* The parts of a store.
LEMMA StoreFields ==
  ASSUME NEW st \in StoreSet
  PROVE  /\ st.host \in [Id -> State] /\ st.uses \in [Id -> {0} \cup Gen] /\ st.key \in [Gen -> State]
         /\ st.known \in BOOLEAN /\ st.doc \in [val : 0 .. MaxOps, at : Nat]
         /\ st.doc.val \in 0 .. MaxOps /\ st.doc.at \in Nat
         /\ st.kept \in Seal /\ st.staged \in Seal \cup {"nothing", "forget"}
BY DEF StoreSet

\* One store is replaced.
LEMMA OneStore ==
  ASSUME store \in [Space -> StoreSet], NEW s \in Space, NEW st \in StoreSet, SetStore(s, st)
  PROVE  /\ store' \in [Space -> StoreSet] /\ store'[s] = st
         /\ \A t \in Space : t # s => store'[t] = store[t]
BY DEF SetStore

\* The id a key has after it was imported.
LEMMA KeyHereIn ==
  ASSUME NEW st \in StoreSet, NEW g \in Gen, FreshKeys # {} \/ st.key[g] # "dead"
  PROVE  /\ KeyHere(st, g) \in Gen
         /\ st.key[KeyHere(st, g)] = "live" \/ KeyHere(st, g) = g \/ KeyHere(st, g) \in FreshKeys
<1>1. Gen \subseteq Nat BY SpacesAssumption DEF Gen
<1>2. st.key[g] \in State BY StoreFields
<1> DEFINE twins == {k \in Gen : st.key[k] = "live"}
<1>3. CASE st.key[g] # "dead" BY <1>2, <1>3 DEF KeyHere, State
<1>4. CASE st.key[g] = "dead" /\ twins # {}
  <2>1. twins \in SUBSET Nat BY <1>1
  <2>2. Least(twins) \in twins BY <1>4, <2>1, LeastIn
  <2>3. KeyHere(st, g) = Least(twins) BY <1>4 DEF KeyHere
  <2> QED BY <2>2, <2>3
<1>5. CASE st.key[g] = "dead" /\ twins = {}
  <2>1. FreshKeys # {} /\ FreshKeys \in SUBSET Nat /\ FreshKeys \subseteq Gen BY <1>1, <1>5 DEF FreshKeys
  <2>2. Least(FreshKeys) \in FreshKeys BY <2>1, LeastIn
  <2>3. KeyHere(st, g) = Least(FreshKeys) BY <1>5 DEF KeyHere
  <2> QED BY <2>1, <2>2, <2>3
<1> QED BY <1>2, <1>3, <1>4, <1>5

\* import_moved_host brings the key under an id of its own and changes nothing else.
LEMMA ImportKeyIs ==
  ASSUME NEW st \in StoreSet, NEW g \in {0} \cup Gen, g # 0 => FreshKeys # {} \/ st.key[g] # "dead"
  PROVE  /\ ImportKey(st, g) \in StoreSet
         /\ ImportKey(st, g).host = st.host /\ ImportKey(st, g).uses = st.uses
         /\ ImportKey(st, g).known = st.known /\ ImportKey(st, g).doc = st.doc
         /\ SameSeals(st, ImportKey(st, g))
         /\ g = 0 => ImportKey(st, g).key = st.key
         /\ g # 0 => ImportKey(st, g).key = [st.key EXCEPT ![KeyHere(st, g)] = "live"]
<1>1. CASE g = 0 BY <1>1 DEF ImportKey, SameSeals
<1>2. CASE g # 0
  <2>1. KeyHere(st, g) \in Gen BY <1>2, KeyHereIn
  <2>2. ImportKey(st, g) = [st EXCEPT !.key[KeyHere(st, g)] = "live"] BY <1>2 DEF ImportKey
  <2>3. [st.key EXCEPT ![KeyHere(st, g)] = "live"] \in [Gen -> State] BY <2>1, StoreFields DEF State
  <2>4. ImportKey(st, g) = [st EXCEPT !.key = [st.key EXCEPT ![KeyHere(st, g)] = "live"]] BY <2>2
  <2> QED BY <1>2, <2>3, <2>4 DEF StoreSet, SameSeals
<1> QED BY <1>1, <1>2

\* import_moved_host: the host is live, with its key and its host key.
LEMMA ImportHostIs ==
  ASSUME NEW st \in StoreSet, NEW i \in Id, NEW m \in Luggage,
         m.key # 0 => FreshKeys # {} \/ st.key[m.key] # "dead"
  PROVE  LET nt == ImportHost(st, i, m) IN
         /\ nt \in StoreSet
         /\ nt.host = [st.host EXCEPT ![i] = "live"]
         /\ nt.uses = [st.uses EXCEPT ![i] = IF m.key = 0 THEN 0 ELSE KeyHere(st, m.key)]
         /\ nt.key = IF m.key = 0 THEN st.key ELSE [st.key EXCEPT ![KeyHere(st, m.key)] = "live"]
         /\ nt.known = (st.known \/ m.known)
         /\ nt.doc = st.doc /\ SameSeals(st, nt)
<1> DEFINE kt == ImportKey(st, m.key)
           u  == IF m.key = 0 THEN 0 ELSE KeyHere(st, m.key)
           nt == ImportHost(st, i, m)
<1>1. m.key \in {0} \cup Gen /\ m.known \in BOOLEAN BY DEF Luggage
<1>2. /\ kt \in StoreSet /\ kt.host = st.host /\ kt.uses = st.uses /\ kt.known = st.known /\ kt.doc = st.doc
      /\ SameSeals(st, kt)
      /\ kt.key = IF m.key = 0 THEN st.key ELSE [st.key EXCEPT ![KeyHere(st, m.key)] = "live"]
  BY <1>1, ImportKeyIs
<1>3. u \in {0} \cup Gen BY <1>1, KeyHereIn
<1>4. nt = [kt EXCEPT !.host[i] = "live", !.uses[i] = u, !.known = st.known \/ m.known] BY DEF ImportHost
<1> HIDE DEF kt, u, nt
<1>5. /\ [kt.host EXCEPT ![i] = "live"] \in [Id -> State]
      /\ [kt.uses EXCEPT ![i] = u] \in [Id -> {0} \cup Gen]
      /\ (st.known \/ m.known) \in BOOLEAN
  BY <1>2, <1>3, StoreFields DEF State
<1>6. nt = [kt EXCEPT !.host = [kt.host EXCEPT ![i] = "live"], !.uses = [kt.uses EXCEPT ![i] = u],
                      !.known = st.known \/ m.known]
  BY <1>4, <1>2 DEF StoreSet
<1>7. /\ nt \in StoreSet /\ nt.host = [kt.host EXCEPT ![i] = "live"] /\ nt.uses = [kt.uses EXCEPT ![i] = u]
      /\ nt.known = (st.known \/ m.known) /\ nt.key = kt.key /\ nt.doc = kt.doc
      /\ nt.kept = kt.kept /\ nt.staged = kt.staged
  BY <1>2, <1>5, <1>6 DEF StoreSet
<1> QED BY <1>2, <1>7 DEF SameSeals, nt, u

\* drop_moved_host turns the host into a tombstone and nothing else.
LEMMA DropHostIs ==
  ASSUME NEW st \in StoreSet, NEW i \in Id
  PROVE  LET nt == DropHost(st, i) IN
         /\ nt \in StoreSet
         /\ nt.host = [st.host EXCEPT ![i] = IF @ = "live" THEN "dead" ELSE @]
         /\ nt.uses = st.uses /\ nt.key = st.key /\ nt.known = st.known
         /\ nt.doc = st.doc /\ SameSeals(st, nt)
<1>1. CASE st.host[i] = "live"
  <2>1. DropHost(st, i) = [st EXCEPT !.host = [st.host EXCEPT ![i] = "dead"]] BY <1>1 DEF DropHost
  <2>2. [st.host EXCEPT ![i] = "dead"] \in [Id -> State] BY StoreFields DEF State
  <2> QED BY <1>1, <2>1, <2>2, StoreFields DEF StoreSet, SameSeals
<1>2. CASE st.host[i] # "live" BY <1>2, StoreFields DEF DropHost, SameSeals
<1> QED BY <1>1, <1>2

\* drop_moved_host takes a key only when no live host uses it.
LEMMA DropKeyIs ==
  ASSUME NEW st \in StoreSet, NEW i \in Id
  PROVE  LET nt == DropKey(st, i) IN
         /\ nt \in StoreSet
         /\ nt.host = st.host /\ nt.uses = st.uses /\ nt.known = st.known
         /\ nt.doc = st.doc /\ SameSeals(st, nt)
         /\ \A g \in Gen : nt.key[g] =
              IF g = st.uses[i] /\ st.key[g] = "live" /\ ~\E k \in Id : st.host[k] = "live" /\ st.uses[k] = g
              THEN "dead" ELSE st.key[g]
<1> DEFINE g == st.uses[i]
           gone1 == g # 0 /\ st.key[g] = "live" /\ ~\E k \in Id : st.host[k] = "live" /\ st.uses[k] = g
<1>1. g \in {0} \cup Gen /\ 0 \notin Gen BY StoreFields DEF Gen
<1>2. CASE gone1
  <2>1. DropKey(st, i) = [st EXCEPT !.key = [st.key EXCEPT ![g] = "dead"]] BY <1>2 DEF DropKey
  <2>2. [st.key EXCEPT ![g] = "dead"] \in [Gen -> State] BY StoreFields DEF State
  <2> HIDE DEF g
  <2>3. /\ DropKey(st, i) \in StoreSet /\ DropKey(st, i).host = st.host /\ DropKey(st, i).uses = st.uses
        /\ DropKey(st, i).known = st.known /\ DropKey(st, i).doc = st.doc /\ SameSeals(st, DropKey(st, i))
        /\ DropKey(st, i).key = [st.key EXCEPT ![g] = "dead"]
    BY <2>1, <2>2 DEF StoreSet, SameSeals
  <2>4. \A k \in Gen : DropKey(st, i).key[k] = IF k = g THEN "dead" ELSE st.key[k] BY <2>3, StoreFields
  <2> QED BY <1>2, <2>3, <2>4 DEF g
<1>3. CASE ~gone1
  <2>1. DropKey(st, i) = st BY <1>3 DEF DropKey
  <2>2. \A k \in Gen : ~(k = g /\ st.key[k] = "live" /\ ~\E j \in Id : st.host[j] = "live" /\ st.uses[j] = k)
    BY <1>1, <1>3
  <2> QED BY <2>1, <2>2 DEF SameSeals
<1> QED BY <1>2, <1>3

\* drop_moved_host keeps the host key while a host needs it.
LEMMA DropKnownIs ==
  ASSUME NEW st \in StoreSet, NEW i \in Id
  PROVE  LET nt == DropKnown(st, i) IN
         /\ nt \in StoreSet
         /\ nt.host = st.host /\ nt.uses = st.uses /\ nt.key = st.key
         /\ nt.doc = st.doc /\ SameSeals(st, nt)
         /\ (\E k \in Id : st.host[k] = "live") => nt.known = st.known
<1>1. CASE \E k \in Id : st.host[k] = "live" BY <1>1 DEF DropKnown, SameSeals
<1>2. CASE ~\E k \in Id : st.host[k] = "live"
  <2>1. DropKnown(st, i) = [st EXCEPT !.known = FALSE] BY <1>2 DEF DropKnown
  <2> QED BY <1>2, <2>1 DEF StoreSet, SameSeals
<1> QED BY <1>1, <1>2

\* Keys that come along: none gets lost, and a new one is used by no host.
LEMMA ImportKeysIs ==
  ASSUME NEW st \in StoreSet, NEW G \in SUBSET Gen, G # {} => FreshKeys # {}
  PROVE  LET nt == ImportKeys(st, G) IN
         /\ nt \in StoreSet
         /\ nt.host = st.host /\ nt.uses = st.uses /\ nt.known = st.known
         /\ nt.doc = st.doc /\ SameSeals(st, nt)
         /\ \A g \in Gen : nt.key[g] = st.key[g]
                           \/ (nt.key[g] = "live" /\ (st.key[g] = "none" \/ g \in FreshKeys))
<1> DEFINE free == {g \in G : st.key[g] = "none"}
           K    == [g \in Gen |-> IF g \in free THEN "live" ELSE st.key[g]]
           some == [st EXCEPT !.key = K]
<1>0. Gen \subseteq Nat BY SpacesAssumption DEF Gen
<1>1. K \in [Gen -> State] /\ \A g \in Gen : K[g] = IF g \in free THEN "live" ELSE st.key[g]
  BY StoreFields DEF State
<1>2. /\ some \in StoreSet /\ some.host = st.host /\ some.uses = st.uses /\ some.known = st.known
      /\ some.doc = st.doc /\ SameSeals(st, some) /\ some.key = K
  <2> HIDE DEF K
  <2> QED BY <1>1 DEF StoreSet, SameSeals
<1>3. \A g \in Gen : K[g] = st.key[g] \/ (K[g] = "live" /\ st.key[g] = "none") BY <1>1
<1>4. CASE G \subseteq free
  <2>1. ImportKeys(st, G) = some BY <1>4 DEF ImportKeys
  <2> HIDE DEF some, K, free
  <2>2. \A g \in Gen : some.key[g] = st.key[g] \/ (some.key[g] = "live" /\ st.key[g] = "none") BY <1>2, <1>3
  <2> QED BY <1>2, <2>1, <2>2
<1>5. CASE ~(G \subseteq free)
  <2> DEFINE S == G \ free
             g == Least(S)
             h == KeyHere(some, g)
             nt == ImportKey(some, g)
  <2>1. S # {} /\ S \subseteq Gen /\ S \in SUBSET Nat BY <1>0, <1>5
  <2>2. g \in S BY <2>1, LeastIn
  <2>3. ImportKeys(st, G) = nt BY <1>5 DEF ImportKeys
  <2>4. FreshKeys # {} /\ g \in Gen /\ 0 \notin Gen BY <2>1, <2>2 DEF Gen
  <2> HIDE DEF some, K, S, g
  <2>5. h \in Gen /\ (some.key[h] = "live" \/ h = g \/ h \in FreshKeys) BY <1>2, <2>4, KeyHereIn
  <2>6. /\ nt \in StoreSet /\ nt.host = some.host /\ nt.uses = some.uses /\ nt.known = some.known
        /\ nt.doc = some.doc /\ SameSeals(some, nt) /\ nt.key = [some.key EXCEPT ![h] = "live"]
    BY <1>2, <2>4, ImportKeyIs
  <2>7. h = g => some.key[g] # "dead" \/ h \in FreshKeys
    <3>1. SUFFICES ASSUME h = g, some.key[g] = "dead" PROVE h \in FreshKeys OBVIOUS
    <3> DEFINE twins == {k \in Gen : some.key[k] = "live"}
    <3>2. CASE twins # {}
      <4>1. twins \in SUBSET Nat BY <1>0
      <4>2. Least(twins) \in twins BY <3>2, <4>1, LeastIn
      <4>3. h = Least(twins) BY <3>1, <3>2 DEF KeyHere
      <4> QED BY <3>1, <4>2, <4>3
    <3>3. CASE twins = {}
      <4>1. FreshKeys \in SUBSET Nat BY <1>0 DEF FreshKeys
      <4>2. Least(FreshKeys) \in FreshKeys BY <2>4, <4>1, LeastIn
      <4>3. h = Least(FreshKeys) BY <3>1, <3>3 DEF KeyHere
      <4> QED BY <4>2, <4>3
    <3> QED BY <3>2, <3>3
  <2>8. \A k \in Gen : nt.key[k] = IF k = h THEN "live" ELSE some.key[k] BY <1>1, <1>2, <2>5, <2>6
  <2>9. \A k \in Gen : nt.key[k] = st.key[k] \/ (nt.key[k] = "live" /\ (st.key[k] = "none" \/ k \in FreshKeys))
    <3>1. SUFFICES ASSUME NEW k \in Gen
                   PROVE  nt.key[k] = st.key[k] \/ (nt.key[k] = "live" /\ (st.key[k] = "none" \/ k \in FreshKeys))
      OBVIOUS
    <3>2. CASE k # h BY <1>2, <1>3, <2>8, <3>2
    <3>3. CASE k = h
      <4>1. some.key[k] \in State BY <1>1, <1>2
      <4>2. some.key[k] = "live" => st.key[k] = "live" \/ st.key[k] = "none" BY <1>2, <1>3
      <4>3. some.key[k] = "none" => st.key[k] = "none" BY <1>2, <1>3
      <4> QED BY <2>5, <2>7, <2>8, <3>3, <4>1, <4>2, <4>3 DEF State
    <3> QED BY <3>2, <3>3
  <2>10. SameSeals(st, nt) BY <1>2, <2>6 DEF SameSeals
  <2> HIDE DEF nt
  <2> QED BY <1>2, <2>3, <2>6, <2>9, <2>10
<1> QED BY <1>4, <1>5

------------------------------------------------------------------------------
(* What each action leaves alone                                            *)

\* The user starts an operation.
Asking ==
  \/ \E i \in Id, s \in Space : AskMove(i, s)
  \/ \E s \in Space : AskMakeMain(s) \/ AskAdd(s)
  \/ \E s \in Space, keep \in BOOLEAN : AskRemove(s, keep)
  \/ AskAdopt \/ AskDiscard

\* A call of rechain writes to a store.
Rechaining == \E m, s \in Space : RechainUnlock(m, s) \/ RechainSeal(m, s)

\* A write fails: one that is only logged, one of those a start makes, or one that
\* ends the operation or makes it give up.
Skipped == {"Unstage", "RemoveFiles", "Unmark", "Reseal", "Unleave", "Discard"}
Skips   == Fail /\ Step.do \in Skipped
Sweeps  == Fail /\ FailSweep
Errs    == Fail /\ Step.do \notin Skipped \cup {"Open"}

\* A start, with what it cannot remove.
Opens == Open \/ Sweeps

\* The actions of a step, one by one.
LEMMA NextCases ==
  ASSUME Next
  PROVE  \/ Recover \/ Begin \/ Note \/ Import \/ Drop \/ Clear
         \/ Personal \/ StageMain \/ StageOther \/ Unstage \/ Swap \/ Settle \/ SettleStep \/ EndHandover
         \/ Hold \/ TakeRunning \/ TakeTimesOut \/ Leave \/ TakeHosts \/ Moved \/ TakeKeys \/ HandOn
         \/ Unregister \/ RemoveFiles \/ Retire \/ Unleave \/ Failed \/ Done
         \/ Mark \/ MakeFile \/ Register \/ Unmark \/ Reseal \/ Discard
         \/ Opens \/ Ready
         \/ Asking \/ (\E i \in Id : DeleteHost(i)) \/ (\E v \in 0 .. MaxOps : EditDoc(v))
         \/ Unlock \/ (\E s \in Space : UnlockSpace(s)) \/ Lock
         \/ (\E s \in Space : PassBegin(s)) \/ (\E s \in Space : PassCheck(s)) \/ (\E s \in Space : PassEnd(s))
         \/ (\E s \in Space, i \in Id : PassPull(s, i))
         \/ Rechaining \/ (\E m \in Space : RechainEnds(m))
         \/ Crash \/ Errs \/ Skips
<1>1. CASE Steps BY <1>1 DEF Steps, Opens
<1>2. CASE User BY <1>2 DEF User, Asking
<1>3. CASE Passes BY <1>3 DEF Passes
<1>4. CASE Rechain BY <1>4 DEF Rechain, Rechaining
<1>5. CASE Fail
  <2>1. CASE FailSweep BY <1>5, <2>1 DEF Opens, Sweeps
  <2>2. FailWrite \/ FailPersist \/ FailMake \/ FailDiscard => Step.do # "Open"
    BY DEF FailWrite, FailPersist, FailMake, FailDiscard, Doing, Step
  <2>3. CASE Step.do # "Open" BY <1>5, <2>3 DEF Errs, Skips
  <2> QED BY <1>5, <2>1, <2>2, <2>3 DEF Fail
<1> QED BY <1>1, <1>2, <1>3, <1>4, <1>5 DEF Next

\* Moves and changes of the main server.
LEMMA MoveFrames ==
  /\ Recover => UNCHANGED <<reg, files, marker, store, mem, up, open, pending, op, held, gone, running,
       left, wiped, unnoted, deleted, doc, chained, now, spent, stale>>
  /\ Begin => UNCHANGED <<reg, files, marker, store, mem, up, open, pending, op, held, gone, running,
       left, wiped, unnoted, deleted, doc, chained, now, spent, stale>>
  /\ Note => UNCHANGED <<files, marker, store, up, open, pending, op, held, gone, running, left, wiped,
       unnoted, deleted, doc, chained, now, spent, stale>>
  /\ Import => UNCHANGED <<reg, files, marker, mem, up, open, pending, op, held, gone, running, left,
       wiped, unnoted, deleted, doc, chained, now, spent, stale>>
  /\ Drop => UNCHANGED <<reg, files, marker, mem, up, open, pending, op, held, gone, running, wiped,
       unnoted, deleted, doc, chained, now, spent, stale>>
  /\ Clear => UNCHANGED <<files, marker, store, up, open, pending, op, held, gone, running, left, wiped,
       unnoted, deleted, doc, chained, now, spent, stale>>
  /\ Personal => UNCHANGED <<reg, files, marker, mem, up, open, pending, op, held, gone, running, left,
       wiped, unnoted, deleted, doc, chained, spent, stale>>
  /\ StageMain => UNCHANGED <<reg, files, marker, mem, up, open, pending, op, held, gone, running, left,
       wiped, unnoted, deleted, doc, chained, now, spent, stale>>
  /\ StageOther => UNCHANGED <<reg, files, marker, mem, up, open, pending, op, held, gone, running, left,
       wiped, unnoted, deleted, doc, chained, now, spent, stale>>
  /\ Unstage => UNCHANGED <<reg, files, marker, mem, up, open, pending, op, held, gone, running, left,
       wiped, unnoted, deleted, doc, chained, now, spent, stale>>
  /\ Swap => UNCHANGED <<files, marker, store, up, open, pending, op, held, gone, running, left, wiped,
       unnoted, deleted, doc, now>>
  /\ Settle => UNCHANGED <<reg, files, marker, store, mem, up, open, pending, op, held, gone, running,
       left, wiped, unnoted, deleted, doc, chained, now, spent, stale>>
  /\ SettleStep => UNCHANGED <<reg, files, marker, mem, up, open, pending, op, held, gone, running, left,
       wiped, unnoted, deleted, doc, chained, spent, stale>>
  /\ EndHandover => UNCHANGED <<files, marker, store, up, open, pending, op, held, gone, running, left,
       wiped, unnoted, deleted, doc, chained, now, spent, stale>>
<1>1. Recover => UNCHANGED <<reg, files, marker, store, mem, up, open, pending, op, held, gone, running,
  left, wiped, unnoted, deleted, doc, chained, now, spent, stale>> BY DEF Recover, disk, flags, ghost
<1>2. Begin => UNCHANGED <<reg, files, marker, store, mem, up, open, pending, op, held, gone, running,
  left, wiped, unnoted, deleted, doc, chained, now, spent, stale>> BY DEF Begin, disk, flags, ghost
<1>3. Note => UNCHANGED <<files, marker, store, up, open, pending, op, held, gone, running, left, wiped,
  unnoted, deleted, doc, chained, now, spent, stale>> BY DEF Note, disk, flags, ghost, Persist
<1>4. Import => UNCHANGED <<reg, files, marker, mem, up, open, pending, op, held, gone, running, left,
  wiped, unnoted, deleted, doc, chained, now, spent, stale>> BY DEF Import, disk, flags, ghost
<1>5. Drop => UNCHANGED <<reg, files, marker, mem, up, open, pending, op, held, gone, running, wiped,
  unnoted, deleted, doc, chained, now, spent, stale>> BY DEF Drop, disk, flags, ghost
<1>6. Clear => UNCHANGED <<files, marker, store, up, open, pending, op, held, gone, running, left,
  wiped, unnoted, deleted, doc, chained, now, spent, stale>> BY DEF Clear, disk, flags, ghost, Persist
<1>7. Personal => UNCHANGED <<reg, files, marker, mem, up, open, pending, op, held, gone, running, left,
  wiped, unnoted, deleted, doc, chained, spent, stale>> BY DEF Personal, disk, flags, ghost
<1>8. StageMain => UNCHANGED <<reg, files, marker, mem, up, open, pending, op, held, gone, running,
  left, wiped, unnoted, deleted, doc, chained, now, spent, stale>> BY DEF StageMain, disk, flags, ghost
<1>9. StageOther => UNCHANGED <<reg, files, marker, mem, up, open, pending, op, held, gone, running,
  left, wiped, unnoted, deleted, doc, chained, now, spent, stale>> BY DEF StageOther, disk, flags, ghost
<1>10. Unstage => UNCHANGED <<reg, files, marker, mem, up, open, pending, op, held, gone, running, left,
  wiped, unnoted, deleted, doc, chained, now, spent, stale>> BY DEF Unstage, disk, flags, ghost
<1>11. Swap => UNCHANGED <<files, marker, store, up, open, pending, op, held, gone, running, left,
  wiped, unnoted, deleted, doc, now>> BY DEF Swap, disk, flags, ghost, Persist
<1>12. Settle => UNCHANGED <<reg, files, marker, store, mem, up, open, pending, op, held, gone, running,
  left, wiped, unnoted, deleted, doc, chained, now, spent, stale>> BY DEF Settle, disk, flags, ghost
<1>13. SettleStep => UNCHANGED <<reg, files, marker, mem, up, open, pending, op, held, gone, running,
  left, wiped, unnoted, deleted, doc, chained, spent, stale>> BY DEF SettleStep, disk, flags, ghost
<1>14. EndHandover => UNCHANGED <<files, marker, store, up, open, pending, op, held, gone, running,
  left, wiped, unnoted, deleted, doc, chained, now, spent, stale>> BY DEF EndHandover, disk, flags, ghost,
  Persist
<1> QED BY <1>1, <1>2, <1>3, <1>4, <1>5, <1>6, <1>7, <1>8, <1>9, <1>10, <1>11, <1>12, <1>13, <1>14

\* Removals.
LEMMA RemoveFrames ==
  /\ Hold => UNCHANGED <<reg, files, marker, store, mem, up, open, pending, op, gone, running, left,
       wiped, unnoted, deleted, doc, chained, now, spent, stale>>
  /\ TakeRunning => UNCHANGED <<reg, files, marker, store, mem, up, open, pending, op, held, gone, left,
       wiped, unnoted, deleted, doc, chained, now, spent, stale>>
  /\ TakeTimesOut => UNCHANGED <<reg, files, marker, store, mem, up, open, pending, op, held, gone,
       running, left, wiped, unnoted, deleted, doc, chained, now, spent, stale>>
  /\ Leave => UNCHANGED <<files, marker, store, up, open, pending, held, gone, running, left, wiped,
       deleted, doc, chained, now, spent, stale>>
  /\ TakeHosts => UNCHANGED <<reg, files, marker, store, mem, up, open, pending, op, held, gone, running,
       left, wiped, unnoted, deleted, doc, chained, now, spent, stale>>
  /\ Moved => UNCHANGED <<reg, files, marker, store, mem, up, open, pending, held, gone, running, left,
       wiped, unnoted, deleted, doc, chained, now, spent, stale>>
  /\ TakeKeys => UNCHANGED <<reg, files, marker, mem, up, open, pending, op, held, gone, running, left,
       wiped, unnoted, deleted, doc, chained, now, spent, stale>>
  /\ HandOn => UNCHANGED <<reg, files, marker, store, mem, up, open, pending, held, gone, running, left,
       wiped, unnoted, deleted, doc, chained, now, spent, stale>>
  /\ Unregister => UNCHANGED <<files, marker, store, up, pending, op, held, gone, running, left, wiped,
       unnoted, deleted, doc, now, spent, stale>>
  /\ RemoveFiles => UNCHANGED <<reg, marker, mem, up, open, pending, op, held, gone, running, wiped,
       unnoted, deleted, doc, chained, now, spent, stale>>
  /\ Retire => UNCHANGED <<reg, files, marker, store, mem, up, open, pending, op, held, running, left,
       wiped, unnoted, deleted, doc, chained, now, spent, stale>>
  /\ Unleave => UNCHANGED <<files, marker, store, up, open, pending, op, held, gone, running, left, wiped,
       deleted, doc, chained, now, spent, stale>>
  /\ Failed => UNCHANGED <<reg, files, marker, store, mem, up, open, pending, gone, left, wiped, unnoted,
       deleted, doc, chained, now, spent, stale>>
  /\ Done => UNCHANGED <<reg, files, marker, store, mem, up, open, pending, held, gone, left, wiped,
       unnoted, deleted, doc, now, spent, stale>>
<1>1. Hold => UNCHANGED <<reg, files, marker, store, mem, up, open, pending, op, gone, running, left,
  wiped, unnoted, deleted, doc, chained, now, spent, stale>> BY DEF Hold, disk, flags, ghost
<1>2. TakeRunning => UNCHANGED <<reg, files, marker, store, mem, up, open, pending, op, held, gone,
  left, wiped, unnoted, deleted, doc, chained, now, spent, stale>> BY DEF TakeRunning, disk, flags, ghost
<1>3. TakeTimesOut => UNCHANGED <<reg, files, marker, store, mem, up, open, pending, op, held, gone,
  running, left, wiped, unnoted, deleted, doc, chained, now, spent, stale>> BY DEF TakeTimesOut, disk, flags,
  ghost
<1>4. Leave => UNCHANGED <<files, marker, store, up, open, pending, held, gone, running, left, wiped,
  deleted, doc, chained, now, spent, stale>> BY DEF Leave, disk, flags, ghost, Persist
<1>5. TakeHosts => UNCHANGED <<reg, files, marker, store, mem, up, open, pending, op, held, gone,
  running, left, wiped, unnoted, deleted, doc, chained, now, spent, stale>> BY DEF TakeHosts, disk, flags, ghost
<1>6. Moved => UNCHANGED <<reg, files, marker, store, mem, up, open, pending, held, gone, running, left,
  wiped, unnoted, deleted, doc, chained, now, spent, stale>> BY DEF Moved, disk, flags, ghost
<1>7. TakeKeys => UNCHANGED <<reg, files, marker, mem, up, open, pending, op, held, gone, running, left,
  wiped, unnoted, deleted, doc, chained, now, spent, stale>> BY DEF TakeKeys, disk, flags, ghost
<1>8. HandOn => UNCHANGED <<reg, files, marker, store, mem, up, open, pending, held, gone, running,
  left, wiped, unnoted, deleted, doc, chained, now, spent, stale>> BY DEF HandOn, disk, flags, ghost
<1>9. Unregister => UNCHANGED <<files, marker, store, up, pending, op, held, gone, running, left, wiped,
  unnoted, deleted, doc, now, spent, stale>> BY DEF Unregister, disk, flags, ghost, Persist
<1>10. RemoveFiles => UNCHANGED <<reg, marker, mem, up, open, pending, op, held, gone, running, wiped,
  unnoted, deleted, doc, chained, now, spent, stale>> BY DEF RemoveFiles, disk, flags, ghost
<1>11. Retire => UNCHANGED <<reg, files, marker, store, mem, up, open, pending, op, held, running, left,
  wiped, unnoted, deleted, doc, chained, now, spent, stale>> BY DEF Retire, disk, flags, ghost
<1>12. Unleave => UNCHANGED <<files, marker, store, up, open, pending, op, held, gone, running, left,
  wiped, deleted, doc, chained, now, spent, stale>> BY DEF Unleave, disk, flags, ghost, Persist
<1>13. Failed => UNCHANGED <<reg, files, marker, store, mem, up, open, pending, gone, left, wiped,
  unnoted, deleted, doc, chained, now, spent, stale>> BY DEF Failed, disk, flags, ghost
<1>14. Done => UNCHANGED <<reg, files, marker, store, mem, up, open, pending, held, gone, left, wiped,
  unnoted, deleted, doc, now, spent, stale>> BY DEF Done, disk, flags, ghost
<1> QED BY <1>1, <1>2, <1>3, <1>4, <1>5, <1>6, <1>7, <1>8, <1>9, <1>10, <1>11, <1>12, <1>13, <1>14

\* The rest.
LEMMA OtherFrames ==
  /\ Mark => UNCHANGED <<reg, files, store, mem, up, open, pending, op, held, gone, running, left, wiped,
       unnoted, deleted, doc, chained, now, spent, stale>>
  /\ MakeFile => UNCHANGED <<reg, marker, store, mem, up, op, held, gone, running, left, wiped, unnoted,
       deleted, doc, chained, now, spent, stale>>
  /\ Register => UNCHANGED <<files, marker, store, up, open, op, held, gone, running, left, wiped,
       unnoted, deleted, doc, chained, now, spent, stale>>
  /\ Unmark => UNCHANGED <<reg, files, store, mem, up, open, pending, op, held, gone, running, left,
       wiped, unnoted, deleted, doc, chained, now, spent, stale>>
  /\ Reseal => UNCHANGED <<reg, files, marker, mem, up, open, pending, op, held, gone, running, left,
       wiped, unnoted, deleted, doc, chained, now, spent, stale>>
  /\ Discard => UNCHANGED <<reg, marker, mem, up, op, held, gone, running, left, wiped, unnoted, deleted,
       doc, chained, now, spent, stale>>
  /\ Opens => UNCHANGED <<reg, up, open, pending, op, held, gone, running, wiped, unnoted, deleted,
       doc, chained, now, stale>>
  /\ Open => UNCHANGED spent
  /\ Ready => UNCHANGED <<reg, files, marker, store, mem, open, pending, op, gone, running, left, wiped,
       unnoted, deleted, doc, chained, now, spent, stale>>
  /\ AskAdopt => UNCHANGED <<reg, files, marker, store, mem, up, open, pending, held, gone, running, left,
       wiped, unnoted, deleted, doc, chained, now, stale>>
  /\ AskDiscard => UNCHANGED <<reg, files, marker, store, mem, up, open, pending, held, gone, running,
       left, wiped, unnoted, deleted, doc, chained, now, stale>>
  /\ Unlock => UNCHANGED <<reg, files, marker, mem, up, pending, op, todo, held, gone, running, left,
       wiped, unnoted, deleted, doc, chained, now, spent, stale>>
  /\ Lock => UNCHANGED <<reg, files, marker, store, mem, up, pending, op, todo, held, gone, running, left,
       wiped, unnoted, deleted, doc, now, stale>>
  /\ Crash => UNCHANGED <<reg, files, marker, store, mem, left, wiped, unnoted, deleted, doc, chained,
       now>>
  /\ Errs => UNCHANGED <<marker, store, up, open, pending, op, held, gone, running, left, wiped, deleted,
       doc, chained, now, stale>>
  /\ Errs /\ Step.do # "MakeFile" => UNCHANGED files
  /\ Errs /\ Step.do # "Leave" => UNCHANGED unnoted
  /\ Skips => UNCHANGED <<files, marker, store, up, op, held, gone, running, left, wiped, deleted, doc,
       chained, now, stale>>
  /\ Skips /\ Step.do # "Discard" => UNCHANGED <<pending, open>>
  /\ Skips /\ Step.do # "Unleave" => UNCHANGED <<reg, mem, unnoted>>
  /\ \A i \in Id : DeleteHost(i) => UNCHANGED <<reg, files, marker, mem, up, open, pending, op, todo,
       held, gone, running, left, wiped, unnoted, doc, chained, now, stale>>
  /\ \A i \in Id, s \in Space : AskMove(i, s) => UNCHANGED <<reg, files, marker, store, mem, up, open,
       pending, held, gone, running, left, wiped, unnoted, deleted, doc, chained, now, stale>>
  /\ \A s \in Space : AskMakeMain(s) => UNCHANGED <<reg, files, marker, store, mem, up, open, pending,
       held, gone, running, left, wiped, unnoted, deleted, doc, chained, now, stale>>
  /\ \A s \in Space : AskAdd(s) => UNCHANGED <<reg, files, marker, store, mem, up, open, pending, held,
       gone, running, left, wiped, unnoted, deleted, doc, chained, now, stale>>
  /\ \A s \in Space, keep \in BOOLEAN : AskRemove(s, keep) => UNCHANGED <<reg, files, marker, store, mem,
       up, open, pending, held, gone, running, left, wiped, unnoted, doc, chained, now, stale>>
  /\ \A v \in 0 .. MaxOps : EditDoc(v) => UNCHANGED <<reg, files, marker, mem, up, open, pending, op,
       todo, held, gone, running, left, wiped, unnoted, deleted, chained, stale>>
  /\ \A s \in Space : UnlockSpace(s) => UNCHANGED <<reg, files, marker, store, mem, up, pending, op, todo, held,
       gone, running, left, wiped, unnoted, deleted, doc, chained, now, spent, stale>>
  /\ Rechaining => UNCHANGED <<reg, files, marker, mem, up, pending, op, todo, held, gone, running, left,
       wiped, unnoted, deleted, doc, chained, now, spent, stale>>
  /\ \A m, s \in Space : RechainSeal(m, s) => UNCHANGED open
  /\ \A m \in Space : RechainEnds(m) => UNCHANGED <<reg, files, marker, store, mem, up, open, pending, op,
       todo, held, gone, running, left, wiped, unnoted, deleted, doc, chained, now, spent>>
  /\ \A s \in Space : PassBegin(s) => UNCHANGED <<reg, files, marker, store, mem, up, open, pending, op,
       todo, held, gone, left, wiped, unnoted, deleted, doc, chained, now, spent, stale>>
  /\ \A s \in Space : PassCheck(s) => UNCHANGED <<reg, files, marker, store, mem, up, open, pending, op,
       todo, held, gone, left, wiped, unnoted, deleted, doc, chained, now, spent, stale>>
  /\ \A s \in Space : PassEnd(s) => UNCHANGED <<reg, files, marker, store, mem, up, open, pending, op,
       todo, held, gone, left, unnoted, deleted, doc, chained, now, spent, stale>>
  /\ \A s \in Space, i \in Id : PassPull(s, i) => UNCHANGED <<reg, files, marker, mem, up, open, pending,
       op, todo, held, gone, running, left, wiped, unnoted, doc, chained, now, stale>>
<1>1. Mark => UNCHANGED <<reg, files, store, mem, up, open, pending, op, held, gone, running, left,
  wiped, unnoted, deleted, doc, chained, now, spent, stale>> BY DEF Mark, disk, flags, ghost
<1>2. MakeFile => UNCHANGED <<reg, marker, store, mem, up, op, held, gone, running, left, wiped,
  unnoted, deleted, doc, chained, now, spent, stale>> BY DEF MakeFile, disk, flags, ghost
<1>3. Register => UNCHANGED <<files, marker, store, up, open, op, held, gone, running, left, wiped,
  unnoted, deleted, doc, chained, now, spent, stale>> BY DEF Register, disk, flags, ghost, Persist
<1>4. Unmark => UNCHANGED <<reg, files, store, mem, up, open, pending, op, held, gone, running, left,
  wiped, unnoted, deleted, doc, chained, now, spent, stale>> BY DEF Unmark, disk, flags, ghost
<1>5. Reseal => UNCHANGED <<reg, files, marker, mem, up, open, pending, op, held, gone, running, left,
  wiped, unnoted, deleted, doc, chained, now, spent, stale>> BY DEF Reseal, disk, flags, ghost
<1>6. Discard => UNCHANGED <<reg, marker, mem, up, op, held, gone, running, left, wiped, unnoted,
  deleted, doc, chained, now, spent, stale>> BY DEF Discard, disk, flags, ghost
<1>7. /\ Opens => UNCHANGED <<reg, up, open, pending, op, held, gone, running, wiped, unnoted, deleted,
           doc, chained, now, stale>>
      /\ Open => UNCHANGED spent
  BY DEF Opens, Sweeps, Fail, FailSweep, Open, Opened, disk, flags, ghost
<1>8. Ready => UNCHANGED <<reg, files, marker, store, mem, open, pending, op, gone, running, left,
  wiped, unnoted, deleted, doc, chained, now, spent, stale>> BY DEF Ready, disk, flags, ghost
<1>9. AskAdopt => UNCHANGED <<reg, files, marker, store, mem, up, open, pending, held, gone, running,
  left, wiped, unnoted, deleted, doc, chained, now, stale>> BY DEF AskAdopt, disk, flags, ghost, Starts, Asks
<1>10. AskDiscard => UNCHANGED <<reg, files, marker, store, mem, up, open, pending, held, gone, running,
  left, wiped, unnoted, deleted, doc, chained, now, stale>> BY DEF AskDiscard, disk, flags, ghost, Starts, Asks
<1>11. Unlock => UNCHANGED <<reg, files, marker, mem, up, pending, op, todo, held, gone, running, left,
  wiped, unnoted, deleted, doc, chained, now, spent, stale>> BY DEF Unlock, disk, flags, ghost
<1>12. Lock => UNCHANGED <<reg, files, marker, store, mem, up, pending, op, todo, held, gone, running,
  left, wiped, unnoted, deleted, doc, now, stale>> BY DEF Lock, disk, flags, ghost
<1>13. Crash => UNCHANGED <<reg, files, marker, store, mem, left, wiped, unnoted, deleted, doc, chained,
  now>> BY DEF Crash, disk, flags, ghost
<1>14. /\ Errs => UNCHANGED <<marker, store, up, open, pending, op, held, gone, running, left, wiped, deleted,
            doc, chained, now, stale>>
       /\ Errs /\ Step.do # "MakeFile" => UNCHANGED files
       /\ Errs /\ Step.do # "Leave" => UNCHANGED unnoted
       /\ Skips => UNCHANGED <<files, marker, store, up, op, held, gone, running, left, wiped, deleted, doc,
            chained, now, stale>>
       /\ Skips /\ Step.do # "Discard" => UNCHANGED <<pending, open>>
       /\ Skips /\ Step.do # "Unleave" => UNCHANGED <<reg, mem, unnoted>>
  <2>1. CASE Fail /\ FailWrite BY <2>1 DEF Errs, Skips, Skipped, FailWrite, disk, flags, ghost
  <2>2. CASE Fail /\ FailPersist BY <2>2 DEF Errs, Skips, Skipped, FailPersist, flags
  <2>3. CASE Fail /\ FailMake BY <2>3 DEF Errs, Skips, Skipped, FailMake, Doing, Step, flags, ghost
  <2>4. CASE Fail /\ FailDiscard BY <2>4 DEF Errs, Skips, Skipped, FailDiscard, Doing, Step, disk, flags, ghost
  <2>5. CASE Fail /\ FailSweep BY <2>5 DEF Errs, Skips, Skipped, FailSweep, Doing, Step
  <2> QED BY <2>1, <2>2, <2>3, <2>4, <2>5 DEF Errs, Skips, Fail
<1>15. \A i \in Id : DeleteHost(i) => UNCHANGED <<reg, files, marker, mem, up, open, pending, op, todo,
  held, gone, running, left, wiped, unnoted, doc, chained, now, stale>> BY DEF DeleteHost, disk, flags, ghost
<1>16. \A i \in Id, s \in Space : AskMove(i, s) => UNCHANGED <<reg, files, marker, store, mem, up, open,
  pending, held, gone, running, left, wiped, unnoted, deleted, doc, chained, now, stale>> BY DEF AskMove, disk,
  flags, ghost, Starts, Asks
<1>17. \A s \in Space : AskMakeMain(s) => UNCHANGED <<reg, files, marker, store, mem, up, open, pending,
  held, gone, running, left, wiped, unnoted, deleted, doc, chained, now, stale>> BY DEF AskMakeMain, disk, flags,
  ghost, Starts, Asks
<1>18. \A s \in Space : AskAdd(s) => UNCHANGED <<reg, files, marker, store, mem, up, open, pending,
  held, gone, running, left, wiped, unnoted, deleted, doc, chained, now, stale>> BY DEF AskAdd, disk, flags,
  ghost, Starts, Asks
<1>19. \A s \in Space, keep \in BOOLEAN : AskRemove(s, keep) => UNCHANGED <<reg, files, marker, store,
  mem, up, open, pending, held, gone, running, left, wiped, unnoted, doc, chained, now, stale>> BY DEF AskRemove,
  disk, flags, ghost, Starts, Asks
<1>20. \A v \in 0 .. MaxOps : EditDoc(v) => UNCHANGED <<reg, files, marker, mem, up, open, pending, op,
  todo, held, gone, running, left, wiped, unnoted, deleted, chained, stale>> BY DEF EditDoc, disk, flags, ghost
<1>21. \A s \in Space : UnlockSpace(s) => UNCHANGED <<reg, files, marker, store, mem, up, pending, op, todo,
  held, gone, running, left, wiped, unnoted, deleted, doc, chained, now, spent, stale>> BY DEF UnlockSpace, disk,
  flags, ghost
<1>22. \A s \in Space : PassBegin(s) => UNCHANGED <<reg, files, marker, store, mem, up, open, pending,
  op, todo, held, gone, left, wiped, unnoted, deleted, doc, chained, now, spent, stale>> BY DEF PassBegin, disk,
  flags, ghost
<1>23. \A s \in Space : PassCheck(s) => UNCHANGED <<reg, files, marker, store, mem, up, open, pending,
  op, todo, held, gone, left, wiped, unnoted, deleted, doc, chained, now, spent, stale>> BY DEF PassCheck, disk,
  flags, ghost
<1>24. \A s \in Space : PassEnd(s) => UNCHANGED <<reg, files, marker, store, mem, up, open, pending, op,
  todo, held, gone, left, unnoted, deleted, doc, chained, now, spent, stale>> BY DEF PassEnd, disk, flags, ghost
<1>25. \A s \in Space, i \in Id : PassPull(s, i) => UNCHANGED <<reg, files, marker, mem, up, open,
  pending, op, todo, held, gone, running, left, wiped, unnoted, doc, chained, now, stale>> BY DEF PassPull, disk,
  flags, ghost
<1>26. /\ Rechaining => UNCHANGED <<reg, files, marker, mem, up, pending, op, todo, held, gone, running, left,
            wiped, unnoted, deleted, doc, chained, now, spent, stale>>
       /\ \A m, s \in Space : RechainSeal(m, s) => UNCHANGED open
  BY DEF Rechaining, RechainUnlock, RechainSeal, flags, ghost
<1>27. \A m \in Space : RechainEnds(m) => UNCHANGED <<reg, files, marker, store, mem, up, open, pending, op,
  todo, held, gone, running, left, wiped, unnoted, deleted, doc, chained, now, spent>> BY DEF RechainEnds,
  disk, flags, ghost
<1> QED
  BY <1>1, <1>2, <1>3, <1>4, <1>5, <1>6, <1>7, <1>8, <1>9, <1>10, <1>11, <1>12, <1>13, <1>14, <1>15,
     <1>16, <1>17, <1>18, <1>19, <1>20, <1>21, <1>22, <1>23, <1>24, <1>25, <1>26, <1>27


\* The same by variable.
\* The registry changes only in these.
LEMMA RegFrame ==
  ASSUME Next
  PROVE  \/ UNCHANGED <<reg, mem>> \/ Note \/ Clear \/ Swap \/ EndHandover \/ Leave \/ Unregister
         \/ Unleave \/ Register \/ Opens \/ Errs \/ (Skips /\ Step.do = "Unleave")
BY NextCases, MoveFrames, RemoveFrames, OtherFrames DEF Asking

\* The files.
LEMMA FileFrame ==
  ASSUME Next
  PROVE  \/ UNCHANGED <<files, marker, pending>> \/ RemoveFiles \/ Mark \/ MakeFile \/ Register
         \/ Unmark \/ Discard \/ Opens \/ Crash
         \/ (Errs /\ Step.do = "MakeFile") \/ (Skips /\ Step.do = "Discard")
BY NextCases, MoveFrames, RemoveFrames, OtherFrames DEF Asking

\* The stores.
LEMMA StoreFrame ==
  ASSUME Next
  PROVE  \/ UNCHANGED store \/ Import \/ Drop \/ Personal \/ StageMain \/ StageOther \/ Unstage
         \/ SettleStep \/ TakeKeys \/ RemoveFiles \/ Reseal \/ Discard \/ Opens \/ Unlock
         \/ (\E i \in Id : DeleteHost(i)) \/ (\E v \in 0 .. MaxOps : EditDoc(v))
         \/ Rechaining \/ (\E s \in Space, i \in Id : PassPull(s, i))
BY NextCases, MoveFrames, RemoveFrames, OtherFrames DEF Asking

\* What keeps a server from syncing.
LEMMA FlagFrame ==
  ASSUME Next
  PROVE  \/ UNCHANGED <<held, gone, running>> \/ Hold \/ TakeRunning \/ Retire \/ Failed \/ Done
         \/ Ready \/ Crash \/ (\E s \in Space : PassBegin(s)) \/ (\E s \in Space : PassCheck(s))
         \/ (\E s \in Space : PassEnd(s))
BY NextCases, MoveFrames, RemoveFrames, OtherFrames DEF Asking

\* The operation.
LEMMA OpFrame ==
  ASSUME Next
  PROVE  \/ UNCHANGED <<op, up>> \/ Leave \/ Moved \/ HandOn \/ Failed \/ Done \/ Ready \/ Asking
         \/ Crash
BY NextCases, MoveFrames, RemoveFrames, OtherFrames DEF Asking

\* What left a server.
LEMMA GhostFrame ==
  ASSUME Next
  PROVE  \/ UNCHANGED <<left, wiped, unnoted>> \/ Drop \/ Leave \/ RemoveFiles \/ Unleave
         \/ (\E s \in Space : PassEnd(s)) \/ Opens
         \/ (Errs /\ Step.do = "Leave") \/ (Skips /\ Step.do = "Unleave")
BY NextCases, MoveFrames, RemoveFrames, OtherFrames DEF Asking

\* What somebody deleted.
LEMMA DeletedFrame ==
  ASSUME Next
  PROVE  \/ UNCHANGED deleted \/ (\E i \in Id : DeleteHost(i))
         \/ (\E s \in Space, keep \in BOOLEAN : AskRemove(s, keep))
         \/ (\E s \in Space, i \in Id : PassPull(s, i))
BY NextCases, MoveFrames, RemoveFrames, OtherFrames DEF Asking

\* The personal records.
LEMMA DocFrame ==
  ASSUME Next
  PROVE  \/ UNCHANGED <<doc, now>> \/ Personal \/ SettleStep \/ (\E v \in 0 .. MaxOps : EditDoc(v))
BY NextCases, MoveFrames, RemoveFrames, OtherFrames DEF Asking

\* What is open.
LEMMA ChainFrame ==
  ASSUME Next
  PROVE  \/ UNCHANGED <<open, chained, stale>> \/ Unregister \/ Done \/ MakeFile \/ Discard \/ Unlock \/ Lock
         \/ Crash \/ (\E s \in Space : UnlockSpace(s)) \/ Swap \/ (Skips /\ Step.do = "Discard")
         \/ (\E m, s \in Space : RechainUnlock(m, s)) \/ (\E m \in Space : RechainEnds(m))
BY NextCases, MoveFrames, RemoveFrames, OtherFrames DEF Asking, Rechaining

\* The bounds.
LEMMA SpentFrame ==
  ASSUME Next
  PROVE  \/ UNCHANGED spent \/ Asking \/ Lock \/ Crash \/ Errs \/ Skips \/ Sweeps \/ Swap
         \/ (\E i \in Id : DeleteHost(i))
         \/ (\E v \in 0 .. MaxOps : EditDoc(v)) \/ (\E s \in Space, i \in Id : PassPull(s, i))
BY NextCases, MoveFrames, RemoveFrames, OtherFrames DEF Asking, Opens

\* The steps that are left.
LEMMA TodoFrame ==
  ASSUME \/ Unlock
         \/ Lock
         \/ \E i \in Id : DeleteHost(i)
         \/ \E v \in 0 .. MaxOps : EditDoc(v)
         \/ \E s \in Space : UnlockSpace(s)
         \/ Rechaining
         \/ \E m \in Space : RechainEnds(m)
         \/ \E s \in Space : PassBegin(s)
         \/ \E s \in Space : PassCheck(s)
         \/ \E s \in Space : PassEnd(s)
         \/ \E s \in Space, i \in Id : PassPull(s, i)
  PROVE  UNCHANGED <<todo, op, up>>
BY OtherFrames


------------------------------------------------------------------------------
(* What the steps do to the stores                                          *)

\* The first step of what is left.
LEMMA AtStep ==
  ASSUME Shape, NEW a, Doing(a)
  PROVE  /\ todo # <<>> /\ Step.do = a /\ Step \in Todo /\ Step \in StepSet /\ Todo \subseteq StepSet
         /\ \A x \in Todo : x.do \in Names
         /\ a \in Names
         /\ a \in Placed \cup Dropped \cup {"Stage"} => Step.at \in Space
<1>1. todo # <<>> /\ Step.do = a BY DEF Doing, Step
<1>2. Step \in Todo /\ Step \in StepSet /\ Todo \subseteq StepSet BY <1>1, Pop DEF Shape, Todo, Step
<1> QED BY <1>1, <1>2, StepFields

\* The next step is named a.
StepOf(a) == todo # <<>> /\ Step.do = a /\ Step \in Todo /\ Step \in StepSet /\ Todo \subseteq StepSet

\* What Types says of the stores.
StoresOK == store \in [Space -> StoreSet] /\ now \in Nat \ {0} /\ \A s \in Space : store[s].doc.at < now

\* A store that was just made.
LEMMA EmptyIs ==
  /\ EmptyStore \in StoreSet
  /\ EmptyStore.host = [i \in Id |-> "none"] /\ EmptyStore.uses = [i \in Id |-> 0]
  /\ EmptyStore.key = [g \in Gen |-> "none"] /\ EmptyStore.doc.val = 0 /\ EmptyStore.doc.at = 0
  /\ EmptyStore.known = FALSE
<1>1. /\ [i \in Id |-> "none"] \in [Id -> State] /\ [i \in Id |-> 0] \in [Id -> {0} \cup Gen]
      /\ [g \in Gen |-> "none"] \in [Gen -> State] /\ 0 \in 0 .. MaxOps /\ "none" \in Seal
  BY SpacesAssumption DEF State, Seal
<1> QED BY <1>1 DEF EmptyStore, StoreSet

\* What Import does to the stores and the list.
LEMMA ImportIs ==
  ASSUME Inv, Import
  PROVE  /\ Shape' /\ StoresOK' /\ Step.j \in Entry /\ Step.m \in Luggage /\ Step \in Todo /\ Step.do = "Import"
         /\ \/ UNCHANGED store /\ Fallen({"Clear"}) /\ Step'.do = "Clear"
            \/ /\ Popped
               /\ \A s \in Space : s # Step.j.to => store'[s] = store[s]
               /\ LET st == store[Step.j.to]
                      nt == store'[Step.j.to]
                      k  == Step.m.key
                      i  == Step.j.target
                  IN /\ nt.host = [st.host EXCEPT ![i] = "live"]
                     /\ nt.uses = [st.uses EXCEPT ![i] = IF k = 0 THEN 0 ELSE KeyHere(st, k)]
                     /\ nt.key = IF k = 0 THEN st.key ELSE [st.key EXCEPT ![KeyHere(st, k)] = "live"]
                     /\ nt.known = (st.known \/ Step.m.known)
                     /\ nt.doc = st.doc /\ SameSeals(st, nt)
                     /\ k # 0 => KeyHere(st, k) \in Gen
<1> DEFINE j == Step.j
           m == Step.m
<1>1. Shape /\ Doing("Import") BY DEF Inv, Import
<1>2. todo # <<>> /\ Step.do = "Import" /\ Step \in Todo /\ Step \in StepSet BY <1>1, AtStep
<1>3. j \in Entry /\ m \in Luggage BY <1>2, StepFields
<1>4. j.to \in Space /\ j.target \in Id /\ m.key \in {0} \cup Gen BY <1>3 DEF Entry, Journal, Luggage
<1>5. store \in [Space -> StoreSet] /\ now \in Nat \ {0} /\ \A s \in Space : store[s].doc.at < now
  BY DEF Inv, Types
<1>6. UNCHANGED now BY DEF Import
<1>7. CASE m.key # 0 /\ j.to \notin open
  <2>1. UNCHANGED store /\ todo' = <<Do("Clear")>> \o Unwind BY <1>7 DEF Import
  <2>2. Shape' /\ Fallen({"Clear"}) /\ Step'.do = "Clear" BY <2>1, ClearUnwindStep
  <2> QED BY <1>2, <1>3, <1>5, <1>6, <2>1, <2>2 DEF StoresOK
<1>8. CASE ~(m.key # 0 /\ j.to \notin open)
  <2> DEFINE st == store[j.to]
             nt == ImportHost(st, j.target, m)
  <2>1. Then(<<>>) /\ SetStore(j.to, nt) BY <1>8 DEF Import
  <2>2. Shape' /\ Popped BY <1>1, <1>2, <2>1, PopStep
  <2>3. m.key # 0 => FreshKeys # {} \/ st.key[m.key] # "dead" BY <1>2 DEF Inv, MoveOK, Carries
  <2>4. st \in StoreSet BY <1>4, <1>5
  <2> HIDE DEF st
  <2>5. /\ nt \in StoreSet
        /\ nt.host = [st.host EXCEPT ![j.target] = "live"]
        /\ nt.uses = [st.uses EXCEPT ![j.target] = IF m.key = 0 THEN 0 ELSE KeyHere(st, m.key)]
        /\ nt.key = IF m.key = 0 THEN st.key ELSE [st.key EXCEPT ![KeyHere(st, m.key)] = "live"]
        /\ nt.known = (st.known \/ m.known)
        /\ nt.doc = st.doc /\ SameSeals(st, nt)
    BY <1>3, <1>4, <2>3, <2>4, ImportHostIs
  <2>6. m.key # 0 => KeyHere(st, m.key) \in Gen BY <1>4, <2>3, <2>4, KeyHereIn
  <2> HIDE DEF nt
  <2>7. store' \in [Space -> StoreSet] /\ store'[j.to] = nt /\ \A t \in Space : t # j.to => store'[t] = store[t]
    BY <1>4, <1>5, <2>1, <2>5, OneStore
  <2>8. StoresOK' BY <1>4, <1>5, <1>6, <2>5, <2>7 DEF StoresOK, st
  <2> QED BY <1>2, <1>3, <2>2, <2>5, <2>6, <2>7, <2>8 DEF st
<1> QED BY <1>7, <1>8

\* What a step of drop_moved_host does to the stores and the list.
LEMMA DropIs ==
  ASSUME Inv, Drop
  PROVE  /\ Shape' /\ Popped /\ StoresOK' /\ Step.at \in Space /\ Step.id \in Id /\ Step \in Todo
         /\ Step.do \in Dropped
         /\ \A s \in Space : s # Step.at => store'[s] = store[s]
         /\ LET st == store[Step.at]
                nt == store'[Step.at]
            IN /\ nt.uses = st.uses /\ nt.doc = st.doc /\ SameSeals(st, nt)
               /\ Step.do = "DropHost" =>
                    /\ nt.host = [st.host EXCEPT ![Step.id] = IF @ = "live" THEN "dead" ELSE @]
                    /\ nt.key = st.key /\ nt.known = st.known
               /\ Step.do # "DropHost" => nt.host = st.host /\ left' = left
               /\ Step.do = "DropKey" =>
                    /\ nt.known = st.known
                    /\ \A g \in Gen : nt.key[g] =
                         IF /\ g = st.uses[Step.id] /\ st.key[g] = "live"
                            /\ ~\E k \in Id : st.host[k] = "live" /\ st.uses[k] = g
                         THEN "dead" ELSE st.key[g]
               /\ Step.do = "DropKnown" =>
                    /\ nt.key = st.key
                    /\ (\E k \in Id : st.host[k] = "live") => nt.known = st.known
<1>1. Shape /\ Then(<<>>) /\ UNCHANGED now BY DEF Inv, Drop
<1>2. PICK a \in Dropped : Doing(a) BY DEF Drop, Dropped
<1>3. todo # <<>> /\ Step.do = a /\ Step \in Todo /\ Step \in StepSet BY <1>1, <1>2, AtStep
<1>4. Step.at \in Space /\ Step.id \in Id BY <1>2, <1>3, StepFields
<1>5. Shape' /\ Popped BY <1>1, <1>3, PopStep
<1>6. store \in [Space -> StoreSet] /\ now \in Nat \ {0} /\ \A s \in Space : store[s].doc.at < now
  BY DEF Inv, Types
<1> DEFINE st == store[Step.at]
<1>7. st \in StoreSet BY <1>4, <1>6
<1>8. CASE a = "DropHost"
  <2> DEFINE nt == DropHost(st, Step.id)
  <2>1. SetStore(Step.at, nt) BY <1>3, <1>8 DEF Drop, Doing, Step
  <2> HIDE DEF st
  <2>2. /\ nt \in StoreSet /\ nt.host = [st.host EXCEPT ![Step.id] = IF @ = "live" THEN "dead" ELSE @]
        /\ nt.uses = st.uses /\ nt.key = st.key /\ nt.known = st.known /\ nt.doc = st.doc /\ SameSeals(st, nt)
    BY <1>4, <1>7, DropHostIs
  <2> HIDE DEF nt
  <2>3. store' \in [Space -> StoreSet] /\ store'[Step.at] = nt /\ \A t \in Space : t # Step.at => store'[t] = store[t]
    BY <1>4, <1>6, <2>1, <2>2, OneStore
  <2>4. StoresOK' BY <1>1, <1>4, <1>6, <2>2, <2>3 DEF StoresOK, st
  <2> QED BY <1>2, <1>3, <1>4, <1>5, <1>8, <2>2, <2>3, <2>4 DEF st
<1>9. CASE a = "DropKey"
  <2> DEFINE nt == DropKey(st, Step.id)
  <2>1. SetStore(Step.at, nt) /\ UNCHANGED left BY <1>3, <1>9 DEF Drop, Doing, Step
  <2> HIDE DEF st
  <2>2. /\ nt \in StoreSet /\ nt.host = st.host
        /\ nt.uses = st.uses /\ nt.known = st.known /\ nt.doc = st.doc /\ SameSeals(st, nt)
        /\ \A g \in Gen : nt.key[g] =
             IF g = st.uses[Step.id] /\ st.key[g] = "live" /\ ~\E k \in Id : st.host[k] = "live" /\ st.uses[k] = g
             THEN "dead" ELSE st.key[g]
    BY <1>4, <1>7, DropKeyIs
  <2> HIDE DEF nt
  <2>3. store' \in [Space -> StoreSet] /\ store'[Step.at] = nt /\ \A t \in Space : t # Step.at => store'[t] = store[t]
    BY <1>4, <1>6, <2>1, <2>2, OneStore
  <2>4. StoresOK' BY <1>1, <1>4, <1>6, <2>2, <2>3 DEF StoresOK, st
  <2> QED BY <1>2, <1>3, <1>4, <1>5, <1>9, <2>1, <2>2, <2>3, <2>4 DEF st
<1>10. CASE a = "DropKnown"
  <2> DEFINE nt == DropKnown(st, Step.id)
  <2>1. SetStore(Step.at, nt) /\ UNCHANGED left BY <1>3, <1>10 DEF Drop, Doing, Step
  <2> HIDE DEF st
  <2>2. /\ nt \in StoreSet /\ nt.host = st.host
        /\ nt.uses = st.uses /\ nt.key = st.key /\ nt.doc = st.doc /\ SameSeals(st, nt)
        /\ (\E k \in Id : st.host[k] = "live") => nt.known = st.known
    BY <1>4, <1>7, DropKnownIs
  <2> HIDE DEF nt
  <2>3. store' \in [Space -> StoreSet] /\ store'[Step.at] = nt /\ \A t \in Space : t # Step.at => store'[t] = store[t]
    BY <1>4, <1>6, <2>1, <2>2, OneStore
  <2>4. StoresOK' BY <1>1, <1>4, <1>6, <2>2, <2>3 DEF StoresOK, st
  <2> QED BY <1>2, <1>3, <1>4, <1>5, <1>10, <2>1, <2>2, <2>3, <2>4 DEF st
<1> QED BY <1>2, <1>8, <1>9, <1>10 DEF Dropped

\* Which operation a step belongs to.
LEMMA KindsOf ==
  ASSUME KindOK, op.kind \in Kinds, NEW x \in Todo
  PROVE  /\ x.do \in {"Hold", "Leave", "TakeHosts", "Moved", "TakeKeys", "HandOn", "Unregister", "RemoveFiles",
                      "Retire", "Unleave"} => op.kind = "remove"
         /\ x.do \in {"Begin", "Note", "Import"} => op.kind \in {"move", "remove"}
         /\ x.do \in {"TakeRunning", "Personal", "StageMain", "Stage", "Swap"} => op.kind \in {"main", "remove"}
         /\ x.do \in {"Recover", "DropHost", "DropKey", "DropKnown", "Clear"} => op.kind \in {"none", "move", "remove"}
         /\ x.do \in {"Settle", "Promote", "ClearDoc", "EndHandover", "Unstage"} => op.kind \in {"none", "main", "remove"}
         /\ x.do \in {"Mark", "MakeFile"} => op.kind = "add"
         /\ x.do = "Register" => op.kind = "adopt"
         /\ x.do \in {"Discard", "Unmark"} => op.kind \in {"adopt", "discard"}
         /\ x.do = "Reseal" => op.kind = "adopt"
         /\ x.do = "Failed" => op.kind \in {"move", "main", "remove", "add", "adopt"}
         /\ x.do = "Done" => op.kind # "none"
         /\ x.do \in {"Open", "Ready"} => op.kind = "none"
<1>1. x.do \in Allowed(op.kind) BY DEF KindOK
<1>2. CASE op.kind = "none" BY <1>1, <1>2 DEF Allowed, Starting
<1>3. CASE op.kind = "move" BY <1>1, <1>3 DEF Allowed, MoveNames
<1>4. CASE op.kind = "main" BY <1>1, <1>4 DEF Allowed, SwapNames
<1>5. CASE op.kind = "remove" BY <1>1, <1>5 DEF Allowed, RemoveNames, MoveNames, SwapNames
<1>6. CASE op.kind = "add" BY <1>1, <1>6 DEF Allowed
<1>7. CASE op.kind = "adopt" BY <1>1, <1>7 DEF Allowed
<1>8. CASE op.kind = "discard" BY <1>1, <1>8 DEF Allowed
<1> QED BY <1>2, <1>3, <1>4, <1>5, <1>6, <1>7, <1>8 DEF Kinds

\* What the invariant says of the registry and the operation, where it is needed most.
LEMMA Basics ==
  ASSUME Inv
  PROVE  /\ Shape /\ mem \in Registry /\ reg \in Registry /\ RegOK(mem) /\ RegOK(reg)
         /\ op.kind \in Kinds /\ KindOK /\ StoresOK /\ store \in [Space -> StoreSet]
         /\ mem.main \in mem.entries /\ mem.entries \subseteq Space /\ IsFiniteSet(mem.entries)
         /\ \A s, t \in mem.entries : s # mem.main /\ t # mem.main => s = t
         /\ reg.main \in reg.entries /\ reg.entries \subseteq Space /\ mem.main \in reg.entries
         /\ \A s, t \in reg.entries : s # mem.main /\ t # mem.main => s = t
         /\ mem.entries \subseteq reg.entries
<1>1. mem \in Registry /\ reg \in Registry BY DEF Inv, Types, TypeOK
<1>2. RegOK(mem) /\ RegOK(reg) /\ mem.entries \subseteq reg.entries BY DEF Inv, Registered
<1>3. op.kind \in Kinds /\ KindOK /\ StoresOK /\ Shape BY DEF Inv, Types, StoresOK
<1>4. store \in [Space -> StoreSet] BY <1>3 DEF StoresOK
<1>5. /\ mem.main \in mem.entries /\ mem.entries \subseteq Space /\ IsFiniteSet(mem.entries)
      /\ \A s, t \in mem.entries : s # mem.main /\ t # mem.main => s = t
  BY <1>1, <1>2, EntriesOf
<1>6. /\ reg.main \in reg.entries /\ reg.entries \subseteq Space
      /\ \A s, t \in reg.entries : s # reg.main /\ t # reg.main => s = t
  BY <1>1, <1>2, EntriesOf
<1>7. mem.main \in reg.entries BY <1>2, <1>5
<1>8. \A s, t \in reg.entries : s # mem.main /\ t # mem.main => s = t BY <1>6, <1>7
<1> QED BY <1>1, <1>2, <1>3, <1>4, <1>5, <1>6, <1>7, <1>8

\* The other server of two.
LEMMA OtherIs ==
  ASSUME Inv, NEW s \in mem.entries, mem.entries # {s}
  PROVE  Other(s) \in mem.entries /\ Other(s) # s /\ Other(s) # None
         /\ (mem.main = s \/ Other(s) = mem.main) /\ mem.entries = {s, Other(s)}
<1>1. \E t \in mem.entries \ {s} : TRUE OBVIOUS
<1>2. Other(s) = CHOOSE t \in mem.entries \ {s} : TRUE BY DEF Other
<1>3. Other(s) \in mem.entries /\ Other(s) # s BY <1>1, <1>2
<1>4. mem.main \in mem.entries /\ mem.entries \subseteq Space
      /\ \A u, t \in mem.entries : u # mem.main /\ t # mem.main => u = t
  BY Basics
<1> QED BY <1>3, <1>4, SpacesAssumption

\* The steps of a removal are about a server that is not the only one.
LEMMA RemovalOf ==
  ASSUME Inv, NEW x \in Todo,
         x.do \in {"Hold", "Leave", "TakeHosts", "TakeKeys", "HandOn", "Unregister", "RemoveFiles", "Retire"}
  PROVE  /\ op.kind = "remove" /\ x.at = op.space /\ op.space \in Space /\ Removing
         /\ x.do \notin {"RemoveFiles", "Retire"} =>
              /\ x.at \in mem.entries /\ mem.entries # {x.at}
              /\ Other(x.at) \in mem.entries /\ Other(x.at) # x.at /\ Other(x.at) # None
              /\ mem.main = x.at \/ Other(x.at) = mem.main
              /\ mem.entries = {x.at, Other(x.at)}
<1>1. op.kind = "remove" BY Basics, KindsOf
<1>2. op.space \in Space /\ Removing BY <1>1 DEF Inv, KindOK
<1>3. x.at = op.space BY <1>1, <1>2 DEF Removing
<1>4. x.do \notin {"RemoveFiles", "Retire"} => op.space \in mem.entries /\ mem.entries # {op.space}
  BY <1>1, <1>2 DEF Removing
<1> QED BY <1>1, <1>2, <1>3, <1>4, OtherIs

\* Taking the keys no host uses adds keys to the server that stays.
LEMMA TakeKeysIs ==
  ASSUME Inv, TakeKeys
  PROVE  LET rest == Other(Step.at) IN
         /\ Shape' /\ StoresOK' /\ rest \in mem.entries /\ rest \in Space /\ Step \in Todo /\ Step.do = "TakeKeys"
         /\ op.kind = "remove" /\ Step.at = op.space /\ rest # op.space
         /\ \/ UNCHANGED store /\ Fallen({})
            \/ /\ Popped
               /\ \A s \in Space : s # rest => store'[s] = store[s]
               /\ store'[rest].host = store[rest].host /\ store'[rest].uses = store[rest].uses
               /\ store'[rest].known = store[rest].known /\ store'[rest].doc = store[rest].doc
               /\ SameSeals(store[rest], store'[rest])
               /\ \A g \in Gen : \/ store'[rest].key[g] = store[rest].key[g]
                                 \/ store'[rest].key[g] = "live" /\ store[rest].key[g] = "none"
<1> DEFINE rest == Other(Step.at)
           lack == {g \in Gen : store[Step.at].key[g] = "live" /\ store[rest].key[g] # "live"}
           nt == ImportKeys(store[rest], lack)
<1>1. Shape /\ Doing("TakeKeys") /\ UNCHANGED now BY DEF Inv, TakeKeys
<1>2. todo # <<>> /\ Step.do = "TakeKeys" /\ Step \in Todo /\ Step.at \in Space BY <1>1, AtStep DEF Placed
<1>3. rest \in mem.entries /\ rest # Step.at /\ op.kind = "remove" /\ Step.at = op.space BY <1>2, RemovalOf
<1>4. rest \in Space BY <1>3, Basics
<1>5. store \in [Space -> StoreSet] /\ now \in Nat \ {0} /\ \A s \in Space : store[s].doc.at < now
  BY DEF Inv, Types
<1>6. CASE todo' = Unwind /\ UNCHANGED store
  <2>1. Shape' /\ Fallen({}) BY <1>6, UnwindStep
  <2> QED BY <1>1, <1>2, <1>3, <1>4, <1>5, <1>6, <2>1 DEF StoresOK
<1>7. CASE ~(todo' = Unwind /\ UNCHANGED store)
  <2>1. (lack # {} => FreshKeys # {}) /\ Then(<<>>) /\ SetStore(rest, nt) BY <1>7 DEF TakeKeys
  <2>2. Shape' /\ Popped BY <1>1, <1>2, <2>1, PopStep
  <2>3. store[rest] \in StoreSet /\ lack \in SUBSET Gen BY <1>4, <1>5
  <2> HIDE DEF lack
  <2>4. /\ nt \in StoreSet
        /\ nt.host = store[rest].host /\ nt.uses = store[rest].uses /\ nt.known = store[rest].known
        /\ nt.doc = store[rest].doc /\ SameSeals(store[rest], nt)
        /\ \A g \in Gen : \/ nt.key[g] = store[rest].key[g]
                          \/ nt.key[g] = "live" /\ (store[rest].key[g] = "none" \/ g \in FreshKeys)
    BY <2>1, <2>3, ImportKeysIs
  <2> HIDE DEF nt, rest
  <2>5. store' \in [Space -> StoreSet] /\ store'[rest] = nt /\ \A t \in Space : t # rest => store'[t] = store[t]
    BY <1>4, <1>5, <2>1, <2>4, OneStore
  <2>6. StoresOK' BY <1>1, <1>4, <1>5, <2>4, <2>5 DEF StoresOK
  <2>7. \A g \in FreshKeys : store[rest].key[g] = "none" BY <1>4 DEF FreshKeys
  <2> QED BY <1>2, <1>3, <1>4, <2>2, <2>4, <2>5, <2>6, <2>7 DEF rest
<1> QED BY <1>6, <1>7

\* Where a host is found it is.
LEMMA HostSpaceIs ==
  ASSUME Inv, NEW i \in Id, \E e \in Listed : e[2] = i
  PROVE  HostSpace(i) \in mem.entries /\ Live(HostSpace(i), i)
<1> DEFINE found == {s \in mem.entries : Live(s, i)}
           foremost == IF mem.main \in found THEN mem.main ELSE CHOOSE s \in found : TRUE
           j == mem.journal
<1>1. found # {}
  <2>1. PICK e \in Listed : e[2] = i OBVIOUS
  <2>2. e \in mem.entries \X Id /\ Live(e[1], e[2]) BY <2>1 DEF Listed
  <2>3. e[1] \in found BY <2>1, <2>2
  <2> QED BY <2>3
<1>2. foremost \in found BY <1>1
<1>3. CASE Arrived(j) /\ j.host = i /\ j.target = i /\ foremost = j.from
  <2>1. HostSpace(i) = j.to BY <1>1, <1>3 DEF HostSpace
  <2> QED BY <1>3, <2>1 DEF Arrived
<1>4. CASE ~(Arrived(j) /\ j.host = i /\ j.target = i /\ foremost = j.from)
  <2>1. HostSpace(i) = foremost BY <1>1, <1>4 DEF HostSpace
  <2> QED BY <1>2, <2>1
<1> QED BY <1>3, <1>4

\* A host is deleted, here or by another device.
Deleting(s, i) ==
  /\ s \in Space /\ i \in Id /\ Live(s, i) /\ SetStore(s, DropHost(store[s], i))
  /\ deleted' = deleted \cup {i[1]}
  /\ UNCHANGED <<reg, files, marker, mem, up, open, pending, op, todo, held, gone, running,
                 left, wiped, unnoted, doc, chained, now>>

\* A host is deleted here, or by another device.
LEMMA DeleteCases ==
  ASSUME Inv, (\E i \in Id : DeleteHost(i)) \/ (\E s \in Space, i \in Id : PassPull(s, i))
  PROVE  \E s \in Space, i \in Id : Deleting(s, i)
<1>1. ASSUME NEW i \in Id, DeleteHost(i) PROVE \E s \in Space : Deleting(s, i)
  <2>1. \E e \in Listed : e[2] = i BY <1>1 DEF DeleteHost
  <2>2. HostSpace(i) \in mem.entries /\ Live(HostSpace(i), i) BY <2>1, HostSpaceIs
  <2>3. HostSpace(i) \in Space BY <2>2, Basics
  <2>4. Deleting(HostSpace(i), i) BY <1>1, <2>2, <2>3 DEF DeleteHost, Deleting, flags
  <2> QED BY <2>3, <2>4
<1>2. ASSUME NEW s \in Space, NEW i \in Id, PassPull(s, i) PROVE Deleting(s, i)
  BY <1>2 DEF PassPull, Deleting, flags
<1> QED BY <1>1, <1>2

\* Deleting a host changes its row and nothing else.
LEMMA DeletingIs ==
  ASSUME Inv, NEW s \in Space, NEW i \in Id, Deleting(s, i)
  PROVE  /\ StoresOK' /\ \A t \in Space : t # s => store'[t] = store[t]
         /\ store'[s].host = [store[s].host EXCEPT ![i] = "dead"]
         /\ store'[s].uses = store[s].uses /\ store'[s].key = store[s].key /\ store'[s].known = store[s].known
         /\ store'[s].doc = store[s].doc /\ SameSeals(store[s], store'[s])
<1> DEFINE nt == DropHost(store[s], i)
<1>1. store \in [Space -> StoreSet] /\ now \in Nat \ {0} /\ \A t \in Space : store[t].doc.at < now
  BY DEF Inv, Types
<1>2. SetStore(s, nt) /\ UNCHANGED now /\ store[s].host[i] = "live" BY DEF Deleting, Live
<1>3. store[s] \in StoreSet BY <1>1
<1>4. /\ nt \in StoreSet /\ nt.host = [store[s].host EXCEPT ![i] = IF @ = "live" THEN "dead" ELSE @]
      /\ nt.uses = store[s].uses /\ nt.key = store[s].key /\ nt.known = store[s].known
      /\ nt.doc = store[s].doc /\ SameSeals(store[s], nt)
  BY <1>3, DropHostIs
<1> HIDE DEF nt
<1>5. store' \in [Space -> StoreSet] /\ store'[s] = nt /\ \A t \in Space : t # s => store'[t] = store[t]
  BY <1>1, <1>2, <1>4, OneStore
<1>6. StoresOK' BY <1>1, <1>2, <1>4, <1>5 DEF StoresOK
<1> QED BY <1>2, <1>4, <1>5, <1>6

\* Stores that are emptied.
LEMMA EmptiedIs ==
  ASSUME Inv, RemoveFiles \/ Discard
  PROVE  /\ Shape' /\ Popped /\ StoresOK' /\ Step.at \in Space /\ Step \in Todo
         /\ store'[Step.at] = EmptyStore /\ \A s \in Space : s # Step.at => store'[s] = store[s]
<1>1. PICK a \in {"RemoveFiles", "Discard"} : Doing(a) BY DEF RemoveFiles, Discard
<1>2. Shape /\ Then(<<>>) /\ SetStore(Step.at, EmptyStore) /\ UNCHANGED now
  BY DEF Inv, RemoveFiles, Discard
<1>3. todo # <<>> /\ Step \in Todo /\ Step.at \in Space BY <1>1, <1>2, AtStep DEF Placed
<1>4. Shape' /\ Popped BY <1>2, <1>3, PopStep
<1>5. store \in [Space -> StoreSet] /\ now \in Nat \ {0} /\ \A t \in Space : store[t].doc.at < now
  BY DEF Inv, Types
<1>6. store' \in [Space -> StoreSet] /\ store'[Step.at] = EmptyStore /\ \A t \in Space : t # Step.at => store'[t] = store[t]
  BY <1>2, <1>3, <1>5, EmptyIs, OneStore
<1>7. StoresOK' BY <1>2, <1>5, <1>6, EmptyIs DEF StoresOK
<1> QED BY <1>3, <1>4, <1>6, <1>7

\* A start removes files of servers that were never set up, and makes missing ones.
LEMMA OpenIs ==
  ASSUME Inv, Opens
  PROVE  /\ Shape' /\ Fresh({Do("Settle"), Do("Recover"), Do("Ready")}, Do("Settle")) /\ StoresOK'
         /\ \E W \in SUBSET Swept :
              /\ \A s \in Space : store'[s] = IF s \in W THEN EmptyStore ELSE store[s]
              /\ files' = (files \cup reg.entries) \ W
              /\ left' = {e \in left : e[1] \notin W}
         /\ Step \in Todo /\ Step.do = "Open" /\ op.kind = "none" /\ ~up
<1>1. Shape /\ Doing("Open") /\ UNCHANGED now
  <2>1. CASE Open BY <2>1 DEF Inv, Open
  <2>2. CASE Sweeps BY <2>2 DEF Inv, Sweeps, Fail, FailSweep
  <2> QED BY <2>1, <2>2 DEF Opens
<1>2. todo # <<>> /\ Step \in Todo /\ Step.do = "Open" BY <1>1, AtStep
<1>3. op.kind = "none" BY <1>2, Basics, KindsOf
<1>4. ~up BY <1>2, <1>3 DEF Inv, KindOK
<1>5. PICK W \in SUBSET Swept, cleared \in SUBSET marker : Opened(W, cleared)
  <2>1. CASE Open BY <2>1 DEF Open
  <2>2. CASE Sweeps BY <2>2 DEF Sweeps, FailSweep
  <2> QED BY <2>1, <2>2 DEF Opens
<1>6. store \in [Space -> StoreSet] /\ now \in Nat \ {0} /\ \A t \in Space : store[t].doc.at < now
  BY DEF Inv, Types
<1>7. /\ store' = [s \in Space |-> IF s \in W THEN EmptyStore ELSE store[s]]
      /\ files' = (files \cup reg.entries) \ W /\ left' = {e \in left : e[1] \notin W}
      /\ todo' = <<Do("Settle"), Do("Recover"), Do("Ready")>>
  BY <1>5 DEF Opened
<1>8. Shape' /\ Fresh({Do("Settle"), Do("Recover"), Do("Ready")}, Do("Settle")) BY <1>7, OpenList
<1>9. store' \in [Space -> StoreSet] /\ \A s \in Space : store'[s] = IF s \in W THEN EmptyStore ELSE store[s]
  BY <1>6, <1>7, EmptyIs
<1>10. StoresOK' BY <1>1, <1>6, <1>9, EmptyIs DEF StoresOK
<1> QED BY <1>2, <1>3, <1>4, <1>7, <1>8, <1>9, <1>10

\* Changes of what a store says besides its hosts and keys.
LEMMA OtherFields ==
  ASSUME NEW st \in StoreSet
  PROVE  /\ \A k \in Seal : /\ [st EXCEPT !.kept = k] \in StoreSet /\ SameRows(st, [st EXCEPT !.kept = k])
                            /\ [st EXCEPT !.kept = k].kept = k /\ [st EXCEPT !.kept = k].staged = st.staged
                            /\ [st EXCEPT !.kept = k].doc = st.doc
         /\ \A k \in Seal \cup {"nothing", "forget"} :
              /\ [st EXCEPT !.staged = k] \in StoreSet /\ SameRows(st, [st EXCEPT !.staged = k])
              /\ [st EXCEPT !.staged = k].staged = k /\ [st EXCEPT !.staged = k].kept = st.kept
              /\ [st EXCEPT !.staged = k].doc = st.doc
         /\ \A d \in [val : 0 .. MaxOps, at : Nat] :
              /\ [st EXCEPT !.doc = d] \in StoreSet /\ SameRows(st, [st EXCEPT !.doc = d])
              /\ SameSeals(st, [st EXCEPT !.doc = d]) /\ [st EXCEPT !.doc = d].doc = d
<1>1. ASSUME NEW k \in Seal
      PROVE  /\ [st EXCEPT !.kept = k] \in StoreSet /\ SameRows(st, [st EXCEPT !.kept = k])
             /\ [st EXCEPT !.kept = k].kept = k /\ [st EXCEPT !.kept = k].staged = st.staged
             /\ [st EXCEPT !.kept = k].doc = st.doc
  BY DEF StoreSet, SameRows
<1>2. ASSUME NEW k \in Seal \cup {"nothing", "forget"}
      PROVE  /\ [st EXCEPT !.staged = k] \in StoreSet /\ SameRows(st, [st EXCEPT !.staged = k])
             /\ [st EXCEPT !.staged = k].staged = k /\ [st EXCEPT !.staged = k].kept = st.kept
             /\ [st EXCEPT !.staged = k].doc = st.doc
  BY DEF StoreSet, SameRows
<1>3. ASSUME NEW d \in [val : 0 .. MaxOps, at : Nat]
      PROVE  /\ [st EXCEPT !.doc = d] \in StoreSet /\ SameRows(st, [st EXCEPT !.doc = d])
             /\ SameSeals(st, [st EXCEPT !.doc = d]) /\ [st EXCEPT !.doc = d].doc = d
  BY DEF StoreSet, SameRows, SameSeals
<1> QED BY <1>1, <1>2, <1>3

\* import_personal writes the key bindings of the new main server only.
LEMMA PersonalIs ==
  ASSUME Inv, Personal
  PROVE  /\ Shape' /\ StoresOK' /\ Step \in Todo /\ Step.do = "Personal" /\ Step.at \in Space
         /\ \A s \in Space : SameRows(store[s], store'[s]) /\ SameSeals(store[s], store'[s])
         /\ \/ UNCHANGED store /\ Fallen({})
            \/ /\ Popped /\ {mem.main, Step.at} \subseteq open
               /\ \A s \in Space : s # Step.at => store'[s] = store[s]
               /\ LET d == store[mem.main].doc
                      e == store[Step.at].doc
                  IN store'[Step.at].doc =
                       IF d.val # 0 /\ (e.val = 0 \/ d.at > e.at) THEN [val |-> d.val, at |-> now] ELSE e
<1>1. Shape /\ Doing("Personal") /\ now' = now + 1 BY DEF Inv, Personal
<1>2. todo # <<>> /\ Step \in Todo /\ Step.do = "Personal" /\ Step.at \in Space BY <1>1, AtStep DEF Placed
<1>3. store \in [Space -> StoreSet] /\ now \in Nat \ {0} /\ \A t \in Space : store[t].doc.at < now
  BY DEF Inv, Types
<1>4. mem.main \in Space BY Basics
<1>5. CASE {mem.main, Step.at} \subseteq open
  <2> DEFINE st == store[Step.at]
             d == store[mem.main].doc
             nt == ImportPersonal(st, d)
             r == [val |-> d.val, at |-> now]
  <2>1. Then(<<>>) /\ SetStore(Step.at, nt) BY <1>5 DEF Personal, Exported, SetStore
  <2>2. Shape' /\ Popped BY <1>1, <1>2, <2>1, PopStep
  <2>3. st \in StoreSet /\ d \in [val : 0 .. MaxOps, at : Nat] /\ r \in [val : 0 .. MaxOps, at : Nat]
    <3>1. st \in StoreSet /\ store[mem.main] \in StoreSet BY <1>2, <1>3, <1>4
    <3>2. d \in [val : 0 .. MaxOps, at : Nat] BY <3>1, StoreFields
    <3> HIDE DEF d
    <3> QED BY <1>3, <3>1, <3>2
  <2>4. nt = IF d.val # 0 /\ (st.doc.val = 0 \/ d.at > st.doc.at) THEN [st EXCEPT !.doc = r] ELSE st
    BY DEF ImportPersonal
  <2> HIDE DEF st, d, nt, r
  <2>5. /\ nt \in StoreSet /\ SameRows(st, nt) /\ SameSeals(st, nt)
        /\ nt.doc = IF d.val # 0 /\ (st.doc.val = 0 \/ d.at > st.doc.at) THEN r ELSE st.doc
    BY <2>3, <2>4, OtherFields DEF SameRows, SameSeals
  <2>6. store' \in [Space -> StoreSet] /\ store'[Step.at] = nt /\ \A t \in Space : t # Step.at => store'[t] = store[t]
    BY <1>2, <1>3, <2>1, <2>5, OneStore
  <2>7. nt.doc.at < now + 1
    <3>1. st.doc.at < now BY <1>2, <1>3 DEF st
    <3>2. st.doc.at \in Nat BY <2>3, StoreFields
    <3>3. r.at = now BY DEF r
    <3> QED BY <1>3, <2>5, <3>1, <3>2, <3>3
  <2>8. \A t \in Space : store[t].doc.at < now + 1
    <3>1. \A t \in Space : store[t].doc.at \in Nat BY <1>3, StoreFields
    <3> QED BY <1>3, <3>1
  <2>9. StoresOK' BY <1>1, <1>3, <2>6, <2>7, <2>8 DEF StoresOK
  <2>10. \A t \in Space : SameRows(store[t], store'[t]) /\ SameSeals(store[t], store'[t])
    BY <2>5, <2>6 DEF st, SameRows, SameSeals
  <2> QED BY <1>2, <1>5, <2>2, <2>5, <2>6, <2>9, <2>10 DEF st, d, r
<1>6. CASE ~({mem.main, Step.at} \subseteq open)
  <2>1. todo' = Unwind /\ UNCHANGED store BY <1>6 DEF Personal
  <2>2. Shape' /\ Fallen({}) BY <2>1, UnwindStep
  <2>3. \A t \in Space : store[t].doc.at < now + 1
    <3>1. \A t \in Space : store[t].doc.at \in Nat BY <1>3, StoreFields
    <3> QED BY <1>3, <3>1
  <2>4. StoresOK' BY <1>1, <1>3, <2>1, <2>3 DEF StoresOK
  <2> QED BY <1>2, <2>1, <2>2, <2>4 DEF SameRows, SameSeals
<1> QED BY <1>5, <1>6

\* One store's seals change.
LEMMA SealSet ==
  ASSUME Inv, NEW s \in Space, NEW st \in StoreSet, SetStore(s, st), UNCHANGED now,
         SameRows(store[s], st), st.doc = store[s].doc
  PROVE  /\ StoresOK' /\ store'[s] = st /\ \A t \in Space : t # s => store'[t] = store[t]
         /\ \A t \in Space : SameRows(store[t], store'[t]) /\ store'[t].doc = store[t].doc
<1>1. store \in [Space -> StoreSet] /\ now \in Nat \ {0} /\ \A t \in Space : store[t].doc.at < now
  BY DEF Inv, Types
<1>2. store' \in [Space -> StoreSet] /\ store'[s] = st /\ \A t \in Space : t # s => store'[t] = store[t]
  BY <1>1, OneStore
<1>3. StoresOK' BY <1>1, <1>2 DEF StoresOK
<1> QED BY <1>2, <1>3 DEF SameRows

\* Staging the new main server's key changes no row.
LEMMA StageMainIs ==
  ASSUME Inv, StageMain
  PROVE  /\ Shape' /\ StoresOK' /\ Step \in Todo /\ Step.do = "StageMain" /\ Step.at \in Space
         /\ \A s \in Space : SameRows(store[s], store'[s]) /\ store'[s].doc = store[s].doc
                             /\ store'[s].kept = store[s].kept
         /\ \/ UNCHANGED store /\ Fallen({"Unstage"})
            \/ Popped /\ \A s \in Space : s # Step.at => store'[s] = store[s]
<1>1. Shape /\ Doing("StageMain") /\ UNCHANGED now BY DEF Inv, StageMain
<1>2. todo # <<>> /\ Step \in Todo /\ Step.do = "StageMain" /\ Step.at \in Space BY <1>1, AtStep DEF Placed
<1>3. StoresOK /\ store[Step.at] \in StoreSet BY <1>2, Basics
<1>4. ASSUME NEW k \in {"forget", "os"}, Then(<<>>), SetStore(Step.at, Stage(store[Step.at], k))
      PROVE  /\ Shape' /\ StoresOK' /\ Popped
             /\ \A s \in Space : SameRows(store[s], store'[s]) /\ store'[s].doc = store[s].doc
                                 /\ store'[s].kept = store[s].kept
             /\ \A s \in Space : s # Step.at => store'[s] = store[s]
  <2> DEFINE st == Stage(store[Step.at], k)
  <2>1. Shape' /\ Popped BY <1>1, <1>2, <1>4, PopStep
  <2>2. st \in StoreSet /\ SameRows(store[Step.at], st) /\ st.doc = store[Step.at].doc /\ st.kept = store[Step.at].kept
    BY <1>3, OtherFields DEF Stage, Seal
  <2>3. SetStore(Step.at, st) BY <1>4
  <2> HIDE DEF st
  <2>4. /\ StoresOK' /\ store'[Step.at] = st /\ \A t \in Space : t # Step.at => store'[t] = store[t]
        /\ \A t \in Space : SameRows(store[t], store'[t]) /\ store'[t].doc = store[t].doc
    BY <1>1, <1>2, <2>2, <2>3, SealSet
  <2> QED BY <2>1, <2>2, <2>4
<1>5. CASE todo' = Each("Unstage", mem.entries) \o Unwind /\ UNCHANGED store
  <2>1. Shape' /\ Fallen({"Unstage"}) BY <1>5, Basics, UnstageStep
  <2> QED BY <1>1, <1>2, <1>3, <1>5, <2>1 DEF StoresOK, SameRows
<1>6. \/ \E k \in {"forget", "os"} : Then(<<>>) /\ SetStore(Step.at, Stage(store[Step.at], k))
      \/ todo' = Each("Unstage", mem.entries) \o Unwind /\ UNCHANGED store
  BY DEF StageMain
<1> QED BY <1>2, <1>4, <1>5, <1>6

\* Staging the other servers' keys changes no row.
LEMMA StageOtherIs ==
  ASSUME Inv, StageOther
  PROVE  /\ Shape' /\ StoresOK' /\ Step \in Todo /\ Step.do = "Stage" /\ Step.at \in Space /\ Step.main \in Space
         /\ \A s \in Space : SameRows(store[s], store'[s]) /\ store'[s].doc = store[s].doc
                             /\ store'[s].kept = store[s].kept
         /\ \/ UNCHANGED store /\ Fallen({"Unstage"})
            \/ UNCHANGED store /\ Popped /\ Step.at \notin open
            \/ /\ Popped /\ Step.main \in open /\ store'[Step.at].staged = Step.main
               /\ Step.at \in open
               /\ \A s \in Space : s # Step.at => store'[s] = store[s]
<1>1. Shape /\ Doing("Stage") /\ UNCHANGED now BY DEF Inv, StageOther
<1>2. todo # <<>> /\ Step \in Todo /\ Step.do = "Stage" /\ Step.at \in Space /\ Step.main \in Space
  BY <1>1, AtStep, StepFields
<1>3. StoresOK /\ store[Step.at] \in StoreSet BY <1>2, Basics
<1>4. CASE Step.at \notin open
  <2>1. Then(<<>>) /\ UNCHANGED store BY <1>4 DEF StageOther
  <2>2. Shape' /\ Popped BY <1>1, <1>2, <2>1, PopStep
  <2> QED BY <1>1, <1>2, <1>3, <1>4, <2>1, <2>2 DEF StoresOK, SameRows
<1>5. CASE Step.at \in open /\ Step.main \in open
  <2> DEFINE st == Stage(store[Step.at], Step.main)
  <2>1. Then(<<>>) /\ SetStore(Step.at, st) BY <1>5 DEF StageOther
  <2>2. Shape' /\ Popped BY <1>1, <1>2, <2>1, PopStep
  <2>3. Step.main \in Seal \cup {"nothing", "forget"} BY <1>2 DEF Seal
  <2>4. /\ st \in StoreSet /\ SameRows(store[Step.at], st) /\ st.doc = store[Step.at].doc
        /\ st.kept = store[Step.at].kept /\ st.staged = Step.main
    BY <1>3, <2>3, OtherFields DEF Stage
  <2> HIDE DEF st
  <2>5. /\ StoresOK' /\ store'[Step.at] = st /\ \A t \in Space : t # Step.at => store'[t] = store[t]
        /\ \A t \in Space : SameRows(store[t], store'[t]) /\ store'[t].doc = store[t].doc
    BY <1>1, <1>2, <2>1, <2>4, SealSet
  <2> QED BY <1>2, <1>5, <2>2, <2>4, <2>5
<1>6. CASE Step.at \in open /\ Step.main \notin open
  <2>1. todo' = Each("Unstage", mem.entries) \o Unwind /\ UNCHANGED store BY <1>6 DEF StageOther
  <2>2. Shape' /\ Fallen({"Unstage"}) BY <2>1, Basics, UnstageStep
  <2> QED BY <1>1, <1>2, <1>3, <2>1, <2>2 DEF StoresOK, SameRows
<1> QED BY <1>4, <1>5, <1>6

\* Forgetting what is staged changes no row.
LEMMA UnstageIs ==
  ASSUME Inv, Unstage
  PROVE  /\ Shape' /\ Popped /\ StoresOK' /\ Step \in Todo /\ Step.do = "Unstage" /\ Step.at \in Space
         /\ \A s \in Space : SameRows(store[s], store'[s]) /\ store'[s].doc = store[s].doc
                             /\ store'[s].kept = store[s].kept
<1>1. Shape /\ Doing("Unstage") /\ UNCHANGED now /\ Then(<<>>) BY DEF Inv, Unstage
<1>2. todo # <<>> /\ Step \in Todo /\ Step.do = "Unstage" /\ Step.at \in Space BY <1>1, AtStep DEF Placed
<1>3. store[Step.at] \in StoreSet BY <1>2, Basics
<1>4. Shape' /\ Popped BY <1>1, <1>2, PopStep
<1> DEFINE st == Stage(store[Step.at], "nothing")
<1>5. SetStore(Step.at, st) BY DEF Unstage
<1>6. /\ st \in StoreSet /\ SameRows(store[Step.at], st) /\ st.doc = store[Step.at].doc
      /\ st.kept = store[Step.at].kept
  BY <1>3, OtherFields DEF Stage
<1> HIDE DEF st
<1>7. /\ StoresOK' /\ store'[Step.at] = st /\ \A t \in Space : t # Step.at => store'[t] = store[t]
      /\ \A t \in Space : SameRows(store[t], store'[t]) /\ store'[t].doc = store[t].doc
  BY <1>1, <1>2, <1>5, <1>6, SealSet
<1> QED BY <1>2, <1>4, <1>6, <1>7

\* promote_staged: what is staged becomes what is kept.
LEMMA PromoteIs ==
  ASSUME NEW st \in StoreSet
  PROVE  /\ Promote(st) \in StoreSet /\ SameRows(st, Promote(st)) /\ Promote(st).doc = st.doc
         /\ Promote(st).staged = "nothing"
         /\ st.staged = "nothing" => Promote(st).kept = st.kept
         /\ st.staged \in Space => Promote(st).kept = st.staged
<1> DEFINE k == CASE st.staged = "nothing" -> st.kept [] st.staged = "forget" -> "none" [] OTHER -> st.staged
           mt == [st EXCEPT !.kept = k]
<1>1. k \in Seal /\ (st.staged = "nothing" => k = st.kept) /\ (st.staged \in Space => k = st.staged)
  BY StoreFields, SpacesAssumption DEF Seal
<1>2. Promote(st) = [mt EXCEPT !.staged = "nothing"] BY DEF Promote
<1> HIDE DEF k
<1>3. mt \in StoreSet /\ SameRows(st, mt) /\ mt.kept = k /\ mt.doc = st.doc BY <1>1, OtherFields
<1> HIDE DEF mt
<1>4. /\ [mt EXCEPT !.staged = "nothing"] \in StoreSet /\ SameRows(mt, [mt EXCEPT !.staged = "nothing"])
      /\ [mt EXCEPT !.staged = "nothing"].kept = mt.kept /\ [mt EXCEPT !.staged = "nothing"].doc = mt.doc
      /\ [mt EXCEPT !.staged = "nothing"].staged = "nothing"
  BY <1>3, OtherFields
<1> QED BY <1>1, <1>2, <1>3, <1>4 DEF SameRows

\* The steps of settle_handover: promote in each store, clear the old main one.
LEMMA SettleStepIs ==
  ASSUME Inv, SettleStep
  PROVE  /\ Shape' /\ Popped /\ StoresOK' /\ Step \in Todo /\ Step.at \in Space
         /\ Step.do \in {"Promote", "ClearDoc"}
         /\ \A s \in Space : SameRows(store[s], store'[s])
         /\ \A s \in Space : s # Step.at => store'[s] = store[s]
         /\ Step.do = "Promote" =>
              /\ store'[Step.at].staged = "nothing" /\ UNCHANGED now
              /\ store[Step.at].staged = "nothing" => store'[Step.at].kept = store[Step.at].kept
              /\ store[Step.at].staged \in Space => store'[Step.at].kept = store[Step.at].staged
              /\ store'[Step.at].doc = store[Step.at].doc
         /\ Step.do = "ClearDoc" =>
              /\ SameSeals(store[Step.at], store'[Step.at])
              /\ store'[Step.at].doc.val = 0
<1>1. Shape /\ Then(<<>>) BY DEF Inv, SettleStep
<1>2. PICK a \in {"Promote", "ClearDoc"} : Doing(a) BY DEF SettleStep
<1>3. todo # <<>> /\ Step \in Todo /\ Step.do = a /\ Step.at \in Space BY <1>1, <1>2, AtStep DEF Placed
<1>4. store \in [Space -> StoreSet] /\ now \in Nat \ {0} /\ \A t \in Space : store[t].doc.at < now
  BY DEF Inv, Types
<1>5. store[Step.at] \in StoreSet BY <1>3, <1>4
<1>6. Shape' /\ Popped BY <1>1, <1>3, PopStep
<1>7. CASE a = "Promote"
  <2> DEFINE st == Promote(store[Step.at])
  <2>1. SetStore(Step.at, st) /\ UNCHANGED now BY <1>3, <1>7 DEF SettleStep, Doing, Step
  <2>2. /\ st \in StoreSet /\ SameRows(store[Step.at], st) /\ st.doc = store[Step.at].doc /\ st.staged = "nothing"
        /\ store[Step.at].staged = "nothing" => st.kept = store[Step.at].kept
        /\ store[Step.at].staged \in Space => st.kept = store[Step.at].staged
    BY <1>5, PromoteIs
  <2> HIDE DEF st
  <2>3. /\ StoresOK' /\ store'[Step.at] = st /\ \A t \in Space : t # Step.at => store'[t] = store[t]
        /\ \A t \in Space : SameRows(store[t], store'[t]) /\ store'[t].doc = store[t].doc
    BY <1>3, <2>1, <2>2, SealSet
  <2> QED BY <1>3, <1>6, <1>7, <2>1, <2>2, <2>3
<1>8. CASE a = "ClearDoc"
  <2> DEFINE st == ClearPersonal(store[Step.at])
             r == [val |-> 0, at |-> now]
  <2>1. SetStore(Step.at, st) /\ now' = now + 1 BY <1>3, <1>8 DEF SettleStep, Doing, Step
  <2>2. r \in [val : 0 .. MaxOps, at : Nat] BY <1>4, SpacesAssumption
  <2>3. st = IF store[Step.at].doc.val = 0 THEN store[Step.at] ELSE [store[Step.at] EXCEPT !.doc = r]
    BY DEF ClearPersonal
  <2>4. r.at = now /\ r.val = 0 OBVIOUS
  <2> HIDE DEF st, r
  <2>5. /\ st \in StoreSet /\ SameRows(store[Step.at], st) /\ SameSeals(store[Step.at], st)
        /\ st.doc = IF store[Step.at].doc.val = 0 THEN store[Step.at].doc ELSE r
    BY <1>5, <2>2, <2>3, OtherFields DEF SameRows, SameSeals
  <2>6. store' \in [Space -> StoreSet] /\ store'[Step.at] = st /\ \A t \in Space : t # Step.at => store'[t] = store[t]
    BY <1>3, <1>4, <2>1, <2>5, OneStore
  <2>7. \A t \in Space : store[t].doc.at < now + 1
    <3>1. \A t \in Space : store[t].doc.at \in Nat BY <1>4, StoreFields
    <3> QED BY <1>4, <3>1
  <2>8. st.doc.at < now + 1 /\ st.doc.val = 0 BY <1>3, <1>4, <2>4, <2>5, <2>7
  <2>9. StoresOK' BY <1>3, <1>4, <2>1, <2>6, <2>7, <2>8 DEF StoresOK
  <2>10. \A t \in Space : SameRows(store[t], store'[t]) BY <2>5, <2>6 DEF SameRows
  <2> QED BY <1>3, <1>6, <1>8, <2>1, <2>5, <2>6, <2>8, <2>9, <2>10
<1> QED BY <1>7, <1>8

\* A change of where the key of one vault is kept.
LEMMA KeptIs ==
  ASSUME Inv, NEW s \in Space, NEW k \in Seal, UNCHANGED now,
         SetStore(s, [store[s] EXCEPT !.kept = k])
  PROVE  /\ StoresOK' /\ store'[s].kept = k
         /\ \A t \in Space : /\ SameRows(store[t], store'[t]) /\ store'[t].doc = store[t].doc
                             /\ store'[t].staged = store[t].staged
                             /\ t # s => store'[t] = store[t]
<1>1. store \in [Space -> StoreSet] /\ now \in Nat \ {0} /\ \A t \in Space : store[t].doc.at < now
  BY DEF Inv, Types
<1> DEFINE st == [store[s] EXCEPT !.kept = k]
<1>2. store[s] \in StoreSet BY <1>1
<1>3. /\ st \in StoreSet /\ SameRows(store[s], st) /\ st.doc = store[s].doc
      /\ st.staged = store[s].staged /\ st.kept = k
  BY <1>2, OtherFields DEF SameRows
<1>4. SetStore(s, st) OBVIOUS
<1> HIDE DEF st
<1>5. store' \in [Space -> StoreSet] /\ store'[s] = st /\ \A t \in Space : t # s => store'[t] = store[t]
  BY <1>1, <1>3, <1>4, OneStore
<1>6. StoresOK' BY <1>1, <1>3, <1>5 DEF StoresOK
<1> QED BY <1>3, <1>5, <1>6 DEF SameRows

\* Nothing but what is open changes.
LEMMA KeptNot ==
  ASSUME Inv, UNCHANGED <<store, now>>
  PROVE  StoresOK' /\ \A t \in Space : SameRows(store[t], store'[t]) /\ store'[t] = store[t]
BY Basics DEF StoresOK, SameRows

\* Sealing a key under the main one changes only how it is kept.
LEMMA ResealIs ==
  ASSUME Inv, Reseal
  PROVE  /\ StoresOK'
         /\ \A s \in Space : /\ SameRows(store[s], store'[s]) /\ store'[s].doc = store[s].doc
                             /\ store'[s].staged = store[s].staged
                             /\ store'[s].kept \in {store[s].kept, mem.main}
<1>1. StepOf("Reseal") /\ Step.at \in Space /\ mem.main \in Space /\ UNCHANGED now
  <2>1. Shape /\ Doing("Reseal") BY DEF Inv, Reseal
  <2>2. mem.main \in Space BY Basics
  <2> QED BY <2>1, <2>2, AtStep DEF StepOf, Placed, Reseal
<1>2. CASE UNCHANGED store BY <1>1, <1>2, KeptNot
<1>3. CASE SetStore(Step.at, Resealed(mem.main, Step.at))
  <2>1. mem.main \in Seal BY <1>1 DEF Seal
  <2>2. SetStore(Step.at, [store[Step.at] EXCEPT !.kept = mem.main]) BY <1>3 DEF Resealed
  <2> QED BY <1>1, <2>1, <2>2, KeptIs
<1> QED BY <1>2, <1>3 DEF Reseal

\* A write of rechain changes only how one key is kept.
LEMMA RechainIs ==
  ASSUME Inv, NEW m \in Space, NEW s \in Space, RechainUnlock(m, s) \/ RechainSeal(m, s)
  PROVE  /\ StoresOK' /\ up /\ s \in mem.entries /\ (m \in stale \/ (m = mem.main /\ s # m)) /\ m \in open
         /\ open \subseteq open'
         /\ \A t \in Space : /\ SameRows(store[t], store'[t]) /\ store'[t].doc = store[t].doc
                             /\ store'[t].staged = store[t].staged
                             /\ t # s => store'[t] = store[t]
         /\ store'[s].kept = m \/ (store'[s].kept = "none" /\ store[s].kept # m)
<1>1. /\ up /\ s \in mem.entries /\ (m \in stale \/ (m = mem.main /\ s # m)) /\ m \in open /\ UNCHANGED now
      /\ open \subseteq open'
  BY DEF RechainUnlock, RechainSeal, MayChain
<1>2. PICK k \in {m, "none"} : /\ SetStore(s, [store[s] EXCEPT !.kept = k])
                              /\ (k = "none" => store[s].kept # m)
  <2>1. CASE RechainSeal(m, s) 
    <3>1. m # "none" BY SpacesAssumption
    <3> QED BY <2>1, <3>1 DEF RechainSeal, Resealed
  <2>2. CASE RechainUnlock(m, s) /\ store[s].kept = m
    <3>1. SetStore(s, [store[s] EXCEPT !.kept = m]) /\ m # "none"
      BY <2>2, SpacesAssumption DEF RechainUnlock, Unchained
    <3> QED BY <3>1
  <2>3. CASE RechainUnlock(m, s) /\ store[s].kept # m
    <3>1. SetStore(s, [store[s] EXCEPT !.kept = "none"]) BY <2>3 DEF RechainUnlock, Unchained
    <3> QED BY <2>3, <3>1
  <2> QED BY <2>1, <2>2, <2>3
<1>3. k \in Seal BY DEF Seal
<1>4. /\ StoresOK' /\ store'[s].kept = k
      /\ \A t \in Space : /\ SameRows(store[t], store'[t]) /\ store'[t].doc = store[t].doc
                          /\ store'[t].staged = store[t].staged
                          /\ t # s => store'[t] = store[t]
  BY <1>1, <1>2, <1>3, KeptIs
<1> QED BY <1>1, <1>2, <1>4

\* Unlocking opens the main server.
LEMMA UnlockIs ==
  ASSUME Inv, Unlock
  PROVE  /\ StoresOK' /\ mem.main \notin open /\ up /\ open' = open \cup {mem.main}
         /\ \A t \in Space : /\ SameRows(store[t], store'[t]) /\ store'[t].doc = store[t].doc
                             /\ store'[t].staged = store[t].staged
                             /\ t # mem.main => store'[t] = store[t]
<1>1. mem.main \notin open /\ up /\ open' = open \cup {mem.main} /\ UNCHANGED now BY DEF Unlock
<1>2. mem.main \in Space BY Basics
<1>3. CASE UNCHANGED store BY <1>1, <1>3, KeptNot
<1>4. CASE SetStore(mem.main, Unchained(store[mem.main], "os"))
  <2>1. PICK k \in {"os", "none"} : SetStore(mem.main, [store[mem.main] EXCEPT !.kept = k])
    <3>1. CASE store[mem.main].kept = "os" BY <1>4, <3>1 DEF Unchained
    <3>2. CASE store[mem.main].kept # "os" BY <1>4, <3>2 DEF Unchained
    <3> QED BY <3>1, <3>2
  <2>2. k \in Seal BY DEF Seal
  <2> QED BY <1>1, <1>2, <2>1, <2>2, KeptIs
<1> QED BY <1>1, <1>3, <1>4 DEF Unlock

\* The user's key bindings are written to the main store.
LEMMA EditDocIs ==
  ASSUME Inv, NEW v \in 0 .. MaxOps, EditDoc(v)
  PROVE  /\ StoresOK' /\ up /\ mem.main \in Space
         /\ \A s \in Space : SameRows(store[s], store'[s]) /\ SameSeals(store[s], store'[s])
         /\ \A s \in Space : s # mem.main => store'[s] = store[s]
         /\ store'[mem.main].doc = [val |-> v, at |-> now]
<1>1. store \in [Space -> StoreSet] /\ now \in Nat \ {0} /\ \A t \in Space : store[t].doc.at < now
  BY DEF Inv, Types
<1>2. mem.main \in Space BY Basics
<1> DEFINE r == [val |-> v, at |-> now]
           st == [store[mem.main] EXCEPT !.doc = r]
<1>3. SetStore(mem.main, st) /\ now' = now + 1 /\ up BY DEF EditDoc
<1>4. r \in [val : 0 .. MaxOps, at : Nat] /\ r.at = now BY <1>1
<1>5. store[mem.main] \in StoreSet BY <1>1, <1>2
<1> HIDE DEF r
<1>6. st \in StoreSet /\ SameRows(store[mem.main], st) /\ SameSeals(store[mem.main], st) /\ st.doc = r
  BY <1>4, <1>5, OtherFields
<1> HIDE DEF st
<1>7. store' \in [Space -> StoreSet] /\ store'[mem.main] = st /\ \A t \in Space : t # mem.main => store'[t] = store[t]
  BY <1>1, <1>2, <1>3, <1>6, OneStore
<1>8. \A t \in Space : store[t].doc.at < now + 1
  <2>1. \A t \in Space : store[t].doc.at \in Nat BY <1>1, StoreFields
  <2> QED BY <1>1, <2>1
<1>9. StoresOK' BY <1>1, <1>2, <1>3, <1>4, <1>6, <1>7, <1>8 DEF StoresOK
<1>10. \A t \in Space : SameRows(store[t], store'[t]) /\ SameSeals(store[t], store'[t])
  BY <1>6, <1>7 DEF SameRows, SameSeals
<1> QED BY <1>2, <1>3, <1>6, <1>7, <1>9, <1>10 DEF r

\* Which steps change hosts and keys.
LEMMA RowsFrame ==
  ASSUME Inv, Next
  PROVE  /\ StoresOK'
         /\ \/ \A s \in Space : SameRows(store[s], store'[s])
            \/ Import \/ Drop \/ TakeKeys \/ RemoveFiles \/ Discard \/ Opens
            \/ \E s \in Space, i \in Id : Deleting(s, i)
<1> DEFINE Same == \A s \in Space : SameRows(store[s], store'[s])
<1>1. CASE UNCHANGED store
  <2>1. StoresOK' BY <1>1, Basics, DocFrame, PersonalIs, SettleStepIs, EditDocIs DEF StoresOK
  <2> QED BY <1>1, <2>1 DEF SameRows
<1>2. CASE Import \/ Drop \/ TakeKeys \/ RemoveFiles \/ Discard \/ Opens
  BY <1>2, ImportIs, DropIs, TakeKeysIs, EmptiedIs, OpenIs
<1>3. CASE Personal \/ StageMain \/ StageOther \/ Unstage \/ SettleStep \/ Unlock \/ \E v \in 0 .. MaxOps : EditDoc(v)
  BY <1>3, PersonalIs, StageMainIs, StageOtherIs, UnstageIs, SettleStepIs, UnlockIs, EditDocIs
<1>4. CASE Reseal BY <1>4, ResealIs
<1>5. CASE Rechaining BY <1>5, RechainIs DEF Rechaining
<1>6. CASE (\E i \in Id : DeleteHost(i)) \/ (\E s \in Space, i \in Id : PassPull(s, i))
  BY <1>6, DeleteCases, DeletingIs
<1> QED BY <1>1, <1>2, <1>3, <1>4, <1>5, <1>6, StoreFrame

------------------------------------------------------------------------------
(* What the steps do to the list                                            *)

\* Each action takes the step of its name.
LEMMA StepIs ==
  ASSUME Shape
  PROVE  /\ Recover => StepOf("Recover")
         /\ Begin => StepOf("Begin")
         /\ Note => StepOf("Note")
         /\ Import => StepOf("Import")
         /\ Clear => StepOf("Clear")
         /\ Personal => StepOf("Personal")
         /\ StageMain => StepOf("StageMain")
         /\ StageOther => StepOf("Stage")
         /\ Unstage => StepOf("Unstage")
         /\ Swap => StepOf("Swap")
         /\ Settle => StepOf("Settle")
         /\ EndHandover => StepOf("EndHandover")
         /\ Hold => StepOf("Hold")
         /\ TakeRunning => StepOf("TakeRunning")
         /\ TakeTimesOut => StepOf("TakeRunning")
         /\ Leave => StepOf("Leave")
         /\ TakeHosts => StepOf("TakeHosts")
         /\ Moved => StepOf("Moved")
         /\ TakeKeys => StepOf("TakeKeys")
         /\ HandOn => StepOf("HandOn")
         /\ Unregister => StepOf("Unregister")
         /\ RemoveFiles => StepOf("RemoveFiles")
         /\ Retire => StepOf("Retire")
         /\ Unleave => StepOf("Unleave")
         /\ Failed => StepOf("Failed")
         /\ Done => StepOf("Done")
         /\ Mark => StepOf("Mark")
         /\ MakeFile => StepOf("MakeFile")
         /\ Register => StepOf("Register")
         /\ Unmark => StepOf("Unmark")
         /\ Reseal => StepOf("Reseal")
         /\ Discard => StepOf("Discard")
         /\ Opens => StepOf("Open")
         /\ Ready => StepOf("Ready")
         /\ Drop => \E a \in Dropped : StepOf(a)
         /\ SettleStep => \E a \in {"Promote", "ClearDoc"} : StepOf(a)
<1>0. ASSUME NEW a, Doing(a) PROVE StepOf(a) BY <1>0, AtStep DEF StepOf
<1>1. /\ Recover => Doing("Recover")
      /\ Begin => Doing("Begin")
      /\ Note => Doing("Note")
      /\ Import => Doing("Import")
      /\ Clear => Doing("Clear")
      /\ Personal => Doing("Personal")
      /\ StageMain => Doing("StageMain")
      /\ StageOther => Doing("Stage")
      /\ Unstage => Doing("Unstage")
  BY DEF Recover, Begin, Note, Import, Clear, Personal, StageMain, StageOther, Unstage
<1>2. /\ Swap => Doing("Swap")
      /\ Settle => Doing("Settle")
      /\ EndHandover => Doing("EndHandover")
      /\ Hold => Doing("Hold")
      /\ TakeRunning => Doing("TakeRunning")
      /\ TakeTimesOut => Doing("TakeRunning")
      /\ Leave => Doing("Leave")
      /\ TakeHosts => Doing("TakeHosts")
      /\ Moved => Doing("Moved")
  BY DEF Swap, Settle, EndHandover, Hold, TakeRunning, TakeTimesOut, Leave, TakeHosts, Moved
<1>3. /\ TakeKeys => Doing("TakeKeys")
      /\ HandOn => Doing("HandOn")
      /\ Unregister => Doing("Unregister")
      /\ RemoveFiles => Doing("RemoveFiles")
      /\ Retire => Doing("Retire")
      /\ Unleave => Doing("Unleave")
      /\ Failed => Doing("Failed")
      /\ Done => Doing("Done")
      /\ Mark => Doing("Mark")
  BY DEF TakeKeys, HandOn, Unregister, RemoveFiles, Retire, Unleave, Failed, Done, Mark
<1>4. /\ MakeFile => Doing("MakeFile")
      /\ Register => Doing("Register")
      /\ Unmark => Doing("Unmark")
      /\ Reseal => Doing("Reseal")
      /\ Discard => Doing("Discard")
      /\ Opens => Doing("Open")
      /\ Ready => Doing("Ready")
  BY DEF MakeFile, Register, Unmark, Reseal, Discard, Opens, Open, Sweeps, FailSweep, Ready
<1>5. /\ Drop => Doing("DropHost") \/ Doing("DropKey") \/ Doing("DropKnown")
      /\ SettleStep => Doing("Promote") \/ Doing("ClearDoc")
  BY DEF Drop, SettleStep
<1> QED BY <1>0, <1>1, <1>2, <1>3, <1>4, <1>5 DEF Dropped

\* The steps that leave the others to do.
Passing ==
  \/ Note \/ Clear \/ Unstage \/ Swap \/ EndHandover \/ Hold \/ TakeRunning
  \/ Leave \/ Moved \/ Unregister \/ RemoveFiles \/ Retire \/ Unleave \/ Done
  \/ Mark \/ MakeFile \/ Register \/ Unmark \/ Reseal \/ Discard \/ Ready
  \/ Drop \/ SettleStep \/ Skips

\* The steps that only go on.
LEMMA PopIs ==
  ASSUME Shape, Passing
  PROVE  Shape' /\ Popped
<1>1. todo # <<>> BY StepIs DEF Passing, StepOf, Skips, Fail
<1>2. CASE Note \/ Clear \/ Unstage \/ Swap \/ EndHandover \/ Hold \/ TakeRunning
  <2>1. Then(<<>>) BY <1>2 DEF Note, Clear, Unstage, Swap, EndHandover, Hold, TakeRunning
  <2> QED BY <1>1, <2>1, PopStep
<1>3. CASE Leave \/ Moved \/ Unregister \/ RemoveFiles \/ Retire \/ Unleave \/ Done
  <2>1. Then(<<>>) BY <1>3 DEF Leave, Moved, Unregister, RemoveFiles, Retire, Unleave, Done
  <2> QED BY <1>1, <2>1, PopStep
<1>4. CASE Mark \/ MakeFile \/ Register \/ Unmark \/ Reseal \/ Discard \/ Ready
  <2>1. Then(<<>>) BY <1>4 DEF Mark, MakeFile, Register, Unmark, Reseal, Discard, Ready
  <2> QED BY <1>1, <2>1, PopStep
<1>5. CASE Drop \/ SettleStep
  <2>1. Then(<<>>) BY <1>5 DEF Drop, SettleStep
  <2> QED BY <1>1, <2>1, PopStep
<1>6. CASE Skips
  <2>1. Then(<<>>) BY <1>6 DEF Skips, Skipped, Fail, FailWrite, FailPersist, FailMake, FailDiscard, FailSweep, Doing, Step
  <2> QED BY <1>1, <2>1, PopStep
<1> QED BY <1>2, <1>3, <1>4, <1>5, <1>6 DEF Passing

\* After the last step there is none.
LEMMA PopEnd ==
  ASSUME Popped, Step.do \in Ending, \A x \in Todo : x.do \in Names
  PROVE  Todo' = {} /\ todo' = <<>>
<1>1. ASSUME NEW y \in Todo' PROVE FALSE
  <2>1. y \in Todo /\ Precedes(Step.do, y.do) BY <1>1 DEF Popped
  <2>2. y.do \in Names BY <2>1
  <2>3. Rank(y.do) \in 1 .. 39 BY <2>2, RankNat
  <2>4. Rank(Step.do) = 39 BY Ranks DEF Ending
  <2>5. Step.do \notin Repeated /\ Step.do # "Settle" BY DEF Ending, Repeated
  <2> QED BY <2>1, <2>3, <2>4, <2>5 DEF Precedes
<1>2. Todo' = {} BY <1>1
<1>3. todo' # <<>> => Step' \in Todo' BY DEF Popped
<1> QED BY <1>2, <1>3

\* What a write that fails leaves in memory and on disk.
LEMMA ErrIs ==
  ASSUME Errs
  PROVE  /\ todo # <<>> /\ UNCHANGED <<op, up, store, marker, left>>
         /\ Step.do # "MakeFile" => up /\ UNCHANGED files
         /\ \/ /\ Step.do \in Dropped \cup {"TakeKeys", "Personal", "Promote", "ClearDoc"}
               /\ todo' = Unwind /\ UNCHANGED <<mem, reg>>
            \/ Step.do = "Note" /\ todo' = Unwind /\ mem' = [mem EXCEPT !.journal = Step.j] /\ reg' \in {reg, mem'}
            \/ Step.do = "Import" /\ todo' = <<Do("Clear")>> \o Unwind /\ UNCHANGED <<mem, reg>>
            \/ Step.do = "Clear" /\ todo' = Unwind /\ mem' = [mem EXCEPT !.journal = NoJournal] /\ reg' \in {reg, mem'}
            \/ /\ Step.do \in {"StageMain", "Stage"}
               /\ todo' = Each("Unstage", mem.entries) \o Unwind /\ UNCHANGED <<mem, reg>>
            \/ /\ Step.do = "Swap" /\ todo' = Each("Unstage", mem.entries) \o Unwind
               /\ mem' = [mem EXCEPT !.handover = None] /\ reg' \in {reg, Swapped(Step.at)}
            \/ Step.do = "EndHandover" /\ todo' = Unwind /\ mem' = [mem EXCEPT !.handover = None] /\ reg' \in {reg, mem'}
            \/ /\ Step.do = "Leave" /\ mem.leaving # Step.at /\ todo' = <<Do("Failed")>>
               /\ mem' = [mem EXCEPT !.leaving = None] /\ reg' \in {reg, [mem EXCEPT !.leaving = Step.at]}
            \/ Step.do = "Unregister" /\ todo' = <<Do("Failed")>> /\ mem' = Removed(Step.at) /\ reg' \in {reg, mem'}
            \/ /\ Step.do = "Register" /\ UNCHANGED mem /\ reg' \in {reg, [mem EXCEPT !.entries = @ \cup {Step.at}]}
               /\ todo' = <<DoIn("Discard", Step.at), DoIn("Unmark", Step.at), Do("Failed")>>
            \/ Step.do = "Mark" /\ todo' = <<Do("Failed")>> /\ UNCHANGED <<mem, reg>>
            \/ /\ Step.do = "MakeFile" /\ todo' = <<Do("Failed")>> /\ UNCHANGED <<mem, reg>>
               /\ files' \in {files, files \cup {Step.at}}
<1>1. todo # <<>> /\ UNCHANGED <<op, up>> BY DEF Errs, Fail, FailWrite, FailPersist, FailMake, FailDiscard, FailSweep
<1>2. CASE FailWrite
  <2>1. up BY <1>2 DEF FailWrite, Errs, Skipped, Doing, Step
  <2> QED BY <1>1, <1>2, <2>1 DEF FailWrite, Errs, Skipped, Dropped, disk, ghost
<1>3. CASE FailPersist BY <1>1, <1>3 DEF FailPersist, PersistFails, Errs, Skipped
<1>4. CASE FailMake BY <1>1, <1>4 DEF FailMake, Doing, Step, ghost
<1>5. ~FailDiscard /\ ~FailSweep BY DEF FailDiscard, FailSweep, Errs, Skipped, Doing, Step
<1> QED BY <1>2, <1>3, <1>4, <1>5 DEF Errs, Fail

\* And what is left to do then.
LEMMA FailIs ==
  ASSUME Inv, Errs
  PROVE  /\ Shape' /\ up /\ todo # <<>> /\ Step \in Todo /\ Step \in StepSet /\ Todo \subseteq StepSet /\ UNCHANGED op
         /\ \/ /\ Step.do \in Dropped \cup {"TakeKeys", "Personal", "Promote", "ClearDoc", "Note", "Clear", "EndHandover"}
               /\ todo' = Unwind /\ Fallen({}) /\ Step'.do # "Clear"
            \/ Step.do = "Import" /\ Fallen({"Clear"}) /\ Step'.do = "Clear"
            \/ Step.do \in {"StageMain", "Stage", "Swap"} /\ Fallen({"Unstage"}) /\ Step'.do # "Clear"
            \/ /\ Step.do \in {"Leave", "Unregister", "Mark", "MakeFile"} /\ todo' = <<Do("Failed")>>
               /\ Fallen({}) /\ Step'.do = "Failed"
            \/ /\ Step.do = "Register" /\ UNCHANGED mem /\ Step.at \in Space
               /\ Fresh({DoIn("Discard", Step.at), DoIn("Unmark", Step.at), Do("Failed")}, DoIn("Discard", Step.at))
<1>1. Shape /\ mem \in Registry /\ RegOK(mem) /\ KindOK BY Basics
<1>2. todo # <<>> /\ UNCHANGED op BY ErrIs
<1>3. Step \in Todo /\ Todo \subseteq StepSet BY <1>1, <1>2, Pop DEF Shape, Todo, Step
<1>4. Step \in StepSet BY <1>3
<1>5. Step.do \in Placed => Step.at \in Space BY <1>4, StepFields
<1>6. todo' = Unwind => Shape' /\ Fallen({}) /\ Step'.do # "Clear" BY UnwindStep
<1>7. todo' = <<Do("Failed")>> => Shape' /\ Fallen({}) /\ Step'.do = "Failed" BY FailedStep
<1>8. todo' = <<Do("Clear")>> \o Unwind => Shape' /\ Fallen({"Clear"}) /\ Step'.do = "Clear" BY ClearUnwindStep
<1>9. todo' = Each("Unstage", mem.entries) \o Unwind => Shape' /\ Fallen({"Unstage"}) /\ Step'.do # "Clear"
  BY <1>1, UnstageStep
<1>10. /\ Step.do = "Register"
       /\ todo' = <<DoIn("Discard", Step.at), DoIn("Unmark", Step.at), Do("Failed")>>
       => /\ Shape' /\ Step.at \in Space
          /\ Fresh({DoIn("Discard", Step.at), DoIn("Unmark", Step.at), Do("Failed")}, DoIn("Discard", Step.at))
  BY <1>5, GiveUpList DEF Placed
<1>11. up
  <2>1. CASE Step.do = "MakeFile"
    <3>1. op.kind # "none" BY <1>1, <1>3, <2>1 DEF KindOK, Allowed, Starting
    <3> QED BY <1>1, <3>1 DEF KindOK
  <2> QED BY <2>1, ErrIs
<1> QED BY <1>2, <1>3, <1>4, <1>6, <1>7, <1>8, <1>9, <1>10, <1>11, ErrIs

\* A failure that is only logged.
LEMMA SkipIs ==
  ASSUME Inv, Skips
  PROVE  /\ StepOf(Step.do) /\ Step.do \in Skipped /\ Shape' /\ Popped /\ UNCHANGED <<op, up, store, files, marker, left>>
         /\ Step.do # "Unleave" => UNCHANGED <<mem, reg, unnoted>>
         /\ Step.do = "Unleave" =>
              /\ op.kind = "remove" /\ mem' = [mem EXCEPT !.leaving = None] /\ reg' \in {reg, mem'}
              /\ unnoted' = unnoted \cup {e[1] : e \in {f \in left : f[1] = op.space}}
         /\ Step.do # "Discard" => UNCHANGED <<open, pending>>
         /\ Step.do = "Discard" => pending' = None /\ open' = open \ {Step.at}
         /\ Step.do # "Unstage" => op.kind # "none" /\ up
<1>1. Shape /\ KindOK /\ op.kind \in Kinds BY Basics
<1>2. Shape' /\ Popped BY <1>1, PopIs DEF Passing
<1>3. Step.do \in Skipped /\ todo # <<>> BY DEF Skips, Fail
<1>4. StepOf(Step.do) BY <1>1, <1>3, Pop DEF StepOf, Shape, Todo, Step
<1>5. Step.do # "Unstage" => op.kind # "none" /\ up
  <2>1. Step.do # "Unstage" => op.kind # "none" BY <1>1, <1>3, <1>4, KindsOf DEF StepOf, Skipped
  <2> QED BY <1>1, <2>1 DEF KindOK
<1>6. Step.do = "Unleave" => op.kind = "remove" BY <1>1, <1>4, KindsOf DEF StepOf
<1>7. CASE FailWrite BY <1>2, <1>3, <1>4, <1>5, <1>6, <1>7 DEF FailWrite, disk, ghost, Skipped
<1>8. CASE FailPersist BY <1>2, <1>3, <1>4, <1>5, <1>6, <1>8 DEF FailPersist, PersistFails, Skipped
<1>9. CASE FailDiscard BY <1>2, <1>3, <1>4, <1>5, <1>6, <1>9 DEF FailDiscard, Doing, Step, disk, ghost
<1>10. ~FailMake /\ ~FailSweep BY <1>3 DEF FailMake, FailSweep, Skipped, Doing, Step
<1> QED BY <1>7, <1>8, <1>9, <1>10 DEF Skips, Fail

\* What an operation that starts has to do.
LEMMA AskIs ==
  ASSUME Inv, Asking
  PROVE  /\ Shape' /\ up /\ up' /\ todo = <<>> /\ todo' # <<>>
         /\ \/ \E i \in Id, s, to \in mem.entries :
                 /\ s # to /\ Live(s, i) /\ UNCHANGED deleted
                 /\ op' = [kind |-> "move", space |-> to, taking |-> FALSE, moved |-> FALSE]
                 /\ Fresh({Do("Recover"), BeginStep(i, s, to), Do("Done")}, Do("Recover"))
            \/ \E s \in mem.entries \ {mem.main} :
                 /\ {mem.main, s} \subseteq open /\ UNCHANGED deleted
                 /\ op' = [kind |-> "main", space |-> s, taking |-> FALSE, moved |-> FALSE]
                 /\ Fresh({DoIn("TakeRunning", mem.main), DoIn("TakeRunning", s), Do("Done")} \cup SwapSteps(s),
                          DoIn("TakeRunning", mem.main))
            \/ \E s \in mem.entries, keep \in BOOLEAN :
                 /\ mem.entries # {s} /\ (keep \/ mem.main = s => mem.entries \subseteq open)
                 /\ deleted' = IF keep THEN deleted ELSE deleted \cup {i[1] : i \in {k \in Id : Live(s, k)}}
                 /\ op' = [kind |-> "remove", space |-> s, taking |-> FALSE, moved |-> FALSE]
                 /\ Fresh(RemoveSteps(s, keep), DoIn("Hold", s))
            \/ \E s \in Space \ (files \cup mem.entries \cup reg.entries \cup gone \cup marker \cup {First}) :
                 /\ pending = None /\ mem.entries = {mem.main} /\ UNCHANGED deleted
                 /\ op' = [kind |-> "add", space |-> s, taking |-> FALSE, moved |-> FALSE]
                 /\ Fresh({DoIn("Mark", s), DoIn("MakeFile", s), Do("Done")}, DoIn("Mark", s))
            \/ /\ pending \in Space /\ UNCHANGED deleted
               /\ op' = [kind |-> "adopt", space |-> pending, taking |-> FALSE, moved |-> FALSE]
               /\ Fresh({DoIn("Register", pending), DoIn("Unmark", pending), DoIn("Reseal", pending), Do("Done")},
                        DoIn("Register", pending))
            \/ /\ pending \in Space /\ UNCHANGED deleted
               /\ op' = [kind |-> "discard", space |-> pending, taking |-> FALSE, moved |-> FALSE]
               /\ Fresh({DoIn("Discard", pending), DoIn("Unmark", pending), Do("Done")}, DoIn("Discard", pending))
<1>1. /\ Shape /\ mem \in Registry /\ RegOK(mem) /\ mem.main \in mem.entries /\ mem.entries \subseteq Space
      /\ IsFiniteSet(mem.entries)
  BY Basics
<1>2. pending \in Space \cup {None} BY DEF Inv, Types, TypeOK
<1>3. ASSUME NEW kind, NEW s, NEW steps, Starts(kind, s, steps)
      PROVE  /\ up /\ up' /\ todo = <<>> /\ todo' = steps \o <<Do("Done")>>
             /\ op' = [kind |-> kind, space |-> s, taking |-> FALSE, moved |-> FALSE]
  BY <1>3 DEF Starts, Idle
<1>4. CASE \E i \in Id, s \in Space : AskMove(i, s)
  <2>1. PICK i \in Id, to \in Space : AskMove(i, to) BY <1>4
  <2>2. HostSpace(i) \in mem.entries /\ Live(HostSpace(i), i) BY <2>1, HostSpaceIs DEF AskMove
  <2>3. /\ to \in mem.entries /\ HostSpace(i) # to /\ UNCHANGED deleted
        /\ Starts("move", to, Moving(i, HostSpace(i), to))
    BY <2>1 DEF AskMove, Asks
  <2> DEFINE s == HostSpace(i)
  <2>4. s \in Space /\ to \in Space /\ s \in mem.entries /\ Live(s, i) BY <1>1, <2>2, <2>3
  <2>5. /\ up /\ up' /\ todo = <<>> /\ todo' = Moving(i, s, to) \o <<Do("Done")>>
        /\ op' = [kind |-> "move", space |-> to, taking |-> FALSE, moved |-> FALSE]
    BY <1>3, <2>3
  <2>6. s # to BY <2>3
  <2> HIDE DEF s
  <2>7. Shape' /\ Fresh({Do("Recover"), BeginStep(i, s, to), Do("Done")}, Do("Recover")) BY <2>4, <2>5, MoveList
  <2> QED BY <2>3, <2>4, <2>5, <2>6, <2>7 DEF Fresh
<1>5. CASE \E s \in Space : AskMakeMain(s)
  <2>1. PICK s \in Space : AskMakeMain(s) BY <1>5
  <2>2. /\ s \in mem.entries \ {mem.main} /\ {mem.main, s} \subseteq open /\ UNCHANGED deleted
        /\ Starts("main", s, <<DoIn("TakeRunning", mem.main), DoIn("TakeRunning", s)>> \o Swapping(s))
    BY <2>1 DEF AskMakeMain, Asks
  <2>3. /\ up /\ up' /\ todo = <<>>
        /\ todo' = (<<DoIn("TakeRunning", mem.main), DoIn("TakeRunning", s)>> \o Swapping(s)) \o <<Do("Done")>>
        /\ op' = [kind |-> "main", space |-> s, taking |-> FALSE, moved |-> FALSE]
    BY <1>3, <2>2
  <2>4. /\ Shape'
        /\ Fresh({DoIn("TakeRunning", mem.main), DoIn("TakeRunning", s), Do("Done")} \cup SwapSteps(s),
                 DoIn("TakeRunning", mem.main))
    BY <1>1, <2>2, <2>3, MainList
  <2> QED BY <2>2, <2>3, <2>4 DEF Fresh
<1>6. CASE \E s \in Space, keep \in BOOLEAN : AskRemove(s, keep)
  <2>1. PICK s \in Space, keep \in BOOLEAN : AskRemove(s, keep) BY <1>6
  <2> DEFINE ss == <<DoIn("Hold", s), DoIn("TakeRunning", s)>>
                   \o (IF keep THEN <<DoIn("Leave", s), DoIn("TakeHosts", s)>> ELSE <<>>)
                   \o <<DoIn("HandOn", s), DoIn("Unregister", s), DoIn("RemoveFiles", s),
                        DoIn("Retire", s)>>
  <2>2. /\ s \in mem.entries /\ Other(s) # None /\ (keep \/ mem.main = s => {s, Other(s)} \subseteq open)
        /\ deleted' = IF keep THEN deleted ELSE deleted \cup {i[1] : i \in {k \in Id : Live(s, k)}}
        /\ Starts("remove", s, ss)
    BY <2>1 DEF AskRemove
  <2>3. mem.entries # {s} BY <2>2 DEF Other
  <2>4. mem.entries = {s, Other(s)} BY <2>2, <2>3, OtherIs
  <2> HIDE DEF ss
  <2>5. /\ up /\ up' /\ todo = <<>> /\ todo' = ss \o <<Do("Done")>>
        /\ op' = [kind |-> "remove", space |-> s, taking |-> FALSE, moved |-> FALSE]
    BY <1>3, <2>2
  <2>6. Shape' /\ Fresh(RemoveSteps(s, keep), DoIn("Hold", s)) BY <2>5, RemoveList DEF ss
  <2> QED BY <2>2, <2>3, <2>4, <2>5, <2>6 DEF Fresh
<1>7. CASE \E s \in Space : AskAdd(s)
  <2>1. PICK s \in Space : AskAdd(s) BY <1>7
  <2>2. /\ pending = None /\ Cardinality(mem.entries) = 1 /\ UNCHANGED deleted
        /\ s \notin files \cup mem.entries \cup reg.entries \cup gone \cup marker \cup {First}
        /\ Starts("add", s, <<DoIn("Mark", s), DoIn("MakeFile", s)>>)
    BY <2>1 DEF AskAdd, Asks
  <2>3. mem.entries = {mem.main}
    <3>1. PICK x : mem.entries = {x} BY <1>1, <2>2, FS_Singleton
    <3> QED BY <1>1, <3>1
  <2>4. /\ up /\ up' /\ todo = <<>> /\ todo' = <<DoIn("Mark", s), DoIn("MakeFile", s)>> \o <<Do("Done")>>
        /\ op' = [kind |-> "add", space |-> s, taking |-> FALSE, moved |-> FALSE]
    BY <1>3, <2>2
  <2>5. Shape' /\ Fresh({DoIn("Mark", s), DoIn("MakeFile", s), Do("Done")}, DoIn("Mark", s)) BY <2>4, AddList
  <2> QED BY <2>2, <2>3, <2>4, <2>5 DEF Fresh
<1>8. CASE AskAdopt
  <2>1. /\ pending \in Space /\ UNCHANGED deleted
        /\ Starts("adopt", pending, <<DoIn("Register", pending), DoIn("Unmark", pending), DoIn("Reseal", pending)>>)
    BY <1>2, <1>8 DEF AskAdopt, Asks
  <2>2. /\ up /\ up' /\ todo = <<>>
        /\ todo' = <<DoIn("Register", pending), DoIn("Unmark", pending), DoIn("Reseal", pending)>> \o <<Do("Done")>>
        /\ op' = [kind |-> "adopt", space |-> pending, taking |-> FALSE, moved |-> FALSE]
    BY <1>3, <2>1
  <2>3. /\ Shape'
        /\ Fresh({DoIn("Register", pending), DoIn("Unmark", pending), DoIn("Reseal", pending), Do("Done")},
                 DoIn("Register", pending))
    BY <2>1, <2>2, AdoptList
  <2> QED BY <2>1, <2>2, <2>3 DEF Fresh
<1>9. CASE AskDiscard
  <2>1. /\ pending \in Space /\ UNCHANGED deleted
        /\ Starts("discard", pending, <<DoIn("Discard", pending), DoIn("Unmark", pending)>>)
    BY <1>2, <1>9 DEF AskDiscard, Asks
  <2>2. /\ up /\ up' /\ todo = <<>> /\ todo' = <<DoIn("Discard", pending), DoIn("Unmark", pending)>> \o <<Do("Done")>>
        /\ op' = [kind |-> "discard", space |-> pending, taking |-> FALSE, moved |-> FALSE]
    BY <1>3, <2>1
  <2>3. Shape' /\ Fresh({DoIn("Discard", pending), DoIn("Unmark", pending), Do("Done")}, DoIn("Discard", pending))
    BY <2>1, <2>2, DiscardList
  <2> QED BY <2>1, <2>2, <2>3 DEF Fresh
<1> QED BY <1>4, <1>5, <1>6, <1>7, <1>8, <1>9 DEF Asking

\* A step of the list was there before.
Old(y) == y \in Todo /\ Precedes(Step.do, y.do)

\* Or it is put there by the one that is done.
Put(y) ==
  \/ Recover /\ y.do = "Clear"
  \/ Recover /\ mem.journal # NoJournal /\ Arrived(mem.journal) /\ y \in Drops(mem.journal.from, mem.journal.host)
  \/ Begin /\ y \in {BeginNote, BeginImport, Do("Clear")} \cup Drops(Step.from, Step.id)
  \/ Settle /\ y.do = "Unstage" /\ y.at \in mem.entries /\ mem.handover = None
  \/ Settle /\ y.do = "Promote" /\ y.at \in mem.entries
  \/ Settle /\ y.do = "ClearDoc" /\ y.at = mem.handover
  \/ Settle /\ y.do = "EndHandover" /\ mem.handover # None
  \/ HandOn /\ mem.main = Step.at /\ y \in SwapSteps(Other(Step.at))
  \/ TakeHosts /\ y.do \in {"Recover", "Moved"}
  \/ TakeHosts /\ y.do = "TakeKeys" /\ y.at = Step.at
  \/ TakeHosts /\ y.do = "Begin" /\ y.from = Step.at /\ y.to = Other(Step.at)
  \/ Opens /\ y.do \in {"Settle", "Recover", "Ready"}

\* The step is done, and the others stay.
Goes ==
  /\ todo # <<>> /\ Step \in Todo /\ Todo' \subseteq StepSet
  /\ \A x \in Todo : x = Step \/ x \in Todo'
  /\ \A y \in Todo' : Old(y) \/ Put(y)
  /\ todo' = <<>> => Step.do \in Ending
  /\ todo' # <<>> => Step' \in Todo'
  /\ Popped \/ ((Recover \/ Begin \/ Settle \/ HandOn \/ TakeHosts \/ Opens) /\ todo' # <<>>)

\* What a step that fails leaves to do first.
FrontOf(a) ==
  IF a = "Import" THEN {"Clear"} ELSE IF a \in {"StageMain", "Stage", "Swap"} THEN {"Unstage"} ELSE {}

\* It failed, or the command gives up.
Falls ==
  /\ todo # <<>> /\ Step \in Todo /\ up /\ UNCHANGED <<op, up, store>> /\ (Errs \/ UNCHANGED <<reg, mem>>)
  /\ Fallen(FrontOf(Step.do)) /\ (Step.do = "Import" => Step'.do = "Clear")
  /\ Begin \/ Import \/ Personal \/ StageMain \/ StageOther \/ TakeKeys \/ TakeTimesOut \/ Errs

GivesUp ==
  /\ Errs /\ todo # <<>> /\ Step \in Todo /\ Step.do = "Register" /\ Step.at \in Space /\ UNCHANGED <<op, up, mem>>
  /\ Fresh({DoIn("Discard", Step.at), DoIn("Unmark", Step.at), Do("Failed")}, DoIn("Discard", Step.at))

\* A step that fails is followed by what is put in front of the end.
LEMMA FallsIs ==
  ASSUME Fallen({}) \/ (Fallen({"Clear"}) /\ Step.do = "Import")
         \/ (Fallen({"Unstage"}) /\ Step.do \in {"StageMain", "Stage", "Swap"})
  PROVE  Fallen(FrontOf(Step.do))
<1>1. CASE Fallen({}) BY <1>1 DEF Fallen
<1>2. CASE Fallen({"Clear"}) /\ Step.do = "Import" BY <1>2 DEF FrontOf
<1>3. CASE Fallen({"Unstage"}) /\ Step.do \in {"StageMain", "Stage", "Swap"} BY <1>3 DEF FrontOf
<1> QED BY <1>1, <1>2, <1>3

\* One of the ways a step can fail.
Breaks ==
  \/ Fallen({}) /\ Step.do # "Import"
  \/ Fallen({"Clear"}) /\ Step.do = "Import" /\ Step'.do = "Clear"
  \/ Fallen({"Unstage"}) /\ Step.do \in {"StageMain", "Stage", "Swap"}

\* Going on is one of the ways a list changes.
LEMMA PoppedGoes ==
  ASSUME Popped
  PROVE  Goes
BY DEF Popped, Goes, Old

\* Putting other steps in its place is one of the ways a list changes.
LEMMA SplicedGoes ==
  ASSUME NEW M, NEW f, Spliced(M, f), \A y \in M : Put(y),
         Recover \/ Begin \/ Settle \/ HandOn \/ TakeHosts
  PROVE  Goes
BY DEF Spliced, Goes, Old

\* The last step of an operation stands alone.
LEMMA OpenAlone ==
  ASSUME Inv, NEW a \in Ending, StepOf(a)
  PROVE  \A x \in Todo : x = Step
<1>1. Shape BY DEF Inv
<1>2. todo # <<>> /\ Step.do = a BY DEF StepOf
<1>3. /\ \A x \in Todo : x = Step \/ x \in Elems(Tail(todo))
      /\ \A y \in Elems(Tail(todo)) : Precedes(Step.do, y.do) /\ y \in Todo
      /\ \A y \in Todo : y.do \in Names
  BY <1>1, <1>2, Pop, StepFields DEF Shape, Todo, Step
<1>4. ASSUME NEW b \in Names, Precedes(a, b) PROVE FALSE
  <2>1. Rank(b) \in 1 .. 39 BY RankNat
  <2>2. Rank(a) = 39 BY Ranks DEF Ending
  <2>3. a \notin Repeated /\ a # "Settle" BY DEF Ending, Repeated
  <2> QED BY <1>4, <2>1, <2>2, <2>3 DEF Precedes
<1> QED BY <1>2, <1>3, <1>4

\* What does not take a step of the list.
Aside ==
  \/ Unlock
  \/ Lock
  \/ \E i \in Id : DeleteHost(i)
  \/ \E v \in 0 .. MaxOps : EditDoc(v)
  \/ \E s \in Space : UnlockSpace(s)
  \/ Rechaining
  \/ \E m \in Space : RechainEnds(m)
  \/ \E s \in Space : PassBegin(s)
  \/ \E s \in Space : PassCheck(s)
  \/ \E s \in Space : PassEnd(s)
  \/ \E s \in Space, i \in Id : PassPull(s, i)

\* What becomes of the list.
LEMMA TodoIs ==
  ASSUME Inv, Next
  PROVE  /\ Shape'
         /\ \/ Aside /\ UNCHANGED <<todo, op, up>> /\ Todo' = Todo
            \/ Goes
            \/ Falls
            \/ Asking
            \/ Crash /\ Todo' = {Do("Open")} /\ todo' # <<>> /\ Step' = Do("Open")
            \/ Failed /\ todo' = <<>> /\ Todo' = {}
            \/ GivesUp
<1>1. Shape /\ mem \in Registry /\ RegOK(mem) /\ KindOK /\ op.kind \in Kinds /\ store \in [Space -> StoreSet]
  BY Basics
<1>2. CASE Aside
  <2>1. UNCHANGED <<todo, op, up>> BY <1>2, TodoFrame DEF Aside
  <2>2. Todo' = Todo /\ Shape' BY <1>1, <2>1 DEF Todo, Elems, Shape, ShapeOf, Ordered
  <2> QED BY <1>2, <2>1, <2>2
<1>3. CASE Passing BY <1>1, <1>3, PopIs, PoppedGoes
<1>4. CASE Import \/ Personal \/ StageMain \/ StageOther \/ TakeKeys \/ TakeTimesOut
  <2>1. todo # <<>> /\ Step \in Todo BY <1>1, <1>4, StepIs DEF StepOf
  <2>2. op.kind # "none" BY <1>1, <1>4, StepIs, KindsOf DEF StepOf
  <2>3. up BY <1>1, <2>2 DEF KindOK
  <2>4. UNCHANGED <<op, up, reg, mem>> BY <1>4, MoveFrames, RemoveFrames
  <2>5. /\ Shape'
        /\ Popped \/ (UNCHANGED store /\ Breaks)
    <3>1. CASE Import BY <3>1, ImportIs DEF Breaks
    <3>2. CASE Personal BY <3>2, PersonalIs DEF Breaks
    <3>3. CASE StageMain BY <3>3, StageMainIs DEF Breaks
    <3>4. CASE StageOther BY <3>4, StageOtherIs DEF Breaks
    <3>5. CASE TakeKeys BY <3>5, TakeKeysIs DEF Breaks
    <3>6. CASE TakeTimesOut BY <1>1, <3>6, StepIs, FailedStep, RemoveFrames DEF TakeTimesOut, Breaks, StepOf
    <3> QED BY <1>4, <3>1, <3>2, <3>3, <3>4, <3>5, <3>6
  <2>6. CASE Popped BY <2>5, <2>6, PoppedGoes
  <2>7. CASE UNCHANGED store /\ Breaks
    <3>1. Fallen(FrontOf(Step.do)) /\ (Step.do = "Import" => Step'.do = "Clear") BY <2>7, FallsIs DEF Breaks
    <3> QED BY <1>4, <2>1, <2>3, <2>4, <2>5, <2>7, <3>1 DEF Falls
  <2> QED BY <2>5, <2>6, <2>7
<1>5. CASE Recover
  <2>1. mem.journal = NoJournal => Shape' /\ Popped BY <1>1, <1>5, RecoverList
  <2>2. mem.journal # NoJournal /\ ~Arrived(mem.journal) => Shape' /\ Spliced({Do("Clear")}, Do("Clear"))
    BY <1>1, <1>5, RecoverList
  <2>3. mem.journal # NoJournal /\ Arrived(mem.journal) =>
          /\ Shape'
          /\ Spliced(Drops(mem.journal.from, mem.journal.host) \cup {Do("Clear")},
                     DoHost("DropHost", mem.journal.from, mem.journal.host))
    BY <1>1, <1>5, RecoverList
  <2>4. Do("Clear").do = "Clear" BY MadeSteps DEF Plain
  <2>5. \A y \in {Do("Clear")} : Put(y) BY <1>5, <2>4 DEF Put
  <2>6. mem.journal # NoJournal /\ Arrived(mem.journal) =>
          \A y \in Drops(mem.journal.from, mem.journal.host) \cup {Do("Clear")} : Put(y)
    BY <1>5, <2>4 DEF Put
  <2> QED BY <1>5, <2>1, <2>2, <2>3, <2>5, <2>6, PoppedGoes, SplicedGoes
<1>6. CASE Begin
  <2>1. todo # <<>> /\ Step \in Todo /\ Step.do = "Begin" BY <1>1, <1>6, StepIs DEF StepOf
  <2>2. op.kind # "none" BY <1>1, <2>1, KindsOf
  <2>3. up BY <1>1, <2>2 DEF KindOK
  <2>4. UNCHANGED <<op, up, reg, mem, store>> BY <1>6, MoveFrames
  <2>5. Step.from # Step.to BY <2>1 DEF Inv, MoveOK
  <2> DEFINE M == {BeginNote, BeginImport} \cup Drops(Step.from, Step.id) \cup {Do("Clear")}
  <2>6. Shape' /\ (Fallen({}) \/ Spliced(M, BeginNote)) BY <1>1, <1>6, <2>5, BeginList
  <2>7. \A y \in M : Put(y) BY <1>6 DEF Put
  <2> HIDE DEF M
  <2>8. CASE Fallen({})
    <3>1. Fallen(FrontOf(Step.do)) BY <2>8, FallsIs
    <3> QED BY <1>6, <2>1, <2>3, <2>4, <2>6, <3>1 DEF Falls
  <2>9. CASE Spliced(M, BeginNote) BY <1>6, <2>6, <2>7, <2>9, SplicedGoes
  <2> QED BY <2>6, <2>8, <2>9
<1>7. CASE Settle
  <2>1. PICK M, f : /\ Spliced(M, f)
                    /\ mem.handover = None => \A x \in M : x.do = "Unstage" /\ x.at \in mem.entries
                    /\ mem.handover # None =>
                           /\ f.do = "Promote"
                           /\ \A x \in M : \/ x.do = "Promote" /\ x.at \in mem.entries
                                           \/ x.do = "ClearDoc" /\ x.at = mem.handover
                                           \/ x.do = "EndHandover"
    BY <1>1, <1>7, SettleList
  <2>2. \A y \in M : Put(y) BY <1>7, <2>1 DEF Put
  <2> QED BY <1>1, <1>7, <2>1, <2>2, SettleList, SplicedGoes
<1>8. CASE HandOn
  <2>1. Step \in Todo /\ Step.do = "HandOn" BY <1>1, <1>8, StepIs DEF StepOf
  <2>2. /\ Other(Step.at) \in mem.entries /\ Other(Step.at) # Step.at
    BY <2>1, RemovalOf
  <2>3. /\ Shape'
        /\ IF mem.main = Step.at
           THEN Spliced(SwapSteps(Other(Step.at)), DoIn("Personal", Other(Step.at)))
           ELSE Popped
    BY <1>1, <1>8, <2>2, HandOnList
  <2>4. mem.main = Step.at => \A y \in SwapSteps(Other(Step.at)) : Put(y) BY <1>8 DEF Put
  <2> QED BY <1>8, <2>3, <2>4, PoppedGoes, SplicedGoes
<1>9. CASE TakeHosts
  <2>1. Step \in Todo /\ Step.do = "TakeHosts" BY <1>1, <1>9, StepIs DEF StepOf
  <2>2. Other(Step.at) \in mem.entries /\ mem.entries \subseteq Space BY <2>1, RemovalOf, Basics
  <2>3. PICK M, f :
              /\ Spliced(M, f)
              /\ \A x \in M : \/ x.do \in {"Recover", "Moved"}
                              \/ x.do = "TakeKeys" /\ x.at = Step.at
                              \/ x.do = "Begin" /\ x.from = Step.at /\ x.to = Other(Step.at)
    BY <1>1, <1>9, <2>2, TakeHostsList
  <2>4. \A y \in M : Put(y) BY <1>9, <2>3 DEF Put
  <2> QED BY <1>1, <1>9, <2>2, <2>3, <2>4, TakeHostsList, SplicedGoes
<1>10. CASE Opens
  <2>1. Shape' /\ Fresh({Do("Settle"), Do("Recover"), Do("Ready")}, Do("Settle")) BY <1>10, OpenIs
  <2>2. StepOf("Open") BY <1>1, <1>10, StepIs
  <2>3. \A x \in Todo : x = Step BY <2>2, OpenAlone DEF Ending
  <2>4. Do("Settle").do = "Settle" /\ Do("Recover").do = "Recover" /\ Do("Ready").do = "Ready" BY MadeSteps DEF Plain
  <2>5. \A y \in Todo' : Put(y) BY <1>10, <2>1, <2>4 DEF Fresh, Put
  <2> QED BY <1>10, <2>1, <2>2, <2>3, <2>5 DEF Fresh, Goes, StepOf
<1>11. CASE Asking BY <1>11, AskIs
<1>12. CASE Crash
  <2>1. todo' = <<Do("Open")>> BY <1>12 DEF Crash
  <2> QED BY <1>12, <2>1, CrashList DEF Fresh
<1>13. CASE Failed
  <2>1. todo' = <<>> BY <1>13 DEF Failed
  <2> QED BY <1>13, <2>1, EmptyList
<1>14. CASE Errs
  <2>1. UNCHANGED <<op, up, store>> BY <1>14, ErrIs
  <2>2. Shape' /\ up /\ todo # <<>> /\ Step \in Todo BY <1>14, FailIs
  <2>3. CASE Breaks
    <3>1. Fallen(FrontOf(Step.do)) /\ (Step.do = "Import" => Step'.do = "Clear") BY <2>3, FallsIs DEF Breaks
    <3> QED BY <1>14, <2>1, <2>2, <3>1 DEF Falls
  <2>4. CASE /\ Step.do = "Register" /\ UNCHANGED mem /\ Step.at \in Space
             /\ Fresh({DoIn("Discard", Step.at), DoIn("Unmark", Step.at), Do("Failed")}, DoIn("Discard", Step.at))
    BY <1>14, <2>1, <2>2, <2>4 DEF GivesUp
  <2> QED BY <1>14, <2>3, <2>4, FailIs DEF Breaks, Dropped
<1> QED BY <1>2, <1>3, <1>4, <1>5, <1>6, <1>7, <1>8, <1>9, <1>10, <1>11, <1>12, <1>13, <1>14, NextCases DEF Passing, Aside

------------------------------------------------------------------------------
(* The operation keeps to its own steps                                     *)

\* The names of the steps that are put in.
LEMMA PutNames ==
  ASSUME Inv, NEW y, Put(y)
  PROVE  \/ (Recover \/ Begin) /\ y.do \in {"Note", "Import", "DropHost", "DropKey", "DropKnown", "Clear"}
         \/ Settle /\ y.do \in {"Unstage", "Promote", "ClearDoc", "EndHandover"}
         \/ HandOn /\ y.do \in {"Personal", "StageMain", "Stage", "Swap", "Settle"}
         \/ TakeHosts /\ y.do \in {"Recover", "Moved", "TakeKeys", "Begin"}
         \/ Opens /\ y.do \in {"Settle", "Recover", "Ready"}
<1>1. \A s, i : \A x \in Drops(s, i) : x.do \in {"DropHost", "DropKey", "DropKnown"} BY DEF Drops, DoHost
<1>2. BeginNote.do = "Note" /\ BeginImport.do = "Import" /\ Do("Clear").do = "Clear"
  BY DEF BeginNote, BeginImport, Do
<1>3. \A s : \A x \in SwapSteps(s) : x.do \in {"Personal", "StageMain", "Stage", "Swap", "Settle"}
  BY DEF SwapSteps, StageStep, DoIn, Do
<1> HIDE DEF BeginNote, BeginImport, Drops, SwapSteps
<1> QED BY <1>1, <1>2, <1>3 DEF Put

\* A step that is put in the list belongs to the operation.
LEMMA PutAllowed ==
  ASSUME Inv, NEW y, Put(y)
  PROVE  y.do \in Allowed(op.kind)
<1>1. Shape /\ KindOK /\ op.kind \in Kinds BY Basics
<1>2. CASE (Recover \/ Begin) /\ y.do \in {"Note", "Import", "DropHost", "DropKey", "DropKnown", "Clear"}
  <2>1. StepOf("Recover") \/ StepOf("Begin") BY <1>1, <1>2, StepIs
  <2>2. op.kind \in {"none", "move", "remove"} BY <1>1, <2>1, KindsOf DEF StepOf
  <2>3. CASE op.kind # "none" BY <1>2, <2>2, <2>3 DEF Allowed, MoveNames, RemoveNames
  <2>4. CASE op.kind = "none"
    <3>1. Recover BY <1>1, <1>2, <2>4, StepIs, KindsOf DEF StepOf
    <3>2. ~Begin BY <1>1, <2>4, StepIs, KindsOf DEF StepOf
    <3>3. y.do \notin {"Note", "Import"}
      <4>1. \A s, i : \A x \in Drops(s, i) : x.do \in {"DropHost", "DropKey", "DropKnown"} BY DEF Drops, DoHost
      <4>2. ~Settle /\ ~HandOn /\ ~TakeHosts /\ ~Opens BY <1>1, <3>1, StepIs DEF StepOf
      <4> QED BY <3>2, <4>1, <4>2 DEF Put
    <3> QED BY <1>2, <2>4, <3>3 DEF Allowed, Starting
  <2> QED BY <2>3, <2>4
<1>3. CASE Settle /\ y.do \in {"Unstage", "Promote", "ClearDoc", "EndHandover"}
  <2>1. op.kind \in {"none", "main", "remove"} BY <1>1, <1>3, StepIs, KindsOf DEF StepOf
  <2> QED BY <1>3, <2>1 DEF Allowed, Starting, SwapNames, RemoveNames
<1>4. CASE HandOn /\ y.do \in {"Personal", "StageMain", "Stage", "Swap", "Settle"}
  <2>1. op.kind = "remove" BY <1>1, <1>4, StepIs, KindsOf DEF StepOf
  <2> QED BY <1>4, <2>1 DEF Allowed, SwapNames, RemoveNames
<1>5. CASE TakeHosts /\ y.do \in {"Recover", "Moved", "TakeKeys", "Begin"}
  <2>1. op.kind = "remove" BY <1>1, <1>5, StepIs, KindsOf DEF StepOf
  <2> QED BY <1>5, <2>1 DEF Allowed, RemoveNames, MoveNames
<1>6. CASE Opens /\ y.do \in {"Settle", "Recover", "Ready"}
  <2>1. op.kind = "none" BY <1>6, OpenIs
  <2> QED BY <1>6, <2>1 DEF Allowed, Starting
<1> QED BY <1>2, <1>3, <1>4, <1>5, <1>6, PutNames

\* What may fail.
LEMMA FallsKind ==
  ASSUME Inv, Falls
  PROVE  /\ op.kind \in {"move", "main", "remove", "add"} /\ op.space \in Space
         /\ \A x \in Todo' : x.do \in Allowed(op.kind)
<1>1. Shape /\ KindOK /\ op.kind \in Kinds BY Basics
<1>2. todo # <<>> /\ Step \in Todo /\ up BY DEF Falls
<1>3. op.kind # "none" BY <1>1, <1>2 DEF KindOK
<1>4. op.kind \in {"move", "main", "remove", "add"}
  <2>1. CASE Begin \/ Import \/ Personal \/ StageMain \/ StageOther \/ TakeKeys \/ TakeTimesOut
    BY <1>1, <2>1, StepIs, KindsOf DEF StepOf
  <2>2. CASE Errs
    <3>1. Step.do # "Register"
      <4>1. SUFFICES ASSUME Step.do = "Register" PROVE FALSE OBVIOUS
      <4>2. Todo' = {DoIn("Discard", Step.at), DoIn("Unmark", Step.at), Do("Failed")}
        BY <2>2, <4>1, FailIs DEF Fresh, Dropped
      <4>3. DoIn("Discard", Step.at).do = "Discard" BY DEF DoIn
      <4> QED BY <4>1, <4>2, <4>3 DEF Falls, Fallen, FrontOf
    <3>2. Step.do \in Dropped \cup {"TakeKeys", "Personal", "Promote", "ClearDoc", "Note", "Import", "Clear",
                                    "StageMain", "Stage", "Swap", "EndHandover", "Leave", "Unregister",
                                    "Mark", "MakeFile"}
      BY <2>2, <3>1, FailIs
    <3> QED BY <1>1, <1>2, <1>3, <3>2, KindsOf DEF Dropped
  <2> QED BY <2>1, <2>2 DEF Falls
<1>5. ASSUME NEW x \in Todo' PROVE x.do \in Allowed(op.kind)
  <2>1. x.do \in {"Clear", "Unstage", "Unleave", "Failed"} BY <1>5 DEF Falls, Fallen, FrontOf
  <2>2. CASE x.do = "Failed" BY <1>4, <2>2 DEF Allowed, MoveNames, SwapNames, RemoveNames
  <2>3. CASE x.do = "Unleave"
    <3>1. op.kind = "remove" BY <1>5, <2>3 DEF Falls, Fallen
    <3> QED BY <2>3, <3>1 DEF Allowed, RemoveNames
  <2>4. CASE x.do = "Clear"
    <3>1. Step.do = "Import" BY <1>5, <2>4 DEF Falls, Fallen, FrontOf
    <3>2. op.kind \in {"move", "remove"} BY <1>1, <1>2, <3>1, KindsOf
    <3> QED BY <2>4, <3>2 DEF Allowed, MoveNames, RemoveNames
  <2>5. CASE x.do = "Unstage"
    <3>1. Step.do \in {"StageMain", "Stage", "Swap"} BY <1>5, <2>5 DEF Falls, Fallen, FrontOf
    <3>2. op.kind \in {"main", "remove"} BY <1>1, <1>2, <3>1, KindsOf
    <3> QED BY <2>5, <3>2 DEF Allowed, SwapNames, RemoveNames
  <2> QED BY <2>1, <2>2, <2>3, <2>4, <2>5
<1> QED BY <1>1, <1>3, <1>4, <1>5 DEF KindOK

\* What becomes of the operation.
LEMMA OpIs ==
  ASSUME Inv, Next
  PROVE  \/ UNCHANGED <<op, up>>
         \/ /\ Leave \/ Moved \/ HandOn
            /\ op.kind = "remove" /\ op' \in [kind : {"remove"}, space : {op.space}, taking : BOOLEAN, moved : BOOLEAN]
            /\ up /\ up'
         \/ (Failed \/ Done) /\ op' = Idle /\ up' = up /\ Todo' = {} /\ todo' = <<>>
         \/ Ready /\ UNCHANGED op /\ op.kind = "none" /\ up' /\ Todo' = {} /\ todo' = <<>>
         \/ Asking
         \/ Crash /\ op' = Idle /\ ~up' /\ open' = {} /\ pending' = None /\ held' = {}
            /\ running' = [s \in Space |-> "no"]
<1>1. Shape /\ KindOK /\ op.kind \in Kinds BY Basics
<1>2. op \in [kind : Kinds, space : Space \cup {None}, taking : BOOLEAN, moved : BOOLEAN] BY DEF Inv, Types
<1>3. CASE Leave \/ Moved \/ HandOn
  <2>1. op.kind = "remove" BY <1>1, <1>3, StepIs, KindsOf DEF StepOf
  <2>2. up BY <1>1, <2>1 DEF KindOK
  <2>3. UNCHANGED up BY <1>3, RemoveFrames
  <2>4. \/ op' = [op EXCEPT !.taking = TRUE, !.moved = (mem.leaving = Step.at)]
        \/ op' = [op EXCEPT !.moved = TRUE]
        \/ op' = [op EXCEPT !.taking = FALSE]
    BY <1>3 DEF Leave, Moved, HandOn
  <2>5. (mem.leaving = Step.at) \in BOOLEAN OBVIOUS
  <2>6. op' \in [kind : {"remove"}, space : {op.space}, taking : BOOLEAN, moved : BOOLEAN]
    BY <1>2, <2>1, <2>4, <2>5
  <2> QED BY <1>3, <2>1, <2>2, <2>3, <2>6
<1>4. CASE Failed BY <1>4, RemoveFrames, EmptyList DEF Failed
<1>5. CASE Done \/ Ready
  <2>1. StepOf("Done") \/ StepOf("Ready") BY <1>1, <1>5, StepIs
  <2>2. \A x \in Todo : x.do \in Names BY <2>1, StepFields DEF StepOf
  <2>3. Popped BY <1>1, <1>5, PopIs DEF Passing
  <2>4. Todo' = {} /\ todo' = <<>> BY <2>1, <2>2, <2>3, PopEnd DEF StepOf, Ending
  <2>5. Ready => op.kind = "none" BY <1>1, StepIs, KindsOf DEF StepOf
  <2>6. (Ready => up' /\ UNCHANGED op) /\ (Done => op' = Idle) BY OtherFrames DEF Ready, Done
  <2> QED BY <1>5, <2>4, <2>5, <2>6, RemoveFrames
<1>6. CASE Crash BY <1>6 DEF Crash
<1> QED BY <1>3, <1>4, <1>5, <1>6, OpFrame

\* Nothing is open, set up or held before the program is up.
LEMMA DownIs ==
  ASSUME Inv, Next, ~up'
  PROVE  open' = {} /\ pending' = None /\ held' = {} /\ running' = [s \in Space |-> "no"]
<1>1. Shape /\ KindOK /\ op.kind \in Kinds BY Basics
<1>2. CASE Crash BY <1>2 DEF Crash
<1>3. CASE ~Crash
  <2>a. ~Ready BY DEF Ready
  <2>b. ~Asking BY AskIs
  <2>1. ~up /\ ~Ready BY <1>3, <2>a, <2>b, OpIs
  <2>2. op.kind = "none" /\ open = {} /\ pending = None /\ held = {} /\ running = [s \in Space |-> "no"]
    BY <1>1, <2>1 DEF KindOK
  <2>3. /\ ~Unregister /\ ~MakeFile /\ ~Discard /\ ~RemoveFiles /\ ~Mark /\ ~Register /\ ~Unmark
        /\ ~Hold /\ ~TakeRunning /\ ~Retire /\ ~Failed /\ ~Done
    BY <1>1, <2>2, StepIs, KindsOf DEF StepOf
  <2>4. ~Unlock /\ ~Lock /\ ~(\E s \in Space : UnlockSpace(s) \/ PassBegin(s) \/ PassCheck(s) \/ PassEnd(s))
    BY <2>1 DEF Unlock, Lock, UnlockSpace, PassBegin, PassCheck, PassEnd
  <2>8. ~(\E m, s \in Space : RechainUnlock(m, s)) BY <2>1 DEF RechainUnlock, MayChain
  <2>9. ~(Skips /\ Step.do = "Discard") BY <2>2, SkipIs
  <2>10. ~Errs BY <2>1, FailIs
  <2>11. Swap \/ (\E m \in Space : RechainEnds(m)) => UNCHANGED open BY MoveFrames, OtherFrames
  <2>5. UNCHANGED open BY <1>3, <2>3, <2>4, <2>8, <2>9, <2>11, ChainFrame
  <2>6. UNCHANGED pending BY <1>3, <2>3, <2>9, <2>10, FileFrame, OtherFrames
  <2>7. UNCHANGED <<held, running>> BY <1>3, <2>1, <2>3, <2>4, FlagFrame
  <2> QED BY <2>2, <2>5, <2>6, <2>7
<1> QED BY <1>2, <1>3

\* The steps of an operation that starts.
LEMMA AskAllowed ==
  ASSUME Inv, Asking
  PROVE  /\ op'.kind \in Kinds \ {"none"} /\ op'.space \in Space /\ ~op'.taking /\ ~op'.moved
         /\ \A x \in Todo' : x.do \in Allowed(op'.kind)
         /\ op' \in [kind : Kinds, space : Space \cup {None}, taking : BOOLEAN, moved : BOOLEAN]
<1>1. mem.entries \subseteq Space BY Basics
<1>2. \A s : \A x \in SwapSteps(s) : x.do \in {"Personal", "StageMain", "Stage", "Swap", "Settle"}
  BY DEF SwapSteps, StageStep, DoIn, Do
<1>3. \A a, s : DoIn(a, s).do = a BY DEF DoIn
<1>4. \A a : Do(a).do = a BY DEF Do
<1>5. \A i, s, t : BeginStep(i, s, t).do = "Begin" BY DEF BeginStep
<1>6. \A s, keep : \A x \in RemoveSteps(s, keep) :
        x.do \in {"Hold", "TakeRunning", "HandOn", "Unregister", "RemoveFiles", "Retire", "Done",
                  "Leave", "TakeHosts"}
  BY <1>3, <1>4 DEF RemoveSteps
<1>7. PICK kind \in Kinds \ {"none"}, s \in Space :
        /\ op' = [kind |-> kind, space |-> s, taking |-> FALSE, moved |-> FALSE]
        /\ \A x \in Todo' : x.do \in Allowed(kind)
  <2>1. CASE \E i \in Id, s, to \in mem.entries :
                 /\ op' = [kind |-> "move", space |-> to, taking |-> FALSE, moved |-> FALSE]
                 /\ Fresh({Do("Recover"), BeginStep(i, s, to), Do("Done")}, Do("Recover"))
    <3>1. PICK i \in Id, s, to \in mem.entries :
                 /\ op' = [kind |-> "move", space |-> to, taking |-> FALSE, moved |-> FALSE]
                 /\ Fresh({Do("Recover"), BeginStep(i, s, to), Do("Done")}, Do("Recover"))
      BY <2>1
    <3>2. \A x \in Todo' : x.do \in MoveNames BY <1>4, <1>5, <3>1 DEF Fresh, MoveNames
    <3>3. \A x \in Todo' : x.do \in Allowed("move") BY <3>2 DEF Allowed
    <3> QED BY <1>1, <3>1, <3>3 DEF Kinds
  <2>2. CASE \E s \in mem.entries \ {mem.main} :
                 /\ op' = [kind |-> "main", space |-> s, taking |-> FALSE, moved |-> FALSE]
                 /\ Fresh({DoIn("TakeRunning", mem.main), DoIn("TakeRunning", s), Do("Done")} \cup SwapSteps(s),
                          DoIn("TakeRunning", mem.main))
    <3>1. PICK s \in mem.entries \ {mem.main} :
                 /\ op' = [kind |-> "main", space |-> s, taking |-> FALSE, moved |-> FALSE]
                 /\ Fresh({DoIn("TakeRunning", mem.main), DoIn("TakeRunning", s), Do("Done")} \cup SwapSteps(s),
                          DoIn("TakeRunning", mem.main))
      BY <2>2
    <3>2. \A x \in Todo' : x.do \in SwapNames BY <1>2, <1>3, <1>4, <3>1 DEF Fresh, SwapNames
    <3>3. \A x \in Todo' : x.do \in Allowed("main") BY <3>2 DEF Allowed
    <3> QED BY <1>1, <3>1, <3>3 DEF Kinds
  <2>3. CASE \E s \in mem.entries, keep \in BOOLEAN :
                 /\ op' = [kind |-> "remove", space |-> s, taking |-> FALSE, moved |-> FALSE]
                 /\ Fresh(RemoveSteps(s, keep), DoIn("Hold", s))
    <3>1. PICK s \in mem.entries, keep \in BOOLEAN :
                 /\ op' = [kind |-> "remove", space |-> s, taking |-> FALSE, moved |-> FALSE]
                 /\ Fresh(RemoveSteps(s, keep), DoIn("Hold", s))
      BY <2>3
    <3>2. \A x \in Todo' : x.do \in RemoveNames
      BY <1>6, <3>1 DEF Fresh, RemoveNames, SwapNames, MoveNames
    <3>3. \A x \in Todo' : x.do \in Allowed("remove") BY <3>2 DEF Allowed
    <3> QED BY <1>1, <3>1, <3>3 DEF Kinds
  <2>4. CASE \E s \in Space :
                 /\ op' = [kind |-> "add", space |-> s, taking |-> FALSE, moved |-> FALSE]
                 /\ Fresh({DoIn("Mark", s), DoIn("MakeFile", s), Do("Done")}, DoIn("Mark", s))
    <3>1. PICK s \in Space :
                 /\ op' = [kind |-> "add", space |-> s, taking |-> FALSE, moved |-> FALSE]
                 /\ Fresh({DoIn("Mark", s), DoIn("MakeFile", s), Do("Done")}, DoIn("Mark", s))
      BY <2>4
    <3>2. \A x \in Todo' : x.do \in {"Mark", "MakeFile", "Done"} BY <1>3, <1>4, <3>1 DEF Fresh
    <3>3. \A x \in Todo' : x.do \in Allowed("add") BY <3>2 DEF Allowed
    <3> QED BY <1>1, <3>1, <3>3 DEF Kinds
  <2>5. CASE /\ pending \in Space
             /\ op' = [kind |-> "adopt", space |-> pending, taking |-> FALSE, moved |-> FALSE]
             /\ Fresh({DoIn("Register", pending), DoIn("Unmark", pending), DoIn("Reseal", pending), Do("Done")},
                        DoIn("Register", pending))
    <3>1. /\ pending \in Space
             /\ op' = [kind |-> "adopt", space |-> pending, taking |-> FALSE, moved |-> FALSE]
             /\ Fresh({DoIn("Register", pending), DoIn("Unmark", pending), DoIn("Reseal", pending), Do("Done")},
                        DoIn("Register", pending))
      BY <2>5
    <3>2. \A x \in Todo' : x.do \in {"Register", "Unmark", "Reseal", "Done"} BY <1>3, <1>4, <3>1 DEF Fresh
    <3>3. \A x \in Todo' : x.do \in Allowed("adopt") BY <3>2 DEF Allowed
    <3> QED BY <1>1, <3>1, <3>3 DEF Kinds
  <2>6. CASE /\ pending \in Space
             /\ op' = [kind |-> "discard", space |-> pending, taking |-> FALSE, moved |-> FALSE]
             /\ Fresh({DoIn("Discard", pending), DoIn("Unmark", pending), Do("Done")}, DoIn("Discard", pending))
    <3>1. /\ pending \in Space
             /\ op' = [kind |-> "discard", space |-> pending, taking |-> FALSE, moved |-> FALSE]
             /\ Fresh({DoIn("Discard", pending), DoIn("Unmark", pending), Do("Done")}, DoIn("Discard", pending))
      BY <2>6
    <3>2. \A x \in Todo' : x.do \in {"Discard", "Unmark", "Done"} BY <1>3, <1>4, <3>1 DEF Fresh
    <3>3. \A x \in Todo' : x.do \in Allowed("discard") BY <3>2 DEF Allowed
    <3> QED BY <1>1, <3>1, <3>3 DEF Kinds
  <2> QED BY <2>1, <2>2, <2>3, <2>4, <2>5, <2>6, AskIs
<1> QED BY <1>7

\* An operation has a kind and a server.
LEMMA OpType ==
  ASSUME Inv, Next
  PROVE  op' \in [kind : Kinds, space : Space \cup {None}, taking : BOOLEAN, moved : BOOLEAN]
<1>1. op \in [kind : Kinds, space : Space \cup {None}, taking : BOOLEAN, moved : BOOLEAN] BY DEF Inv, Types
<1>2. Idle \in [kind : Kinds, space : Space \cup {None}, taking : BOOLEAN, moved : BOOLEAN] BY DEF Idle, Kinds
<1>3. op.kind = "remove" => "remove" \in Kinds BY DEF Kinds
<1> QED BY <1>1, <1>2, <1>3, OpIs, AskAllowed

\* Only these are the last step.
LEMMA LastStep ==
  ASSUME Inv, Next, todo # <<>>, todo' = <<>>
  PROVE  Failed \/ Done \/ Ready
<1>1. Shape BY DEF Inv
<1>2. ~Crash
  <2>1. Crash => todo' = <<Do("Open")>> BY DEF Crash
  <2> QED BY <2>1, CrashList DEF Fresh
<1>3. ~Asking /\ ~Falls /\ ~GivesUp /\ ~UNCHANGED todo
  BY AskIs DEF Falls, Fallen, GivesUp, Fresh
<1>4. CASE Goes
  <2>1. Step.do \in Ending BY <1>4 DEF Goes
  <2>2. ~Opens BY OpenIs DEF Fresh
  <2>3. ~Drop /\ ~SettleStep BY <1>1, <2>1, StepIs DEF StepOf, Dropped, Ending
  <2>4. /\ ~Recover /\ ~Begin /\ ~Note /\ ~Import /\ ~Clear /\ ~Personal /\ ~StageMain /\ ~StageOther /\ ~Unstage
        /\ ~Swap /\ ~Settle /\ ~EndHandover /\ ~Hold /\ ~TakeRunning /\ ~TakeTimesOut /\ ~Leave /\ ~TakeHosts
        /\ ~Moved /\ ~TakeKeys /\ ~HandOn /\ ~Unregister /\ ~RemoveFiles /\ ~Retire /\ ~Unleave
        /\ ~Mark /\ ~MakeFile /\ ~Register /\ ~Unmark /\ ~Reseal /\ ~Discard
    BY <1>1, <2>1, StepIs DEF StepOf, Ending
  <2>5. ~Errs /\ ~Skips BY <2>1, FailIs, SkipIs DEF Ending, Dropped, Skipped
  <2> QED BY <1>2, <1>3, <2>2, <2>3, <2>4, <2>5, NextCases, TodoFrame
<1> QED BY <1>2, <1>3, <1>4, TodoIs

\* Every step leaves an operation with steps of its own.
LEMMA KindStep ==
  ASSUME Inv, Next
  PROVE  KindOK'
<1>1. Shape /\ KindOK /\ op.kind \in Kinds BY Basics
<1>2. ~up' => open' = {} /\ pending' = None /\ held' = {} /\ running' = [s \in Space |-> "no"] BY DownIs
<1>3. CASE UNCHANGED <<todo, op, up>> /\ Todo' = Todo BY <1>1, <1>2, <1>3 DEF KindOK
<1>4. CASE Asking
  <2>1. /\ op'.kind # "none" /\ op'.space \in Space /\ ~op'.taking /\ ~op'.moved
        /\ \A x \in Todo' : x.do \in Allowed(op'.kind)
    BY <1>4, AskAllowed
  <2>2. todo' # <<>> /\ up' BY <1>4, AskIs
  <2> QED BY <2>1, <2>2 DEF KindOK
<1>5. CASE Crash
  <2>1. Todo' = {Do("Open")} /\ todo' # <<>>
    <3>1. todo' = <<Do("Open")>> BY <1>5 DEF Crash
    <3> QED BY <3>1, CrashList DEF Fresh
  <2>2. op' = Idle /\ ~up' BY <1>5 DEF Crash
  <2>3. Do("Open").do = "Open" /\ op'.kind = "none" /\ ~op'.taking /\ ~op'.moved BY <2>2 DEF Do, Idle
  <2> QED BY <1>2, <2>1, <2>2, <2>3 DEF KindOK, Allowed, Starting
<1>6. CASE (Failed \/ Done \/ Ready) /\ ~Crash /\ ~Asking
  <2>1. ~UNCHANGED <<op, up>> \/ (Todo' = {} /\ todo' = <<>>)
    <3>1. CASE Failed
      <4>1. todo' = <<>> BY <3>1 DEF Failed
      <4> QED BY <4>1, EmptyList
    <3>2. CASE Done \/ Ready
      <4>1. StepOf("Done") \/ StepOf("Ready") BY <1>1, <3>2, StepIs
      <4>2. \A x \in Todo : x.do \in Names BY <4>1, StepFields DEF StepOf
      <4>3. Popped BY <1>1, <3>2, PopIs DEF Passing
      <4> QED BY <4>1, <4>2, <4>3, PopEnd DEF StepOf, Ending
    <3> QED BY <1>6, <3>1, <3>2
  <2>2. ~Leave /\ ~Moved /\ ~HandOn BY <1>1, <1>6, StepIs DEF StepOf
  <2>3. Todo' = {} /\ todo' = <<>> BY <1>6, <2>1, <2>2, OpIs
  <2>4. op' = op \/ op' = Idle BY <1>6, <2>2, OpIs
  <2>5. op' = Idle
    <3>1. Ready => op.kind = "none" /\ op' = op BY <1>1, StepIs, KindsOf, OtherFrames DEF StepOf
    <3>2. (Failed \/ Done) => op' = Idle BY DEF Failed, Done
    <3> QED BY <1>1, <1>6, <3>1, <3>2 DEF KindOK
  <2>6. up'
    <3>1. Ready => up' BY DEF Ready
    <3>2. (Failed \/ Done) => UNCHANGED up /\ op.kind # "none" BY <1>1, StepIs, KindsOf, RemoveFrames DEF StepOf
    <3> QED BY <1>1, <1>6, <3>1, <3>2 DEF KindOK
  <2> QED BY <1>2, <2>3, <2>5, <2>6 DEF KindOK, Idle
<1>7. CASE Goes /\ ~Failed /\ ~Done /\ ~Ready /\ ~Crash /\ ~Asking
  <2>1. /\ op'.kind = op.kind /\ op'.space = op.space /\ up' = up
        /\ op.kind # "remove" => op' = op
    BY <1>7, OpIs
  <2>2. op.kind = "none" /\ up => FALSE BY <1>1, <1>7 DEF KindOK, Goes
  <2>3. todo' # <<>>
    BY <1>7, LastStep DEF Goes
  <2>4. ASSUME NEW y \in Todo' PROVE y.do \in Allowed(op'.kind)
    <3>1. CASE Put(y) BY <2>1, <3>1, PutAllowed
    <3>2. CASE Old(y) BY <1>1, <2>1, <3>2 DEF Old, KindOK
    <3> QED BY <1>7, <3>1, <3>2 DEF Goes
  <2> QED BY <1>1, <1>2, <2>1, <2>2, <2>3, <2>4 DEF KindOK
<1>8. CASE Falls /\ ~Crash /\ ~Asking
  <2>1. UNCHANGED <<op, up>> /\ up /\ todo' # <<>> BY <1>8 DEF Falls, Fallen
  <2>2. op.kind # "none" /\ \A x \in Todo' : x.do \in Allowed(op.kind) BY <1>8, FallsKind
  <2> QED BY <1>1, <2>1, <2>2 DEF KindOK
<1>9. CASE GivesUp
  <2>1. op.kind = "adopt" /\ UNCHANGED <<op, up>> BY <1>1, <1>9, KindsOf DEF GivesUp
  <2>2. Todo' = {DoIn("Discard", Step.at), DoIn("Unmark", Step.at), Do("Failed")} /\ todo' # <<>>
    BY <1>9 DEF GivesUp, Fresh
  <2>3. \A x \in Todo' : x.do \in {"Discard", "Unmark", "Failed"} BY <2>2 DEF DoIn, Do
  <2>4. \A x \in Todo' : x.do \in Allowed(op'.kind) BY <2>1, <2>3 DEF Allowed
  <2> QED BY <1>1, <1>2, <2>1, <2>2, <2>4 DEF KindOK
<1> QED BY <1>3, <1>4, <1>5, <1>6, <1>7, <1>8, <1>9, TodoIs

------------------------------------------------------------------------------
(* The registry                                                             *)

\* What is behind the next step.
LEMMA Behind ==
  ASSUME Shape, NEW a, StepOf(a), NEW x \in Todo
  PROVE  x = Step \/ Precedes(a, x.do)
<1>1. /\ \A y \in Todo : y = Step \/ y \in Elems(Tail(todo))
      /\ \A y \in Elems(Tail(todo)) : Precedes(Step.do, y.do)
  BY Pop DEF Shape, Todo, Step, StepOf
<1> QED BY <1>1 DEF StepOf

\* The parts of a registry.
LEMMA RegFields ==
  ASSUME NEW r \in Registry
  PROVE  /\ r.main \in Space /\ r.entries \in SUBSET Space /\ r.journal \in Journal \cup {NoJournal}
         /\ r.handover \in Space \cup {None} /\ r.leaving \in Space \cup {None}
         /\ \A j \in Journal \cup {NoJournal} :
              /\ [r EXCEPT !.journal = j] \in Registry
              /\ [r EXCEPT !.journal = j].main = r.main /\ [r EXCEPT !.journal = j].entries = r.entries /\ [r EXCEPT !.journal = j].journal = j
              /\ [r EXCEPT !.journal = j].handover = r.handover /\ [r EXCEPT !.journal = j].leaving = r.leaving
         /\ \A h \in Space \cup {None} :
              /\ [r EXCEPT !.handover = h] \in Registry
              /\ [r EXCEPT !.handover = h].main = r.main /\ [r EXCEPT !.handover = h].entries = r.entries /\ [r EXCEPT !.handover = h].journal = r.journal
              /\ [r EXCEPT !.handover = h].handover = h /\ [r EXCEPT !.handover = h].leaving = r.leaving
         /\ \A l \in Space \cup {None} :
              /\ [r EXCEPT !.leaving = l] \in Registry
              /\ [r EXCEPT !.leaving = l].main = r.main /\ [r EXCEPT !.leaving = l].entries = r.entries /\ [r EXCEPT !.leaving = l].journal = r.journal
              /\ [r EXCEPT !.leaving = l].handover = r.handover /\ [r EXCEPT !.leaving = l].leaving = l
BY DEF Registry

\* The registry while a host moves.
LEMMA JournalSet ==
  ASSUME NEW r \in Registry, RegOK(r), NEW j, j = NoJournal \/ (j \in Entry /\ {j.from, j.to} \subseteq r.entries)
  PROVE  LET n == [r EXCEPT !.journal = j] IN
         /\ n \in Registry /\ RegOK(n)
         /\ n.main = r.main /\ n.entries = r.entries /\ n.journal = j /\ n.handover = r.handover
         /\ n.leaving = r.leaving
<1>1. j \in Journal \cup {NoJournal} BY DEF Entry
<1> DEFINE n == [r EXCEPT !.journal = j]
<1>2. /\ n \in Registry /\ n.main = r.main /\ n.entries = r.entries /\ n.journal = j /\ n.handover = r.handover
      /\ n.leaving = r.leaving
  BY <1>1, RegFields
<1> HIDE DEF n
<1>3. RegOK(n) BY <1>2 DEF RegOK
<1> QED BY <1>2, <1>3 DEF n

\* Writing the note of a handover.
LEMMA HandoverSet ==
  ASSUME NEW r \in Registry, RegOK(r), NEW h \in Space \cup {None}, h # r.main
  PROVE  LET n == [r EXCEPT !.handover = h] IN
         /\ n \in Registry /\ RegOK(n)
         /\ n.main = r.main /\ n.entries = r.entries /\ n.journal = r.journal /\ n.handover = h
         /\ n.leaving = r.leaving
<1> DEFINE n == [r EXCEPT !.handover = h]
<1>2. /\ n \in Registry /\ n.main = r.main /\ n.entries = r.entries /\ n.journal = r.journal /\ n.handover = h
      /\ n.leaving = r.leaving
  BY RegFields
<1> HIDE DEF n
<1>3. RegOK(n) BY <1>2 DEF RegOK
<1> QED BY <1>2, <1>3 DEF n

\* Writing the note of a server hosts leave.
LEMMA LeavingSet ==
  ASSUME NEW r \in Registry, RegOK(r), NEW l \in Space \cup {None}
  PROVE  LET n == [r EXCEPT !.leaving = l] IN
         /\ n \in Registry /\ RegOK(n)
         /\ n.main = r.main /\ n.entries = r.entries /\ n.journal = r.journal /\ n.handover = r.handover
         /\ n.leaving = l
<1> DEFINE n == [r EXCEPT !.leaving = l]
<1>2. /\ n \in Registry /\ n.main = r.main /\ n.entries = r.entries /\ n.journal = r.journal
      /\ n.handover = r.handover /\ n.leaving = l
  BY RegFields
<1> HIDE DEF n
<1>3. RegOK(n) BY <1>2 DEF RegOK
<1> QED BY <1>2, <1>3 DEF n

\* What a move writes down first.
LEMMA NoteIs ==
  ASSUME Inv, StepOf("Note")
  PROVE  /\ Step.j \in Entry /\ {Step.j.from, Step.j.to} \subseteq mem.entries /\ mem.journal = NoJournal
         /\ Fits(Step.j)
         /\ \E y \in Todo : y.do = "Import" /\ y.j = Step.j
<1>1. Shape BY DEF Inv
<1>2. todo # <<>> /\ Step.do = "Note" /\ Step \in StepSet BY DEF StepOf
<1> DEFINE u == Tail(todo)
<1>3. /\ u # <<>> => Follows(Step, u[1]) /\ u[1] \in Elems(u)
      /\ Elems(u) \subseteq Todo /\ (u = <<>> => Step.do \in Ending)
  BY <1>1, <1>2, Pop DEF Shape, Todo, Step
<1> HIDE DEF u
<1>4. u[1].do = "Import" /\ u[1].j = Step.j /\ u[1] \in Todo BY <1>2, <1>3 DEF Follows, Ending
<1>5. Fits(Step.j) BY <1>4 DEF Inv, MoveOK
<1>6. mem.journal = NoJournal BY <1>2 DEF Inv, MoveOK, AtFirst
<1>7. Step.j \in Entry BY <1>2, StepFields
<1> QED BY <1>4, <1>5, <1>6, <1>7 DEF Fits

\* The main server is not the one that goes.
LEMMA UnregisterIs ==
  ASSUME Inv, StepOf("Unregister")
  PROVE  LET n == Removed(Step.at) IN
         /\ op.kind = "remove" /\ op.space = Step.at /\ Step.at \in mem.entries /\ Step.at # mem.main
         /\ mem.entries = {mem.main, Step.at}
         /\ n \in Registry /\ RegOK(n)
         /\ n.main = mem.main /\ n.entries = {mem.main} /\ n.journal = NoJournal /\ n.handover = mem.handover
         /\ n.leaving = IF mem.leaving = Step.at THEN None ELSE mem.leaving
<1>1. Shape /\ mem \in Registry /\ RegOK(mem) /\ Step \in Todo /\ Step.do = "Unregister" BY Basics DEF StepOf
<1>2. /\ op.kind = "remove" /\ Step.at = op.space /\ Removing
      /\ Step.at \in mem.entries /\ Other(Step.at) # Step.at
      /\ mem.main = Step.at \/ Other(Step.at) = mem.main
      /\ mem.entries = {Step.at, Other(Step.at)}
  BY <1>1, RemovalOf
<1>3. mem.main # op.space
  <2>1. mem.main # op.space \/ Within({"HandOn", "Swap"}) BY <1>1, <1>2 DEF Removing
  <2>2. ASSUME NEW x \in Todo, x.do \in {"HandOn", "Swap"} PROVE FALSE
    <3>1. Precedes("Unregister", x.do) BY <1>1, <2>2, Behind
    <3> QED BY <2>2, <3>1, Ranks DEF Precedes, Repeated
  <2> QED BY <2>1, <2>2 DEF Within
<1>4. mem.entries = {mem.main, Step.at} /\ Step.at # mem.main BY <1>2, <1>3
<1> DEFINE n == Removed(Step.at)
<1>5. /\ n.main = mem.main /\ n.entries = mem.entries \ {Step.at} /\ n.journal = NoJournal
      /\ n.handover = mem.handover /\ n.leaving = (IF mem.leaving = Step.at THEN None ELSE mem.leaving)
      /\ n \in Registry
  BY <1>1 DEF Removed, Registry
<1>6. mem.entries \ {Step.at} = {mem.main} BY <1>4
<1> HIDE DEF n
<1>8. RegOK(n) BY <1>1, <1>5, <1>6 DEF RegOK, Registry
<1> QED BY <1>2, <1>3, <1>4, <1>5, <1>6, <1>8 DEF n

\* What the next swap makes of it.
LEMMA SwapSet ==
  ASSUME NEW r \in Registry, RegOK(r), NEW s \in r.entries \ {r.main}
  PROVE  LET n == [r EXCEPT !.main = s, !.handover = r.main] IN
         /\ n \in Registry /\ RegOK(n) /\ r.entries = {r.main, s}
         /\ n.main = s /\ n.entries = r.entries /\ n.journal = r.journal /\ n.handover = r.main
         /\ n.leaving = r.leaving
<1> DEFINE n == [r EXCEPT !.main = s, !.handover = r.main]
<1>1. s \in Space /\ r.main \in Space BY DEF Registry
<1>2. /\ n.main = s /\ n.entries = r.entries /\ n.journal = r.journal /\ n.handover = r.main
      /\ n.leaving = r.leaving
  BY DEF Registry
<1>3. n \in Registry BY <1>1 DEF Registry
<1> HIDE DEF n
<1>4. r.entries = {r.main, s} BY DEF RegOK
<1>5. RegOK(n) BY <1>1, <1>2, <1>4 DEF RegOK
<1> QED BY <1>2, <1>3, <1>4, <1>5 DEF n

\* Writing a second server into the registry.
LEMMA RegisterSet ==
  ASSUME NEW r \in Registry, RegOK(r), r.entries = {r.main}, NEW s \in Space
  PROVE  LET n == [r EXCEPT !.entries = @ \cup {s}] IN
         /\ n \in Registry /\ RegOK(n)
         /\ n.main = r.main /\ n.entries = {r.main, s} /\ n.journal = r.journal /\ n.handover = r.handover
         /\ n.leaving = r.leaving
<1> DEFINE n == [r EXCEPT !.entries = @ \cup {s}]
<1>1. /\ n.main = r.main /\ n.entries = r.entries \cup {s} /\ n.journal = r.journal /\ n.handover = r.handover
      /\ n.leaving = r.leaving
  BY DEF Registry
<1>3. n \in Registry BY DEF Registry
<1>2. r.entries \cup {s} = {r.main, s} OBVIOUS
<1> HIDE DEF n
<1>4. RegOK(n) BY <1>1, <1>2 DEF RegOK
<1> QED BY <1>1, <1>2, <1>3, <1>4 DEF n

\* What a start reads.
LEMMA OpenSet ==
  ASSUME NEW r \in Registry, RegOK(r)
  PROVE  LET n == [r EXCEPT
               !.journal  = IF @ # NoJournal /\ @.from # @.to /\ {@.from, @.to} \subseteq r.entries
                            THEN @ ELSE NoJournal,
               !.handover = IF @ # r.main /\ @ \in r.entries THEN @ ELSE None,
               !.leaving  = IF @ \in r.entries THEN @ ELSE None]
         IN /\ n \in Registry /\ RegOK(n)
            /\ n.main = r.main /\ n.entries = r.entries /\ n.journal = r.journal
            /\ n.handover = (IF r.handover \in r.entries THEN r.handover ELSE None)
            /\ n.leaving = (IF r.leaving \in r.entries THEN r.leaving ELSE None)
<1> DEFINE n == [r EXCEPT
               !.journal  = IF @ # NoJournal /\ @.from # @.to /\ {@.from, @.to} \subseteq r.entries
                            THEN @ ELSE NoJournal,
               !.handover = IF @ # r.main /\ @ \in r.entries THEN @ ELSE None,
               !.leaving  = IF @ \in r.entries THEN @ ELSE None]
           j == IF r.journal # NoJournal /\ r.journal.from # r.journal.to
                     /\ {r.journal.from, r.journal.to} \subseteq r.entries
                THEN r.journal ELSE NoJournal
           h == IF r.handover # r.main /\ r.handover \in r.entries THEN r.handover ELSE None
           l == IF r.leaving \in r.entries THEN r.leaving ELSE None
<1>1. n.main = r.main /\ n.entries = r.entries /\ n.journal = j /\ n.handover = h /\ n.leaving = l
  BY DEF Registry
<1>2. j = r.journal BY DEF RegOK, Entry
<1>3. h = (IF r.handover \in r.entries THEN r.handover ELSE None) BY DEF RegOK
<1>4. r.main \in Space /\ None \notin Space BY SpacesAssumption DEF Registry
<1>5. h \in Space \cup {None} /\ l \in Space \cup {None} /\ h # r.main BY <1>4 DEF Registry
<1>8. j \in Journal \cup {NoJournal} BY <1>2 DEF Registry
<1>6. n \in Registry BY <1>1, <1>5, <1>8 DEF Registry
<1> HIDE DEF n, j, h, l
<1>7. RegOK(n) BY <1>1, <1>2, <1>5 DEF RegOK
<1> QED BY <1>1, <1>2, <1>3, <1>6, <1>7 DEF n, l

\* What each step makes of the registry.
RegNote  == /\ mem'.main = mem.main /\ mem'.entries = mem.entries /\ mem'.handover = mem.handover
            /\ mem'.leaving = mem.leaving
RegHand  == /\ mem'.main = mem.main /\ mem'.entries = mem.entries /\ mem'.journal = mem.journal
            /\ mem'.leaving = mem.leaving
RegLeave == /\ mem'.main = mem.main /\ mem'.entries = mem.entries /\ mem'.journal = mem.journal
            /\ mem'.handover = mem.handover
RegGone  == /\ mem'.main = mem.main /\ mem'.entries = {mem.main} /\ mem'.journal = NoJournal
            /\ mem'.handover = mem.handover
            /\ mem'.leaving = IF mem.leaving = Step.at THEN None ELSE mem.leaving
RegSwap  == /\ mem'.main = Step.at /\ mem'.entries = mem.entries /\ mem'.journal = mem.journal
            /\ mem'.handover = mem.main /\ mem'.leaving = mem.leaving
RegNew   == /\ mem'.main = mem.main /\ mem'.entries = {mem.main, Step.at} /\ mem'.journal = mem.journal
            /\ mem'.handover = mem.handover /\ mem'.leaving = mem.leaving
RegOpen  == /\ mem'.main = reg.main /\ mem'.entries = reg.entries /\ mem'.journal = reg.journal
            /\ mem'.handover = (IF reg.handover \in reg.entries THEN reg.handover ELSE None)
            /\ mem'.leaving = (IF reg.leaving \in reg.entries THEN reg.leaving ELSE None)

\* And of the one on disk when its write tears.
TornSwap  == /\ reg'.main = Step.at /\ reg'.entries = mem.entries /\ reg'.journal = mem.journal
             /\ reg'.handover = mem.main /\ reg'.leaving = mem.leaving
TornLeave == /\ reg'.main = mem.main /\ reg'.entries = mem.entries /\ reg'.journal = mem.journal
             /\ reg'.handover = mem.handover /\ reg'.leaving = Step.at
TornNew   == /\ reg'.main = mem.main /\ reg'.entries = {mem.main, Step.at} /\ reg'.journal = mem.journal
             /\ reg'.handover = mem.handover /\ reg'.leaving = mem.leaving

\* The counters stay numbers, and a failure is counted.
LEMMA SpentIn ==
  ASSUME Inv, Next
  PROVE  /\ spent' \in [ops : Nat, crashes : Nat, errors : Nat]
         /\ spent'.errors = 0 => spent.errors = 0 /\ ~Errs /\ ~Skips /\ ~Sweeps
<1>1. spent \in [ops : Nat, crashes : Nat, errors : Nat] BY DEF Inv, Types
<1>2. ASSUME NEW what \in {"ops", "crashes", "errors"}, Spend(what)
      PROVE  /\ spent' \in [ops : Nat, crashes : Nat, errors : Nat]
             /\ spent'.errors = IF what = "errors" THEN spent.errors + 1 ELSE spent.errors
  BY <1>1, <1>2 DEF Spend
<1>3. ASSUME Asking \/ Lock \/ (\E i \in Id : DeleteHost(i))
         \/ (\E v \in 0 .. MaxOps : EditDoc(v)) \/ (\E s \in Space, i \in Id : PassPull(s, i))
      PROVE  spent' \in [ops : Nat, crashes : Nat, errors : Nat] /\ spent'.errors = spent.errors
  <2>1. Spend("ops")
    BY <1>3 DEF Asking, AskMove, AskMakeMain, AskAdd, AskRemove, AskAdopt, AskDiscard, Asks, Starts, Lock,
                DeleteHost, EditDoc, PassPull
  <2> QED BY <1>2, <2>1
<1>4. ASSUME Crash
      PROVE  spent' \in [ops : Nat, crashes : Nat, errors : Nat] /\ spent'.errors = spent.errors
  <2>1. Spend("crashes") BY <1>4 DEF Crash
  <2> QED BY <1>2, <2>1
<1>5. ASSUME Swap
      PROVE  spent' \in [ops : Nat, crashes : Nat, errors : Nat] /\ spent'.errors = spent.errors
  <2>1. UNCHANGED spent \/ Spend("ops") BY <1>5 DEF Swap
  <2> QED BY <1>1, <1>2, <2>1
<1>6. ASSUME Errs \/ Skips \/ Sweeps
      PROVE  spent' \in [ops : Nat, crashes : Nat, errors : Nat] /\ spent'.errors # 0
  <2>1. Spend("errors") BY <1>6 DEF Errs, Skips, Sweeps, Fail
  <2>2. spent'.errors = spent.errors + 1 /\ spent' \in [ops : Nat, crashes : Nat, errors : Nat] BY <1>2, <2>1
  <2> QED BY <1>1, <2>2
<1>7. /\ spent' \in [ops : Nat, crashes : Nat, errors : Nat]
      /\ Errs \/ Skips \/ Sweeps \/ spent'.errors = spent.errors
  BY <1>1, <1>2, <1>3, <1>4, <1>5, <1>6, SpentFrame
<1> QED BY <1>6, <1>7

\* Who writes the registry, and what.
LEMMA RegIs ==
  ASSUME Inv, Next
  PROVE  /\ mem' \in Registry /\ RegOK(mem') /\ reg' \in Registry /\ RegOK(reg')
         /\ \/ UNCHANGED <<mem, reg>>
            \/ Note /\ reg' = mem' /\ RegNote /\ mem'.journal = Step.j
            \/ Clear /\ reg' = mem' /\ RegNote /\ mem'.journal = NoJournal
            \/ Swap /\ reg' = mem' /\ RegSwap /\ Step.at \in mem.entries \ {mem.main} /\ mem.entries = {mem.main, Step.at}
            \/ EndHandover /\ reg' = mem' /\ RegHand /\ mem'.handover = None
            \/ Leave /\ reg' = mem' /\ RegLeave /\ mem'.leaving = Step.at /\ mem.leaving # Step.at
            \/ Unleave /\ reg' = mem' /\ RegLeave /\ mem'.leaving = None
            \/ /\ Unregister /\ reg' = mem' /\ RegGone /\ mem.entries = {mem.main, Step.at} /\ Step.at # mem.main
               /\ op.kind = "remove" /\ op.space = Step.at
            \/ /\ Register /\ reg' = mem' /\ RegNew /\ mem.entries = {mem.main} /\ Step.at = pending
               /\ pending # None
            \/ Opens /\ reg' = reg /\ RegOpen
            \/ /\ Errs
               /\ \/ Step.do = "Note" /\ RegNote /\ mem'.journal = Step.j /\ reg' \in {reg, mem'}
                  \/ Step.do = "Clear" /\ RegNote /\ mem'.journal = NoJournal /\ reg' \in {reg, mem'}
                  \/ Step.do = "EndHandover" /\ RegHand /\ mem'.handover = None /\ reg' \in {reg, mem'}
                  \/ /\ Step.do = "Swap" /\ RegHand /\ mem'.handover = None /\ (reg' = reg \/ TornSwap)
                     /\ Step.at \in mem.entries \ {mem.main} /\ mem.entries = {mem.main, Step.at}
                  \/ /\ Step.do = "Leave" /\ RegLeave /\ mem'.leaving = None /\ (reg' = reg \/ TornLeave)
                     /\ mem.leaving # Step.at
                  \/ /\ Step.do = "Unregister" /\ RegGone /\ mem.entries = {mem.main, Step.at} /\ Step.at # mem.main
                     /\ op.kind = "remove" /\ op.space = Step.at /\ reg' \in {reg, mem'}
                  \/ /\ Step.do = "Register" /\ UNCHANGED mem /\ TornNew /\ mem.entries = {mem.main} /\ Step.at = pending
                     /\ pending # None
            \/ Skips /\ Step.do = "Unleave" /\ RegLeave /\ mem'.leaving = None /\ reg' \in {reg, mem'}
<1>1. Shape /\ mem \in Registry /\ reg \in Registry /\ RegOK(mem) /\ RegOK(reg) BY Basics
<1>2. NoJournal \notin Journal /\ None \notin Space /\ mem.main \in Space BY SpacesAssumption, <1>1 DEF NoJournal, Journal, Registry
<1>3. CASE UNCHANGED <<mem, reg>> BY <1>1, <1>3
<1>4. CASE Note
  <2>1. mem' = [mem EXCEPT !.journal = Step.j] /\ reg' = mem' BY <1>4 DEF Note, Persist
  <2>2. Step.j \in Entry /\ {Step.j.from, Step.j.to} \subseteq mem.entries BY <1>1, <1>4, StepIs, NoteIs
  <2> QED BY <1>1, <1>4, <2>1, <2>2, JournalSet DEF RegNote
<1>5. CASE Clear
  <2>1. mem' = [mem EXCEPT !.journal = NoJournal] /\ reg' = mem' BY <1>5 DEF Clear, Persist
  <2> QED BY <1>1, <1>5, <2>1, JournalSet DEF RegNote
<1>6. CASE Swap
  <2>1. mem' = [mem EXCEPT !.main = Step.at, !.handover = mem.main] /\ reg' = mem' BY <1>6 DEF Swap, Swapped, Persist
  <2>2. Step.at \in mem.entries \ {mem.main} BY <1>1, <1>6, StepIs DEF StepOf, Inv, SwapOK
  <2> QED BY <1>1, <1>6, <2>1, <2>2, SwapSet, ZenonT(30) DEF RegSwap
<1>7. CASE EndHandover
  <2>1. mem' = [mem EXCEPT !.handover = None] /\ reg' = mem' BY <1>7 DEF EndHandover, Persist
  <2> QED BY <1>1, <1>2, <1>7, <2>1, HandoverSet DEF RegHand
<1>8. CASE Leave
  <2>1. CASE mem.leaving = Step.at
    <3>1. UNCHANGED <<mem, reg>> BY <1>8, <2>1 DEF Leave
    <3> QED BY <1>3, <3>1
  <2>2. CASE mem.leaving # Step.at
    <3>1. mem' = [mem EXCEPT !.leaving = Step.at] /\ reg' = mem' BY <1>8, <2>2 DEF Leave, Persist
    <3>2. Step.at \in Space BY <1>1, <1>8, StepIs, StepFields DEF StepOf, Placed
    <3> QED BY <1>1, <1>8, <2>2, <3>1, <3>2, LeavingSet DEF RegLeave
  <2> QED BY <2>1, <2>2
<1>9. CASE Unleave
  <2>1. mem' = [mem EXCEPT !.leaving = None] /\ reg' = mem' BY <1>9 DEF Unleave, Persist
  <2> QED BY <1>1, <1>9, <2>1, LeavingSet DEF RegLeave
<1>10. CASE Unregister
  <2>1. mem' = Removed(Step.at) /\ reg' = mem' BY <1>10 DEF Unregister, Persist
  <2> QED BY <1>1, <1>10, <2>1, StepIs, UnregisterIs DEF RegGone
<1>11. CASE Register
  <2>1. mem' = [mem EXCEPT !.entries = @ \cup {Step.at}] /\ reg' = mem' BY <1>11 DEF Register, Persist
  <2>2. Step \in Todo /\ Step.do = "Register" /\ Step \in StepSet BY <1>1, <1>11, StepIs DEF StepOf
  <2>3. Step.at \in Space BY <2>2, StepFields DEF Placed
  <2>4. Step.at = pending /\ mem.entries = {mem.main} BY <1>2, <2>2, <2>3 DEF Inv, Setup
  <2> QED BY <1>1, <1>2, <1>11, <2>1, <2>3, <2>4, RegisterSet DEF RegNew
<1>12. CASE Opens
  <2>1. mem' = [reg EXCEPT
               !.journal  = IF @ # NoJournal /\ @.from # @.to /\ {@.from, @.to} \subseteq reg.entries
                            THEN @ ELSE NoJournal,
               !.handover = IF @ # reg.main /\ @ \in reg.entries THEN @ ELSE None,
               !.leaving  = IF @ \in reg.entries THEN @ ELSE None]
        /\ UNCHANGED reg
    BY <1>12 DEF Opens, Open, Sweeps, Fail, FailSweep, Opened
  <2> QED BY <1>1, <1>12, <2>1, OpenSet DEF RegOpen
<1>13. CASE Errs
  <2>0. Step \in Todo /\ Step \in StepSet /\ todo # <<>> /\ Todo \subseteq StepSet BY <1>13, FailIs
  <2>1. CASE UNCHANGED <<mem, reg>> BY <1>3, <2>1
  <2>2. CASE Step.do = "Note" /\ mem' = [mem EXCEPT !.journal = Step.j] /\ reg' \in {reg, mem'}
    <3>1. StepOf("Note") BY <2>0, <2>2 DEF StepOf
    <3>2. Step.j \in Entry /\ {Step.j.from, Step.j.to} \subseteq mem.entries BY <3>1, NoteIs
    <3>3. mem' \in Registry /\ RegOK(mem') /\ RegNote /\ mem'.journal = Step.j BY <1>1, <2>2, <3>2, JournalSet DEF RegNote
    <3> QED BY <1>1, <1>13, <2>2, <3>3
  <2>3. CASE Step.do = "Clear" /\ mem' = [mem EXCEPT !.journal = NoJournal] /\ reg' \in {reg, mem'}
    <3>1. mem' \in Registry /\ RegOK(mem') /\ RegNote /\ mem'.journal = NoJournal BY <1>1, <2>3, JournalSet DEF RegNote
    <3> QED BY <1>1, <1>13, <2>3, <3>1
  <2>4. mem' = [mem EXCEPT !.handover = None] => mem' \in Registry /\ RegOK(mem') /\ RegHand /\ mem'.handover = None
    BY <1>1, <1>2, HandoverSet DEF RegHand
  <2>5. CASE Step.do = "EndHandover" /\ mem' = [mem EXCEPT !.handover = None] /\ reg' \in {reg, mem'}
    BY <1>1, <1>13, <2>4, <2>5
  <2>6. CASE Step.do = "Swap" /\ mem' = [mem EXCEPT !.handover = None] /\ reg' \in {reg, Swapped(Step.at)}
    <3>1. Step.at \in mem.entries \ {mem.main} BY <2>0, <2>6 DEF Inv, SwapOK
    <3> DEFINE n == [mem EXCEPT !.main = Step.at, !.handover = mem.main]
    <3>2. /\ n \in Registry /\ RegOK(n) /\ mem.entries = {mem.main, Step.at}
          /\ n.main = Step.at /\ n.entries = mem.entries /\ n.journal = mem.journal /\ n.handover = mem.main
          /\ n.leaving = mem.leaving
      BY <1>1, <3>1, SwapSet, Zenon
    <3>3. Swapped(Step.at) = n BY DEF Swapped
    <3> HIDE DEF n
    <3>4. /\ reg' \in Registry /\ RegOK(reg')
          /\ reg' = reg \/ TornSwap
      BY <1>1, <2>6, <3>2, <3>3 DEF TornSwap
    <3> QED BY <1>13, <2>4, <2>6, <3>1, <3>2, <3>4
  <2>7. CASE /\ Step.do = "Leave" /\ mem' = [mem EXCEPT !.leaving = None] /\ mem.leaving # Step.at
             /\ reg' \in {reg, [mem EXCEPT !.leaving = Step.at]}
    <3>1. Step.at \in Space BY <2>0, <2>7, StepFields DEF Placed
    <3>2. mem' \in Registry /\ RegOK(mem') /\ RegLeave /\ mem'.leaving = None BY <1>1, <2>7, LeavingSet DEF RegLeave
    <3>3. reg' = [mem EXCEPT !.leaving = Step.at] => reg' \in Registry /\ RegOK(reg') /\ TornLeave
      BY <1>1, <3>1, LeavingSet DEF TornLeave
    <3> QED BY <1>1, <1>13, <2>7, <3>2, <3>3
  <2>8. CASE Step.do = "Unregister" /\ mem' = Removed(Step.at) /\ reg' \in {reg, mem'}
    <3>1. StepOf("Unregister") BY <2>0, <2>8 DEF StepOf
    <3>2. /\ mem' \in Registry /\ RegOK(mem') /\ RegGone /\ mem.entries = {mem.main, Step.at} /\ Step.at # mem.main
          /\ op.kind = "remove" /\ op.space = Step.at
      BY <2>8, <3>1, UnregisterIs DEF RegGone
    <3> QED BY <1>1, <1>13, <2>8, <3>2
  <2>9. CASE Step.do = "Register" /\ UNCHANGED mem /\ reg' = [mem EXCEPT !.entries = @ \cup {Step.at}]
    <3>1. Step.at \in Space BY <2>0, <2>9, StepFields DEF Placed
    <3>2. Step.at = pending /\ mem.entries = {mem.main} BY <1>2, <2>0, <2>9, <3>1 DEF Inv, Setup
    <3>3. reg' \in Registry /\ RegOK(reg') /\ TornNew BY <1>1, <2>9, <3>1, <3>2, RegisterSet DEF TornNew
    <3> QED BY <1>1, <1>2, <1>13, <2>9, <3>1, <3>2, <3>3
  <2> QED BY <1>13, <2>1, <2>2, <2>3, <2>5, <2>6, <2>7, <2>8, <2>9, ErrIs
<1>14. CASE Skips /\ Step.do = "Unleave"
  <2>1. mem' = [mem EXCEPT !.leaving = None] /\ reg' \in {reg, mem'} BY <1>14, SkipIs
  <2>2. mem' \in Registry /\ RegOK(mem') /\ RegLeave /\ mem'.leaving = None BY <1>1, <2>1, LeavingSet DEF RegLeave
  <2> QED BY <1>1, <1>14, <2>1, <2>2
<1> QED BY <1>3, <1>4, <1>5, <1>6, <1>7, <1>8, <1>9, <1>10, <1>11, <1>12, <1>13, <1>14, RegFrame

\* A server has left the registry before its files go.
LEMMA GoneFirst ==
  ASSUME Inv, RemoveFiles
  PROVE  Step.at \notin reg.entries /\ Step.at # pending
<1>1. Shape /\ StepOf("RemoveFiles") BY StepIs DEF Inv
<1>2. op.kind = "remove" /\ Step.at = op.space /\ Removing BY <1>1, RemovalOf DEF StepOf
<1>3. ASSUME NEW x \in Todo, x.do = "Unregister" PROVE FALSE
  <2>1. Precedes("RemoveFiles", x.do) BY <1>1, <1>3, Behind DEF StepOf
  <2> QED BY <1>3, <2>1, Ranks DEF Precedes, Repeated
<1> QED BY <1>1, <1>2, <1>3 DEF Removing, StepOf, Within

\* What becomes of the files.
LEMMA FilesAre ==
  ASSUME Inv, Next
  PROVE  /\ mem.entries \subseteq files' /\ (spent.errors = 0 => reg.entries \subseteq files')
         /\ files' \subseteq Space /\ marker' \subseteq Space /\ pending' \in Space \cup {None}
         /\ \/ UNCHANGED <<files, marker, pending>>
            \/ /\ RemoveFiles /\ files' = files \ {Step.at} /\ UNCHANGED <<marker, pending>> /\ StepOf("RemoveFiles")
               /\ Step.at \notin reg.entries /\ Step.at # pending
            \/ Mark /\ marker' = marker \cup {Step.at} /\ UNCHANGED <<files, pending>> /\ StepOf("Mark")
            \/ /\ MakeFile /\ files' = files \cup {Step.at} /\ pending' = Step.at /\ UNCHANGED marker
               /\ StepOf("MakeFile")
            \/ Register /\ pending' = None /\ UNCHANGED <<files, marker>> /\ StepOf("Register")
            \/ Unmark /\ marker' = marker \ {Step.at} /\ UNCHANGED <<files, pending>> /\ StepOf("Unmark")
            \/ /\ Discard /\ files' = files \ {Step.at} /\ pending' = None /\ UNCHANGED marker /\ StepOf("Discard")
               /\ Step.at = pending /\ Step.at \notin mem.entries
            \/ /\ Opens /\ reg.entries \subseteq files' /\ UNCHANGED pending /\ StepOf("Open")
               /\ \A s \in Space : s \in files' => s \in files \/ s \in reg.entries
            \/ Crash /\ pending' = None /\ UNCHANGED <<files, marker>>
            \/ /\ Errs /\ StepOf("MakeFile") /\ files' \in {files, files \cup {Step.at}} /\ UNCHANGED <<marker, pending>>
            \/ /\ Skips /\ StepOf("Discard") /\ pending' = None /\ UNCHANGED <<files, marker>>
<1>1. /\ Shape /\ mem.entries \subseteq reg.entries /\ mem.entries \subseteq files /\ files \subseteq Space
      /\ spent.errors = 0 => reg.entries \subseteq files
      /\ marker \subseteq Space /\ pending \in Space \cup {None}
      /\ spent.errors = 0 => mem.entries = reg.entries
  BY DEF Inv, Registered, Types, TypeOK, Sealed
<1>2. CASE UNCHANGED <<files, marker, pending>> BY <1>1, <1>2
<1>3. CASE RemoveFiles
  <2>1. StepOf("RemoveFiles") BY <1>1, <1>3, StepIs
  <2>2. Step.at \notin reg.entries /\ Step.at # pending BY <1>3, GoneFirst
  <2>5. files' = files \ {Step.at} /\ UNCHANGED <<marker, pending>> BY <1>3 DEF RemoveFiles
  <2> QED BY <1>1, <1>3, <2>1, <2>2, <2>5
<1>4. CASE Mark \/ MakeFile \/ Register \/ Unmark
  <2>1. StepOf("Mark") \/ StepOf("MakeFile") \/ StepOf("Register") \/ StepOf("Unmark") BY <1>1, <1>4, StepIs
  <2>2. Step.at \in Space BY <2>1, StepFields DEF StepOf, Placed
  <2> QED BY <1>1, <1>4, <2>2, StepIs DEF Mark, MakeFile, Register, Unmark
<1>5. CASE Discard
  <2>1. StepOf("Discard") BY <1>1, <1>5, StepIs
  <2>2. Step.at \in Space BY <2>1, StepFields DEF StepOf, Placed
  <2>3. pending = Step.at BY <2>1 DEF StepOf, Inv, Setup
  <2>4. pending \notin mem.entries BY SpacesAssumption, <2>2, <2>3 DEF Inv, Setup
  <2>5. files' = files \ {Step.at} /\ pending' = None /\ UNCHANGED marker BY <1>5, OtherFrames DEF Discard
  <2> QED BY <1>1, <1>5, <2>1, <2>3, <2>4, <2>5
<1>6. CASE Opens
  <2>1. StepOf("Open") /\ UNCHANGED pending BY <1>1, <1>6, StepIs, OtherFrames
  <2>2. PICK W \in SUBSET Swept : files' = (files \cup reg.entries) \ W BY <1>6, OpenIs
  <2>3. W \cap reg.entries = {} BY DEF Swept
  <2>4. marker' \subseteq marker BY <1>6 DEF Opens, Open, Sweeps, Fail, FailSweep, Opened
  <2>5. reg.entries \subseteq Space BY Basics
  <2> QED BY <1>1, <1>6, <2>1, <2>2, <2>3, <2>4, <2>5
<1>7. CASE Crash BY <1>1, <1>7 DEF Crash, disk
<1>8. CASE Errs /\ Step.do = "MakeFile"
  <2>1. StepOf("MakeFile") BY <1>8, FailIs DEF StepOf
  <2>2. Step.at \in Space BY <2>1, StepFields DEF StepOf, Placed
  <2>3. files' \in {files, files \cup {Step.at}} /\ UNCHANGED marker BY <1>8, ErrIs DEF Dropped
  <2>4. UNCHANGED pending BY <1>8, OtherFrames
  <2> QED BY <1>1, <1>8, <2>1, <2>2, <2>3, <2>4
<1>9. CASE Skips /\ Step.do = "Discard" BY <1>1, <1>9, SkipIs
<1> QED BY <1>2, <1>3, <1>4, <1>5, <1>6, <1>7, <1>8, <1>9, FileFrame

\* Every step leaves memory and disk at one on the registry, or a write of it tore.
LEMMA RegisteredStep ==
  ASSUME Inv, Next
  PROVE  Registered' /\ mem' \in Registry /\ reg' \in Registry
<1>1. Shape /\ mem \in Registry /\ reg \in Registry /\ mem.main \in mem.entries /\ reg.main \in reg.entries BY Basics
<1>2. /\ mem.main # reg.main => mem.handover = None /\ spent.errors # 0
      /\ mem.entries \subseteq reg.entries /\ mem.entries \subseteq files
      /\ spent.errors = 0 => reg.entries \subseteq files
      /\ mem.leaving \in {None, reg.leaving}
  BY DEF Inv, Registered
<1>3. mem' \in Registry /\ RegOK(mem') /\ reg' \in Registry /\ RegOK(reg') BY RegIs
<1>4. mem.entries \subseteq files' /\ (spent.errors = 0 => reg.entries \subseteq files') BY FilesAre
<1>5. spent'.errors = 0 => spent.errors = 0 /\ ~Errs /\ ~Skips BY SpentIn
<1>6. CASE UNCHANGED <<mem, reg>> BY <1>2, <1>3, <1>4, <1>5, <1>6 DEF Registered
<1>7. CASE reg' = mem' /\ mem'.entries \subseteq mem.entries BY <1>3, <1>4, <1>7 DEF Registered
<1>8. CASE Register /\ RegNew /\ reg' = mem' /\ Step.at = pending /\ pending # None
  <2>1. pending \in files BY <1>8 DEF Inv, Setup
  <2>2. UNCHANGED files BY <1>8, OtherFrames
  <2> QED BY <1>1, <1>2, <1>3, <1>8, <2>1, <2>2 DEF Registered, RegNew
<1>9. CASE /\ reg' = reg /\ mem'.main = mem.main /\ mem'.entries \subseteq mem.entries /\ mem'.leaving \in {None, mem.leaving}
           /\ mem'.handover \in {None, mem.handover}
  BY <1>2, <1>3, <1>4, <1>5, <1>9 DEF Registered
<1>10. CASE Opens /\ reg' = reg /\ RegOpen
  <2>1. reg.entries \subseteq files'
    <3>1. PICK W \in SUBSET Swept : files' = (files \cup reg.entries) \ W BY <1>10, OpenIs
    <3> QED BY <3>1 DEF Swept
  <2> QED BY <1>3, <1>10, <2>1 DEF Registered, RegOpen
<1>11. CASE Errs /\ RegHand /\ mem'.handover = None /\ TornSwap
  BY <1>2, <1>3, <1>4, <1>5, <1>11 DEF Registered, RegHand, TornSwap
<1>12. CASE Errs /\ RegLeave /\ mem'.leaving = None /\ TornLeave
  BY <1>2, <1>3, <1>4, <1>5, <1>12 DEF Registered, RegLeave, TornLeave
<1>13. CASE Errs /\ UNCHANGED mem /\ TornNew /\ mem.entries = {mem.main}
  BY <1>2, <1>3, <1>4, <1>5, <1>13 DEF Registered, TornNew
<1>14. mem'.leaving = (IF mem.leaving = Step.at THEN None ELSE mem.leaving) => mem'.leaving \in {None, mem.leaving} OBVIOUS
<1> QED
  BY <1>1, <1>6, <1>7, <1>8, <1>9, <1>10, <1>11, <1>12, <1>13, <1>14, RegIs DEF RegNote, RegHand, RegLeave, RegGone, RegSwap

\* What can be open, what the main password has opened, and what rechain has read.
LEMMA OpenIn ==
  ASSUME Inv, Next
  PROVE  open' \subseteq Space /\ chained' \subseteq Space /\ stale' \subseteq Space
<1>1. /\ Shape /\ mem.entries \subseteq Space /\ mem.main \in Space
      /\ open \subseteq Space /\ chained \subseteq Space /\ stale \subseteq Space
  BY Basics DEF Inv, Types, TypeOK
<1>2. CASE UNCHANGED <<open, chained, stale>> BY <1>1, <1>2
<1>3. CASE Unregister \/ Discard BY <1>1, <1>3, RemoveFrames, OtherFrames DEF Unregister, Discard
<1>4. CASE Done BY <1>1, <1>4, RemoveFrames DEF Done
<1>5. CASE MakeFile
  <2>1. Step.at \in Space BY <1>1, <1>5, StepIs, StepFields DEF StepOf, Placed
  <2> QED BY <1>1, <1>5, <2>1, OtherFrames DEF MakeFile
<1>6. CASE Unlock BY <1>1, <1>6, OtherFrames DEF Unlock
<1>7. CASE Lock BY <1>1, <1>7, OtherFrames DEF Lock
<1>8. CASE Crash BY <1>1, <1>8, OtherFrames DEF Crash
<1>9. CASE \E s \in Space : UnlockSpace(s) BY <1>1, <1>9, OtherFrames DEF UnlockSpace
<1>10. CASE Swap
  <2>1. UNCHANGED open BY <1>10, MoveFrames
  <2> QED BY <1>1, <1>10, <2>1 DEF Swap
<1>11. CASE Skips /\ Step.do = "Discard" BY <1>1, <1>11, SkipIs, OtherFrames
<1>12. CASE \E m, s \in Space : RechainUnlock(m, s)
  <2>1. UNCHANGED <<chained, stale>> BY <1>12, OtherFrames DEF Rechaining
  <2> QED BY <1>1, <1>12, <2>1 DEF RechainUnlock
<1>13. CASE \E m \in Space : RechainEnds(m)
  <2>1. UNCHANGED <<open, chained>> BY <1>13, OtherFrames
  <2> QED BY <1>1, <1>13, <2>1 DEF RechainEnds
<1> QED BY <1>2, <1>3, <1>4, <1>5, <1>6, <1>7, <1>8, <1>9, <1>10, <1>11, <1>12, <1>13, ChainFrame

\* What is held, gone and running are servers.
LEMMA FlagsIn ==
  ASSUME Inv, Next
  PROVE  held' \subseteq Space /\ gone' \subseteq Space /\ running' \in [Space -> {"no", "pass", "going", "op"}]
<1>1. /\ Shape /\ held \subseteq Space /\ gone \subseteq Space /\ running \in [Space -> {"no", "pass", "going", "op"}]
      /\ mem.leaving \in Space \cup {None}
      /\ op \in [kind : Kinds, space : Space \cup {None}, taking : BOOLEAN, moved : BOOLEAN]
  BY Basics DEF Inv, Types, TypeOK, Registry
<1>2. CASE UNCHANGED <<held, gone, running>> BY <1>1, <1>2
<1>3. CASE Hold \/ TakeRunning \/ Retire
  <2>1. Step.at \in Space BY <1>1, <1>3, StepIs, StepFields DEF StepOf, Placed
  <2> QED BY <1>1, <1>3, <2>1, RemoveFrames DEF Hold, TakeRunning, Retire
<1>4. CASE Failed \/ Done
  <2>1. running' = Released BY <1>4 DEF Failed, Done
  <2>2. running' \in [Space -> {"no", "pass", "going", "op"}] BY <1>1, <2>1 DEF Released
  <2>3. Done => UNCHANGED held BY RemoveFrames
  <2>4. Failed => held' \subseteq Space
    <3>1. Failed /\ op.kind = "remove" => op.space \in Space BY <1>1, StepIs DEF StepOf, Inv, KindOK
    <3> QED BY <1>1, <3>1 DEF Failed
  <2> QED BY <1>1, <1>4, <2>2, <2>3, <2>4, RemoveFrames
<1>5. CASE Ready BY <1>1, <1>5, OtherFrames DEF Ready, HeldAtStart
<1>6. CASE Crash BY <1>1, <1>6 DEF Crash
<1>7. CASE \E s \in Space : PassBegin(s) \/ PassCheck(s) \/ PassEnd(s)
  BY <1>1, <1>7, OtherFrames DEF PassBegin, PassCheck, PassEnd
<1> QED BY <1>2, <1>3, <1>4, <1>5, <1>6, <1>7, FlagFrame

\* What the specification remembers of the past is about servers and hosts.
LEMMA GhostIn ==
  ASSUME Inv, Next
  PROVE  unnoted' \subseteq Space /\ wiped' \cup left' \subseteq Space \X Id
<1>1. /\ Shape /\ unnoted \subseteq Space /\ wiped \cup left \subseteq Space \X Id /\ mem.leaving \in Space \cup {None}
  BY Basics DEF Inv, Types, TypeOK, Registry
<1>2. CASE UNCHANGED <<left, wiped, unnoted>> BY <1>1, <1>2
<1>3. CASE Drop
  <2>1. Step.at \in Space /\ Step.id \in Id BY <1>3, DropIs
  <2>2. left' \in {left, left \cup {<<Step.at, Step.id>>}} BY <1>3 DEF Drop
  <2> QED BY <1>1, <1>3, <2>1, <2>2, MoveFrames
<1>4. CASE Leave BY <1>1, <1>4, RemoveFrames DEF Leave
<1>5. CASE RemoveFiles BY <1>1, <1>5, RemoveFrames DEF RemoveFiles
<1>6. CASE Unleave
  <2>1. \A e \in left : e[1] \in Space BY <1>1
  <2> QED BY <1>1, <1>6, <2>1, RemoveFrames DEF Unleave
<1>7. CASE \E s \in Space : PassEnd(s) BY <1>1, <1>7, OtherFrames DEF PassEnd
<1>8. CASE Opens
  <2>1. left' \subseteq left BY <1>8, OpenIs
  <2> QED BY <1>1, <1>8, <2>1, OtherFrames
<1>9. CASE Errs /\ Step.do = "Leave"
  <2>1. UNCHANGED <<wiped, left>> BY <1>9, ErrIs, OtherFrames
  <2>2. unnoted' = unnoted \cup ({mem.leaving} \ {None})
    BY <1>9 DEF Errs, Fail, FailWrite, FailPersist, FailMake, FailDiscard, FailSweep, Doing, Step
  <2> QED BY <1>1, <2>1, <2>2
<1>10. CASE Skips /\ Step.do = "Unleave"
  <2>1. UNCHANGED <<wiped, left>> BY <1>10, SkipIs, OtherFrames
  <2>2. \A e \in left : e[1] \in Space BY <1>1
  <2> QED BY <1>1, <1>10, <2>1, <2>2, SkipIs
<1> QED BY <1>2, <1>3, <1>4, <1>5, <1>6, <1>7, <1>8, <1>9, <1>10, GhostFrame

\* Every step keeps the types.
LEMMA TypesStep ==
  ASSUME Inv, Next
  PROVE  Types'
<1>1. mem' \in Registry /\ reg' \in Registry BY RegisteredStep
<1>2. files' \subseteq Space /\ marker' \subseteq Space /\ pending' \in Space \cup {None} BY FilesAre
<1>3. /\ store' \in [Space -> StoreSet] /\ now' \in Nat \ {0} /\ \A s \in Space : store'[s].doc.at < now'
  BY RowsFrame DEF StoresOK
<1>4. \A s \in Space :
       /\ store'[s].host \in [Id -> State] /\ store'[s].uses \in [Id -> {0} \cup Gen]
       /\ store'[s].key \in [Gen -> State] /\ store'[s].known \in BOOLEAN
       /\ store'[s].doc \in [val : 0 .. MaxOps, at : Nat]
       /\ store'[s].kept \in Seal /\ store'[s].staged \in Seal \cup {"nothing", "forget"}
  BY <1>3, StoreFields
<1>5. up' \in BOOLEAN
  <2>1. up \in BOOLEAN BY DEF Inv, Types, TypeOK
  <2>2. Crash => up' = FALSE BY DEF Crash
  <2>3. Ready => up' = TRUE BY DEF Ready
  <2>4. Asking => up' = up BY OtherFrames DEF Asking
  <2>5. (Failed \/ Done \/ Leave \/ Moved \/ HandOn) => up' = up BY RemoveFrames
  <2> QED BY <2>1, <2>2, <2>3, <2>4, <2>5, OpFrame
<1>6. open' \subseteq Space /\ chained' \subseteq Space /\ stale' \subseteq Space BY OpenIn
<1>7. held' \subseteq Space /\ gone' \subseteq Space /\ running' \in [Space -> {"no", "pass", "going", "op"}]
  BY FlagsIn
<1>8. unnoted' \subseteq Space /\ wiped' \cup left' \subseteq Space \X Id BY GhostIn
<1>9. spent' \in [ops : Nat, crashes : Nat, errors : Nat] BY SpentIn
<1>10. op' \in [kind : Kinds, space : Space \cup {None}, taking : BOOLEAN, moved : BOOLEAN] BY OpType
<1> QED BY <1>1, <1>2, <1>3, <1>4, <1>5, <1>6, <1>7, <1>8, <1>9, <1>10 DEF Types, TypeOK

\* What happens next to the operation.
LEMMA AsideIs ==
  ASSUME Inv, Aside
  PROVE  /\ UNCHANGED <<todo, op, up>> /\ Todo' = Todo /\ (\A names : Within(names)' = Within(names))
         /\ (\A name, s : Coming(name, s)' = Coming(name, s)) /\ (\A names : AtFirst(names)' = AtFirst(names))
         /\ UNCHANGED <<reg, mem, files, marker, pending, left, unnoted>>
<1>1. UNCHANGED <<todo, op, up>> BY TodoFrame DEF Aside
<1>2. Todo' = Todo BY <1>1 DEF Todo, Elems
<1>3. UNCHANGED <<reg, mem, files, marker, pending, left, unnoted>> BY OtherFrames DEF Aside
<1> QED BY <1>1, <1>2, <1>3 DEF Within, Coming, AtFirst, Step


\* What is done when the next step is taken.
Acts ==
  /\ todo # <<>> /\ Step \in Todo /\ Todo \subseteq StepSet
  /\ Step.do = "Recover" => Recover
  /\ Step.do = "Begin" => Begin
  /\ Step.do = "Note" => Note
  /\ Step.do = "Import" => Import
  /\ Step.do = "Clear" => Clear
  /\ Step.do = "Personal" => Personal
  /\ Step.do = "StageMain" => StageMain
  /\ Step.do = "Stage" => StageOther
  /\ Step.do = "Unstage" => Unstage \/ Skips
  /\ Step.do = "Swap" => Swap
  /\ Step.do = "Settle" => Settle
  /\ Step.do = "EndHandover" => EndHandover
  /\ Step.do = "Hold" => Hold
  /\ Step.do = "TakeRunning" => TakeRunning \/ TakeTimesOut
  /\ Step.do = "Leave" => Leave
  /\ Step.do = "TakeHosts" => TakeHosts
  /\ Step.do = "Moved" => Moved
  /\ Step.do = "TakeKeys" => TakeKeys
  /\ Step.do = "HandOn" => HandOn
  /\ Step.do = "Unregister" => Unregister
  /\ Step.do = "RemoveFiles" => RemoveFiles \/ Skips
  /\ Step.do = "Retire" => Retire
  /\ Step.do = "Unleave" => Unleave \/ Skips
  /\ Step.do = "Failed" => Failed
  /\ Step.do = "Done" => Done
  /\ Step.do = "Mark" => Mark
  /\ Step.do = "MakeFile" => MakeFile
  /\ Step.do = "Register" => Register
  /\ Step.do = "Unmark" => Unmark \/ Skips
  /\ Step.do = "Reseal" => Reseal \/ Skips
  /\ Step.do = "Discard" => Discard \/ Skips
  /\ Step.do = "Open" => Opens
  /\ Step.do = "Ready" => Ready
  /\ Step.do \in Dropped => Drop
  /\ Step.do \in {"Promote", "ClearDoc"} => SettleStep

\* The next step says what is done.
LEMMA ActionOf ==
  ASSUME Inv, Next, ~Aside
  PROVE  \/ Asking /\ todo = <<>> /\ Todo = {}
         \/ Crash \/ Errs
         \/ Acts
<1>1. Shape BY DEF Inv
<1>2. CASE Asking
  <2>1. todo = <<>> BY <1>2, AskIs
  <2> QED BY <1>2, <2>1 DEF Todo, Elems
<1>3. CASE Recover
  <2>1. StepOf("Recover") BY <1>1, <1>3, StepIs
  <2> QED BY <1>3, <2>1 DEF StepOf, Dropped, Acts
<1>4. CASE Begin
  <2>1. StepOf("Begin") BY <1>1, <1>4, StepIs
  <2> QED BY <1>4, <2>1 DEF StepOf, Dropped, Acts
<1>5. CASE Note
  <2>1. StepOf("Note") BY <1>1, <1>5, StepIs
  <2> QED BY <1>5, <2>1 DEF StepOf, Dropped, Acts
<1>6. CASE Import
  <2>1. StepOf("Import") BY <1>1, <1>6, StepIs
  <2> QED BY <1>6, <2>1 DEF StepOf, Dropped, Acts
<1>7. CASE Clear
  <2>1. StepOf("Clear") BY <1>1, <1>7, StepIs
  <2> QED BY <1>7, <2>1 DEF StepOf, Dropped, Acts
<1>8. CASE Personal
  <2>1. StepOf("Personal") BY <1>1, <1>8, StepIs
  <2> QED BY <1>8, <2>1 DEF StepOf, Dropped, Acts
<1>9. CASE StageMain
  <2>1. StepOf("StageMain") BY <1>1, <1>9, StepIs
  <2> QED BY <1>9, <2>1 DEF StepOf, Dropped, Acts
<1>10. CASE StageOther
  <2>1. StepOf("Stage") BY <1>1, <1>10, StepIs
  <2> QED BY <1>10, <2>1 DEF StepOf, Dropped, Acts
<1>11. CASE Unstage
  <2>1. StepOf("Unstage") BY <1>1, <1>11, StepIs
  <2> QED BY <1>11, <2>1 DEF StepOf, Dropped, Acts
<1>12. CASE Swap
  <2>1. StepOf("Swap") BY <1>1, <1>12, StepIs
  <2> QED BY <1>12, <2>1 DEF StepOf, Dropped, Acts
<1>13. CASE Settle
  <2>1. StepOf("Settle") BY <1>1, <1>13, StepIs
  <2> QED BY <1>13, <2>1 DEF StepOf, Dropped, Acts
<1>14. CASE EndHandover
  <2>1. StepOf("EndHandover") BY <1>1, <1>14, StepIs
  <2> QED BY <1>14, <2>1 DEF StepOf, Dropped, Acts
<1>15. CASE Hold
  <2>1. StepOf("Hold") BY <1>1, <1>15, StepIs
  <2> QED BY <1>15, <2>1 DEF StepOf, Dropped, Acts
<1>16. CASE TakeRunning
  <2>1. StepOf("TakeRunning") BY <1>1, <1>16, StepIs
  <2> QED BY <1>16, <2>1 DEF StepOf, Dropped, Acts
<1>17. CASE TakeTimesOut
  <2>1. StepOf("TakeRunning") BY <1>1, <1>17, StepIs
  <2> QED BY <1>17, <2>1 DEF StepOf, Dropped, Acts
<1>18. CASE Leave
  <2>1. StepOf("Leave") BY <1>1, <1>18, StepIs
  <2> QED BY <1>18, <2>1 DEF StepOf, Dropped, Acts
<1>19. CASE TakeHosts
  <2>1. StepOf("TakeHosts") BY <1>1, <1>19, StepIs
  <2> QED BY <1>19, <2>1 DEF StepOf, Dropped, Acts
<1>20. CASE Moved
  <2>1. StepOf("Moved") BY <1>1, <1>20, StepIs
  <2> QED BY <1>20, <2>1 DEF StepOf, Dropped, Acts
<1>21. CASE TakeKeys
  <2>1. StepOf("TakeKeys") BY <1>1, <1>21, StepIs
  <2> QED BY <1>21, <2>1 DEF StepOf, Dropped, Acts
<1>22. CASE HandOn
  <2>1. StepOf("HandOn") BY <1>1, <1>22, StepIs
  <2> QED BY <1>22, <2>1 DEF StepOf, Dropped, Acts
<1>23. CASE Unregister
  <2>1. StepOf("Unregister") BY <1>1, <1>23, StepIs
  <2> QED BY <1>23, <2>1 DEF StepOf, Dropped, Acts
<1>24. CASE RemoveFiles
  <2>1. StepOf("RemoveFiles") BY <1>1, <1>24, StepIs
  <2> QED BY <1>24, <2>1 DEF StepOf, Dropped, Acts
<1>25. CASE Retire
  <2>1. StepOf("Retire") BY <1>1, <1>25, StepIs
  <2> QED BY <1>25, <2>1 DEF StepOf, Dropped, Acts
<1>26. CASE Unleave
  <2>1. StepOf("Unleave") BY <1>1, <1>26, StepIs
  <2> QED BY <1>26, <2>1 DEF StepOf, Dropped, Acts
<1>27. CASE Failed
  <2>1. StepOf("Failed") BY <1>1, <1>27, StepIs
  <2> QED BY <1>27, <2>1 DEF StepOf, Dropped, Acts
<1>28. CASE Done
  <2>1. StepOf("Done") BY <1>1, <1>28, StepIs
  <2> QED BY <1>28, <2>1 DEF StepOf, Dropped, Acts
<1>29. CASE Mark
  <2>1. StepOf("Mark") BY <1>1, <1>29, StepIs
  <2> QED BY <1>29, <2>1 DEF StepOf, Dropped, Acts
<1>30. CASE MakeFile
  <2>1. StepOf("MakeFile") BY <1>1, <1>30, StepIs
  <2> QED BY <1>30, <2>1 DEF StepOf, Dropped, Acts
<1>31. CASE Register
  <2>1. StepOf("Register") BY <1>1, <1>31, StepIs
  <2> QED BY <1>31, <2>1 DEF StepOf, Dropped, Acts
<1>32. CASE Unmark
  <2>1. StepOf("Unmark") BY <1>1, <1>32, StepIs
  <2> QED BY <1>32, <2>1 DEF StepOf, Dropped, Acts
<1>33. CASE Reseal
  <2>1. StepOf("Reseal") BY <1>1, <1>33, StepIs
  <2> QED BY <1>33, <2>1 DEF StepOf, Dropped, Acts
<1>34. CASE Discard
  <2>1. StepOf("Discard") BY <1>1, <1>34, StepIs
  <2> QED BY <1>34, <2>1 DEF StepOf, Dropped, Acts
<1>35. CASE Opens
  <2>1. StepOf("Open") BY <1>1, <1>35, StepIs
  <2> QED BY <1>35, <2>1 DEF StepOf, Dropped, Acts
<1>36. CASE Ready
  <2>1. StepOf("Ready") BY <1>1, <1>36, StepIs
  <2> QED BY <1>36, <2>1 DEF StepOf, Dropped, Acts
<1>37. CASE Drop
  <2>1. \E a \in Dropped : StepOf(a) BY <1>1, <1>37, StepIs
  <2> QED BY <1>37, <2>1 DEF StepOf, Dropped, Acts
<1>38. CASE SettleStep
  <2>1. \E a \in {"Promote", "ClearDoc"} : StepOf(a) BY <1>1, <1>38, StepIs
  <2> QED BY <1>38, <2>1 DEF StepOf, Dropped, Acts
<1>39. CASE Skips
  <2>1. StepOf(Step.do) /\ Step.do \in Skipped BY <1>39, SkipIs
  <2> QED BY <1>39, <2>1 DEF StepOf, Dropped, Skipped, Acts
<1> QED
  BY <1>2, <1>3, <1>4, <1>5, <1>6, <1>7, <1>8, <1>9, <1>10, <1>11, <1>12, <1>13, <1>14,
     <1>15, <1>16, <1>17, <1>18, <1>19, <1>20, <1>21, <1>22, <1>23, <1>24, <1>25, <1>26,
     <1>27, <1>28, <1>29, <1>30, <1>31, <1>32, <1>33, <1>34, <1>35, <1>36, <1>37, <1>38, <1>39, NextCases DEF Aside

------------------------------------------------------------------------------
(* The cases of a step                                                      *)

\* Either the list is left alone, or it begins or is thrown away, or its next step
\* is taken.
LEMMA Cases ==
  ASSUME Inv, Next
  PROVE  \/ Aside
         \/ Asking /\ todo = <<>> /\ Todo = {}
         \/ Crash /\ Todo' = {Do("Open")} /\ todo' # <<>> /\ Step' = Do("Open")
         \/ GivesUp
         \/ Falls
         \/ Failed /\ Acts /\ todo' = <<>> /\ Todo' = {}
         \/ Goes /\ Acts /\ ~Crash /\ ~Errs /\ ~Asking
<1>1. CASE Asking
  <2>1. todo = <<>> BY <1>1, AskIs
  <2> QED BY <1>1, <2>1 DEF Todo, Elems
<1>2. CASE Crash
  <2>1. todo' = <<Do("Open")>> BY <1>2 DEF Crash
  <2> QED BY <1>2, <2>1, CrashList DEF Fresh
<1>3. CASE Errs
  <2>1. UNCHANGED <<op, up, store>> BY <1>3, ErrIs
  <2>2. Shape' /\ up /\ todo # <<>> /\ Step \in Todo BY <1>3, FailIs
  <2>3. CASE Breaks
    <3>1. Fallen(FrontOf(Step.do)) /\ (Step.do = "Import" => Step'.do = "Clear") BY <2>3, FallsIs DEF Breaks
    <3> QED BY <1>3, <2>1, <2>2, <3>1 DEF Falls
  <2>4. CASE /\ Step.do = "Register" /\ UNCHANGED mem /\ Step.at \in Space
             /\ Fresh({DoIn("Discard", Step.at), DoIn("Unmark", Step.at), Do("Failed")}, DoIn("Discard", Step.at))
    BY <1>3, <2>1, <2>2, <2>4 DEF GivesUp
  <2> QED BY <1>3, <2>3, <2>4, FailIs DEF Breaks, Dropped
<1>4. CASE ~Aside /\ ~Asking /\ ~Crash /\ ~Errs
  <2>1. Acts BY <1>4, ActionOf
  <2>2. ~GivesUp BY <1>4 DEF GivesUp
  <2> QED BY <1>4, <2>1, <2>2, TodoIs
<1> QED BY <1>1, <1>2, <1>3, <1>4

\* What the order of steps says of some of them.
LEMMA RankOrder ==
  ASSUME NEW a \in Names, NEW b \in Names, Precedes(a, b)
  PROVE  /\ b \notin {"Open", "Register", "Discard", "Note", "Mark"}
         /\ b = "Import" => a = "Note"
         /\ Rank(b) \in 7 .. 10 => Rank(a) \in 5 .. 10
         /\ Rank(b) \in 20 .. 23 => Rank(a) >= 20
         /\ Rank(b) \in 27 .. 31 => a = "TakeRunning" \/ Rank(a) \in 27 .. 31
         /\ Rank(a) \in 1 .. 39 /\ Rank(b) \in 1 .. 39
         /\ Rank(a) <= Rank(b) \/ (a = "Settle" /\ b = "Recover")
         /\ Rank(a) = Rank(b) => a \in Repeated
<1>1. Rank(a) \in 1 .. 39 /\ Rank(b) \in 1 .. 39 BY RankNat
<1>2. Rank("Settle") = 31 /\ Rank("Recover") = 24 BY Ranks
<1> QED BY <1>1, <1>2 DEF Precedes

\* What may be behind a step, by its name.
LEMMA Before ==
  ASSUME NEW a \in Names, NEW b \in Names, Precedes(a, b)
  PROVE  /\ b \notin {"Open", "Register", "Discard", "Note", "Mark"}
         /\ b = "Import" => a = "Note"
         /\ b \in {"DropHost", "DropKey", "DropKnown", "Clear"} =>
              a \in {"Note", "Import", "DropHost", "DropKey", "DropKnown", "Clear"}
         /\ b \in {"Personal", "StageMain", "Stage", "Swap", "Settle"} =>
              a \in {"TakeRunning", "Personal", "StageMain", "Stage", "Swap"}
         /\ b \in {"Hold", "TakeRunning", "Leave", "TakeHosts"} => a \in {"Hold", "TakeRunning", "Leave"}
         /\ b \in {"Hold", "Leave", "TakeHosts"} => a # b
         /\ b = "Hold" => FALSE
         /\ b = "Leave" => a \in {"Hold", "TakeRunning"}
         /\ b = "TakeRunning" => a \in {"Hold", "TakeRunning"}
         /\ a = b => a \in Repeated
<1> DEFINE P == \/ a \in Plain \/ a \in Placed \/ a \in Dropped \/ a \in {"Begin", "Note", "Import", "Stage"}
<1>1. P BY DEF Names
<1>2. /\ b \notin {"Open", "Register", "Discard", "Note", "Mark"}
      /\ b = "Import" => a = "Note"
      /\ a = b => a \in Repeated
      /\ Rank(b) \in 7 .. 10 => Rank(a) \in 5 .. 10
      /\ Rank(b) \in 20 .. 23 => Rank(a) >= 20
      /\ Rank(b) \in 27 .. 31 => a = "TakeRunning" \/ Rank(a) \in 27 .. 31
      /\ Rank(a) <= Rank(b) \/ (a = "Settle" /\ b = "Recover")
      /\ Rank(a) = Rank(b) => a \in Repeated
      /\ Rank(a) \in 1 .. 39 /\ Rank(b) \in 1 .. 39
  BY RankOrder
<1>3. /\ Rank(a) \in 5 .. 10 => a \in {"Note", "Import", "DropHost", "DropKey", "DropKnown", "Clear"}
      /\ Rank(a) \in 27 .. 31 => a \in {"Personal", "StageMain", "Stage", "Swap", "Settle"}
      /\ Rank(a) \in 20 .. 23 => a \in {"Hold", "TakeRunning", "Leave", "TakeHosts"}
      /\ Rank(a) = 20 => a = "Hold"
      /\ Rank(a) \in 20 .. 21 => a \in {"Hold", "TakeRunning"}
      /\ Rank(a) \in 20 .. 22 => a \in {"Hold", "TakeRunning", "Leave"}
  <2>1. CASE a \in Plain BY <2>1, Ranks DEF Plain
  <2>2. CASE a \in Placed BY <2>2, Ranks DEF Placed
  <2>3. CASE a \in Dropped BY <2>3, Ranks DEF Dropped
  <2>4. CASE a \in {"Begin", "Note", "Import", "Stage"} BY <2>4, Ranks
  <2> QED BY <1>1, <2>1, <2>2, <2>3, <2>4
<1>4. /\ Rank("DropHost") = 7 /\ Rank("DropKey") = 8 /\ Rank("DropKnown") = 9 /\ Rank("Clear") = 10
      /\ Rank("Hold") = 20 /\ Rank("TakeRunning") = 21 /\ Rank("Leave") = 22 /\ Rank("TakeHosts") = 23
      /\ Rank("Personal") = 27 /\ Rank("StageMain") = 28 /\ Rank("Stage") = 29 /\ Rank("Swap") = 30
      /\ Rank("Settle") = 31 /\ Rank("Recover") = 24
  BY Ranks
<1>5. Repeated = {"Promote", "Unstage", "TakeRunning", "Recover", "Begin", "Moved"} BY DEF Repeated
<1> HIDE DEF P
<1>6. /\ b \in {"DropHost", "DropKey", "DropKnown", "Clear"} => Rank(b) \in 7 .. 10
      /\ b \in {"Personal", "StageMain", "Stage", "Swap", "Settle"} => Rank(b) \in 27 .. 31
      /\ b \in {"Hold", "TakeRunning", "Leave", "TakeHosts"} => Rank(b) \in 20 .. 23
  BY <1>4
<1>7. b \in {"Personal", "StageMain", "Stage", "Swap", "Settle"} =>
        a \in {"TakeRunning", "Personal", "StageMain", "Stage", "Swap"}
  BY <1>2, <1>3, <1>4, <1>5, <1>6
<1>8. /\ b \in {"Hold", "TakeRunning", "Leave", "TakeHosts"} => a \in {"Hold", "TakeRunning", "Leave"}
      /\ b \in {"Hold", "Leave", "TakeHosts"} => a # b
      /\ b = "Hold" => FALSE
      /\ b = "Leave" => a \in {"Hold", "TakeRunning"}
      /\ b = "TakeRunning" => a \in {"Hold", "TakeRunning"}
  BY <1>2, <1>3, <1>4, <1>5, <1>6
<1> QED BY <1>2, <1>3, <1>6, <1>7, <1>8

\* A step that was in the list before comes after the one that was taken.
LEMMA OldIs ==
  ASSUME Shape, todo # <<>>, Step \in Todo, Todo \subseteq StepSet, NEW y, Old(y)
  PROVE  y \in Todo /\ y \in StepSet /\ y.do \in Names /\ Step.do \in Names /\ Precedes(Step.do, y.do)
BY StepFields DEF Old

\* The step that comes second.
LEMMA Second ==
  ASSUME Shape, NEW a, StepOf(a), a \notin Ending
  PROVE  \E z \in Todo : /\ z \in StepSet /\ Follows(Step, z) /\ Precedes(a, z.do)
                         /\ \A y \in Todo : y = Step \/ y = z \/ Precedes(z.do, y.do)
<1> DEFINE T == Tail(todo)
<1>1. /\ todo[1] = Step /\ Elems(T) \subseteq Todo /\ \A y \in Todo : y = Step \/ y \in Elems(T)
      /\ T # <<>> => Follows(Step, T[1]) /\ T[1] \in Elems(T)
      /\ \A y \in Elems(T) : y = T[1] \/ Precedes(T[1].do, y.do)
      /\ \A y \in Elems(T) : Precedes(Step.do, y.do)
      /\ T = <<>> => Step.do \in Ending
  BY Pop DEF Shape, Todo, Step, StepOf
<1> HIDE DEF T
<1> QED BY <1>1 DEF StepOf

\* The steps that set a server up, or take it back, are about one server.
LEMMA OneServer ==
  ASSUME Inv, NEW x \in Todo
  PROVE  /\ StepOf("Mark") /\ x.do = "MakeFile" => x.at = Step.at
         /\ StepOf("Register") \/ StepOf("Discard") => (x.do = "Unmark" => x.at = Step.at)
<1>1. Shape BY DEF Inv
<1>2. ASSUME NEW a \in {"Mark", "Register", "Discard"}, StepOf(a), x # Step
      PROVE  \E z \in Todo : /\ Follows(Step, z) /\ z.do \in Names
                             /\ x = z \/ Precedes(z.do, x.do)
  <2>1. a \notin Ending BY DEF Ending
  <2> QED BY <1>1, <1>2, <2>1, Second, StepFields
<1>3. x.do \in Names BY <1>1, StepFields DEF Shape, ShapeOf, Todo, Elems
<1>4. ~Precedes("MakeFile", "MakeFile") /\ ~Precedes("Unmark", "Unmark")
  BY Before DEF Repeated, Names, Placed
<1> QED BY <1>2, <1>3, <1>4 DEF Follows, StepOf

\* What the user may ask for.
MoveAsked(i, s, to) ==
  /\ s # to /\ Live(s, i) /\ UNCHANGED deleted
  /\ op' = [kind |-> "move", space |-> to, taking |-> FALSE, moved |-> FALSE]
  /\ Fresh({Do("Recover"), BeginStep(i, s, to), Do("Done")}, Do("Recover"))

MainAsked(s) ==
  /\ {mem.main, s} \subseteq open /\ UNCHANGED deleted
  /\ op' = [kind |-> "main", space |-> s, taking |-> FALSE, moved |-> FALSE]
  /\ Fresh({DoIn("TakeRunning", mem.main), DoIn("TakeRunning", s), Do("Done")} \cup SwapSteps(s),
           DoIn("TakeRunning", mem.main))

RemoveAsked(s, keep) ==
  /\ mem.entries # {s} /\ (keep \/ mem.main = s => mem.entries \subseteq open)
  /\ deleted' = IF keep THEN deleted ELSE deleted \cup {i[1] : i \in {k \in Id : Live(s, k)}}
  /\ op' = [kind |-> "remove", space |-> s, taking |-> FALSE, moved |-> FALSE]
  /\ Fresh(RemoveSteps(s, keep), DoIn("Hold", s))

AddAsked(s) ==
  /\ pending = None /\ mem.entries = {mem.main} /\ UNCHANGED deleted
  /\ op' = [kind |-> "add", space |-> s, taking |-> FALSE, moved |-> FALSE]
  /\ Fresh({DoIn("Mark", s), DoIn("MakeFile", s), Do("Done")}, DoIn("Mark", s))

AdoptAsked ==
  /\ pending \in Space /\ UNCHANGED deleted
  /\ op' = [kind |-> "adopt", space |-> pending, taking |-> FALSE, moved |-> FALSE]
  /\ Fresh({DoIn("Register", pending), DoIn("Unmark", pending), DoIn("Reseal", pending), Do("Done")},
           DoIn("Register", pending))

DiscardAsked ==
  /\ pending \in Space /\ UNCHANGED deleted
  /\ op' = [kind |-> "discard", space |-> pending, taking |-> FALSE, moved |-> FALSE]
  /\ Fresh({DoIn("Discard", pending), DoIn("Unmark", pending), Do("Done")}, DoIn("Discard", pending))

\* What an operation starts with.
LEMMA Asked ==
  ASSUME Inv, Asking
  PROVE  /\ Shape' /\ up /\ up' /\ todo = <<>> /\ todo' # <<>> /\ Todo = {}
         /\ UNCHANGED <<reg, files, marker, store, mem, open, pending, held, gone, running, left, wiped, unnoted,
                        doc, chained, now>>
         /\ \/ \E i \in Id, s, to \in mem.entries : MoveAsked(i, s, to)
            \/ \E s \in mem.entries \ {mem.main} : MainAsked(s)
            \/ \E s \in mem.entries, keep \in BOOLEAN : RemoveAsked(s, keep)
            \/ \E s \in Space \ (files \cup mem.entries \cup reg.entries \cup gone \cup marker \cup {First}) : AddAsked(s)
            \/ AdoptAsked
            \/ DiscardAsked
<1>1. UNCHANGED <<reg, files, marker, store, mem, open, pending, held, gone, running, left, wiped, unnoted,
                  doc, chained, now>>
  BY OtherFrames DEF Asking
<1>2. Shape' /\ up /\ up' /\ todo = <<>> /\ todo' # <<>> BY AskIs
<1>3. Todo = {} BY <1>2 DEF Todo, Elems
<1> QED BY <1>1, <1>2, <1>3, AskIs DEF MoveAsked, MainAsked, RemoveAsked, AddAsked, AdoptAsked, DiscardAsked

\* Which operation was asked for.
LEMMA AskedKind ==
  ASSUME Inv, Asking
  PROVE  /\ op'.kind = "move" => \E i \in Id, s, to \in mem.entries : MoveAsked(i, s, to)
         /\ op'.kind = "main" => \E s \in mem.entries \ {mem.main} : MainAsked(s)
         /\ op'.kind = "remove" => \E s \in mem.entries, keep \in BOOLEAN : RemoveAsked(s, keep)
         /\ op'.kind = "add" =>
              \E s \in Space \ (files \cup mem.entries \cup reg.entries \cup gone \cup marker \cup {First}) : AddAsked(s)
         /\ op'.kind = "adopt" => AdoptAsked
         /\ op'.kind = "discard" => DiscardAsked
         /\ op'.kind \in {"move", "main", "remove", "add", "adopt", "discard"}
<1>1. /\ \A i \in Id, s, to \in mem.entries : MoveAsked(i, s, to) => op'.kind = "move"
      /\ \A s \in mem.entries : MainAsked(s) => op'.kind = "main"
      /\ \A s \in mem.entries, keep \in BOOLEAN : RemoveAsked(s, keep) => op'.kind = "remove"
      /\ \A s \in Space : AddAsked(s) => op'.kind = "add"
      /\ AdoptAsked => op'.kind = "adopt"
      /\ DiscardAsked => op'.kind = "discard"
  BY DEF MoveAsked, MainAsked, RemoveAsked, AddAsked, AdoptAsked, DiscardAsked
<1> QED BY <1>1, Asked

------------------------------------------------------------------------------
(* A server that is being set up                                            *)

\* What is not in use stays so: only stores of the registry are written.
LEMMA UnusedStays ==
  ASSUME Inv, Next, NEW s \in Space, Unused(s), s \notin mem.entries
  PROVE  Unused(s)'
<1>1. Shape /\ mem.main \in mem.entries /\ mem.entries \subseteq Space BY Basics
<1>2. SUFFICES \/ store'[s].uses = store[s].uses /\ store'[s].doc.val = store[s].doc.val
               \/ store'[s].uses = [i \in Id |-> 0] /\ store'[s].doc.val = 0
  BY DEF Unused
<1>3. CASE Import
  <2>1. Step.j.to \in mem.entries BY <1>3, ImportIs DEF Inv, MoveOK, Fits
  <2> QED BY <1>3, <2>1, ImportIs
<1>4. CASE Drop BY <1>4, DropIs
<1>5. CASE Personal
  <2>1. Step.at \in mem.entries BY <1>5, PersonalIs DEF Inv, SwapOK
  <2> QED BY <1>5, <2>1, PersonalIs DEF SameRows
<1>6. CASE StageMain \/ StageOther \/ Unstage BY <1>6, StageMainIs, StageOtherIs, UnstageIs DEF SameRows
<1>7. CASE SettleStep
  <2>1. store'[s].uses = store[s].uses BY <1>7, SettleStepIs DEF SameRows
  <2>2. store[s].doc.val = 0 BY DEF Unused
  <2>3. store'[s].doc.val = 0
    <3>1. CASE s # Step.at BY <1>7, <2>2, <3>1, SettleStepIs
    <3>2. CASE s = Step.at BY <1>7, <2>2, <3>2, SettleStepIs
    <3> QED BY <3>1, <3>2
  <2> QED BY <2>1, <2>2, <2>3
<1>8. CASE TakeKeys BY <1>8, TakeKeysIs
<1>9. CASE RemoveFiles \/ Discard BY <1>9, EmptiedIs, EmptyIs
<1>10. CASE Opens BY <1>10, OpenIs, EmptyIs
<1>11. CASE Reseal BY <1>11, ResealIs DEF SameRows
<1>12. CASE Unlock BY <1>12, UnlockIs DEF SameRows
<1>13. CASE Rechaining BY <1>13, RechainIs DEF Rechaining, SameRows
<1>14. CASE (\E i \in Id : DeleteHost(i)) \/ (\E t \in Space, i \in Id : PassPull(t, i))
  <2>1. PICK t \in Space, i \in Id : Deleting(t, i) BY <1>14, DeleteCases
  <2> QED BY <2>1, DeletingIs
<1>15. CASE \E v \in 0 .. MaxOps : EditDoc(v) BY <1>1, <1>15, EditDocIs
<1>16. CASE UNCHANGED store BY <1>16
<1> QED
  BY <1>3, <1>4, <1>5, <1>6, <1>7, <1>8, <1>9, <1>10, <1>11, <1>12, <1>13, <1>14, <1>15, <1>16, StoreFrame

\* A file that goes leaves nothing.
LEMMA GoneIsEmpty ==
  ASSUME Inv, Next, NEW s \in files, s \notin files'
  PROVE  store'[s] = EmptyStore
<1>1. files \subseteq Space BY DEF Inv, Types, TypeOK
<1>2. CASE (RemoveFiles \/ Discard) /\ files' = files \ {Step.at} BY <1>2, EmptiedIs
<1>3. CASE Opens BY <1>1, <1>3, OpenIs
<1>4. CASE UNCHANGED files \/ files' = files \cup {Step.at} BY <1>4
<1> QED BY <1>2, <1>3, <1>4, FilesAre

\* A store without a file is empty.
LEMMA UnfiledStep ==
  ASSUME Inv, Next
  PROVE  \A s \in Space \ files' : Unused(s)'
<1> SUFFICES ASSUME NEW s \in Space \ files' PROVE Unused(s)' OBVIOUS
<1>1. mem.entries \subseteq files BY DEF Inv, Registered
<1>2. CASE s \in files
  <2>1. store'[s] = EmptyStore BY <1>2, GoneIsEmpty
  <2> QED BY <2>1, EmptyIs DEF Unused
<1>3. CASE s \notin files
  <2>1. Unused(s) BY <1>3 DEF Inv, Setup
  <2> QED BY <1>1, <1>3, <2>1, UnusedStays
<1> QED BY <1>2, <1>3

\* With one server the registry gets no other one behind the back of `pending`.
LEMMA PendingAlone ==
  ASSUME Inv, Next, mem.entries = {mem.main}, up, ~Register
  PROVE  /\ mem'.entries = {mem'.main} /\ mem'.main = mem.main
         /\ reg'.entries \subseteq reg.entries \/ (Errs /\ Step.do = "Register")
<1>1. mem.entries \subseteq reg.entries /\ Shape BY Basics
<1>2. ~Opens BY OpenIs
<1> QED BY <1>1, <1>2, RegIs DEF RegNote, RegHand, RegLeave, RegGone, RegSwap, TornSwap, TornLeave

\* What is being set up is in the registry only when it is thrown away next.
LEMMA PendingTorn ==
  ASSUME Inv, Next, AtFirst({"Discard"}), pending' # None
  PROVE  AtFirst({"Discard"})'
<1>1. Shape /\ todo # <<>> /\ Step.do = "Discard" BY DEF Inv, AtFirst
<1>2. CASE Aside BY <1>1, <1>2, TodoIs, AsideIs DEF AtFirst, Step
<1>3. ~Asking BY <1>1, AskIs
<1>4. ~Crash BY FilesAre DEF Crash
<1>5. ~Errs BY <1>1 DEF Errs, Skipped
<1>6. ~Falls /\ ~GivesUp /\ ~Failed BY <1>1, <1>5, StepIs DEF Falls, GivesUp, StepOf
<1>7. CASE Acts
  <2>1. Discard => pending' = None BY DEF Discard
  <2>2. Skips => pending' = None BY <1>1, SkipIs
  <2> QED BY <1>1, <1>7, <2>1, <2>2 DEF Acts
<1> QED BY <1>2, <1>3, <1>4, <1>5, <1>6, <1>7, Cases

\* A server that is being set up stays empty, and no second server is there.
LEMMA PendingStep ==
  ASSUME Inv, Next, pending' # None
  PROVE  /\ pending' \in files' \ mem'.entries
         /\ pending' \notin reg'.entries \/ AtFirst({"Discard"})'
         /\ mem'.entries = {mem'.main}
         /\ Unused(pending)'
<1>1. Shape /\ KindOK /\ mem.entries \subseteq Space /\ pending \in Space \cup {None} /\ files \subseteq Space
  BY Basics DEF Inv, Types, TypeOK
<1>2. Setup /\ Registered BY DEF Inv
<1>3. CASE MakeFile /\ files' = files \cup {Step.at} /\ pending' = Step.at /\ StepOf("MakeFile")
  <2>1. mem.entries = {mem.main} /\ Step.at \notin files \cup reg.entries BY <1>2, <1>3 DEF Setup, StepOf
  <2>2. UNCHANGED <<reg, mem, store>> BY <1>3, OtherFrames
  <2>3. Step.at \in Space /\ Step.at \notin mem.entries BY <1>2, <1>3, <2>1, StepFields DEF Registered, StepOf, Placed
  <2>4. Unused(Step.at) BY <1>2, <2>1, <2>3 DEF Setup
  <2> QED BY <1>3, <2>1, <2>2, <2>3, <2>4 DEF Unused
<1>4. CASE pending' = pending
  <2>1. /\ pending \in files \ mem.entries
        /\ pending \notin reg.entries \/ AtFirst({"Discard"})
        /\ mem.entries = {mem.main} /\ Unused(pending)
    BY <1>2, <1>4 DEF Setup
  <2>2. up BY <1>1, <1>4 DEF KindOK
  <2>3. ~Register
    <3>1. Register => pending' = None BY DEF Register
    <3> QED BY <3>1
  <2>4. /\ mem'.entries = {mem'.main} /\ mem'.main = mem.main
        /\ reg'.entries \subseteq reg.entries \/ (Errs /\ Step.do = "Register")
    BY <2>1, <2>2, <2>3, PendingAlone
  <2>5. PICK s \in Space : s = pending BY <1>1, <1>4
  <2>6. Unused(s)' BY <2>1, <2>5, UnusedStays
  <2>7. pending \in files'
    <3>1. ~StepOf("MakeFile")
      <4>1. StepOf("MakeFile") => pending = None BY <1>2 DEF Setup, StepOf
      <4> QED BY <1>4, <4>1
    <3>2. ~Opens BY <2>2, OpenIs
    <3> QED BY <1>4, <2>1, <3>1, <3>2, FilesAre
  <2>8. CASE Errs /\ Step.do = "Register"
    <3>1. Step'.do = "Discard" /\ todo' # <<>> BY <2>8, FailIs DEF Fresh, DoIn, Dropped
    <3> QED BY <1>4, <2>1, <2>4, <2>5, <2>6, <2>7, <3>1 DEF AtFirst, Unused
  <2>9. CASE reg'.entries \subseteq reg.entries
    <3>1. AtFirst({"Discard"}) => AtFirst({"Discard"})' BY PendingTorn
    <3> QED BY <1>4, <2>1, <2>4, <2>5, <2>6, <2>7, <2>9, <3>1 DEF Unused
  <2> QED BY <2>4, <2>8, <2>9
<1> QED BY <1>3, <1>4, FilesAre

\* What the steps of setting a server up rely on.
ToSetUp(x) ==
  /\ x.do \in {"Register", "Discard"} => x.at = pending
  /\ x.do \in {"Mark", "MakeFile"} =>
       pending = None /\ mem.entries = {mem.main} /\ x.at \notin files \cup reg.entries

\* Steps that have nothing to do with setting up.
LEMMA OtherSteps ==
  ASSUME NEW x, x.do \notin {"Register", "Discard", "Mark", "MakeFile"}
  PROVE  ToSetUp(x)'
BY DEF ToSetUp

\* Operations start with setup steps that fit.
LEMMA ToSetUpAsked ==
  ASSUME Inv, Asking, NEW y \in Todo'
  PROVE  ToSetUp(y)'
<1>1. UNCHANGED <<mem, reg, files, pending>> BY OtherFrames DEF Asking
<1>2. \A a, s : DoIn(a, s).do = a /\ DoIn(a, s).at = s BY DEF DoIn
<1>3. \A a : Do(a).do = a BY DEF Do
<1>4. CASE y.do \notin {"Register", "Discard", "Mark", "MakeFile"} BY <1>4, OtherSteps
<1>5. CASE op'.kind = "add"
  <2>1. PICK s \in Space \ (files \cup reg.entries) :
           /\ pending = None /\ mem.entries = {mem.main}
           /\ Todo' = {DoIn("Mark", s), DoIn("MakeFile", s), Do("Done")}
    BY <1>5, AskedKind DEF AddAsked, Fresh
  <2> QED BY <1>1, <1>2, <1>3, <2>1 DEF ToSetUp
<1>6. CASE op'.kind = "adopt"
  <2>1. Todo' = {DoIn("Register", pending), DoIn("Unmark", pending), DoIn("Reseal", pending), Do("Done")}
    BY <1>6, AskedKind DEF AdoptAsked, Fresh
  <2> QED BY <1>1, <1>2, <1>3, <2>1 DEF ToSetUp
<1>7. CASE op'.kind = "discard"
  <2>1. Todo' = {DoIn("Discard", pending), DoIn("Unmark", pending), Do("Done")}
    BY <1>7, AskedKind DEF DiscardAsked, Fresh
  <2> QED BY <1>1, <1>2, <1>3, <2>1 DEF ToSetUp
<1>8. CASE op'.kind \in {"move", "main", "remove"}
  <2>1. y.do \in Allowed(op'.kind) BY AskAllowed
  <2> QED BY <1>4, <1>8, <2>1 DEF Allowed, MoveNames, SwapNames, RemoveNames
<1> QED BY <1>5, <1>6, <1>7, <1>8, AskedKind

\* Setup steps that are left still fit.
LEMMA ToSetUpTaken ==
  ASSUME Inv, Next, Goes, Acts, ~Crash, ~Errs, NEW y \in Todo'
  PROVE  ToSetUp(y)'
<1>1. Shape /\ KindOK /\ op.kind \in Kinds BY Basics
<1>2. todo # <<>> /\ Step \in Todo /\ Todo \subseteq StepSet /\ \A x \in Todo : x = Step \/ x \in Todo' BY DEF Goes, Acts
<1>3. CASE Put(y) BY <1>3, PutNames, OtherSteps
<1>4. CASE Old(y)
  <2>1. y \in Todo /\ Precedes(Step.do, y.do) /\ y.do \in Names /\ Step.do \in Names BY <1>1, <1>2, <1>4, OldIs
  <2>2. y.do \notin {"Register", "Discard", "Mark"} /\ (y.do = Step.do => y.do \in Repeated) BY <2>1, Before
  <2>3. CASE y.do = "MakeFile"
    <3>1. op.kind = "add" BY <1>1, <2>1, <2>3, KindsOf
    <3>2. Step.do \in {"Mark", "Done"}
      <4>1. Step.do \in {"Mark", "MakeFile", "Failed", "Done"} BY <1>1, <1>2, <3>1 DEF KindOK, Allowed
      <4>2. Step.do # "Failed"
        <5>1. "Failed" \in Ending BY DEF Ending
        <5> QED BY <1>2, <2>1, <2>3, <5>1, OpenAlone DEF StepOf
      <4> QED BY <2>2, <2>3, <4>1, <4>2 DEF Repeated
    <3>3. Mark \/ Done BY <3>2 DEF Acts
    <3>4. UNCHANGED <<mem, reg, files, pending>> BY <3>3, OtherFrames, RemoveFrames
    <3>5. pending = None /\ mem.entries = {mem.main} /\ y.at \notin files \cup reg.entries
      BY <2>1, <2>3 DEF Inv, Setup
    <3> QED BY <2>3, <3>4, <3>5 DEF ToSetUp
  <2> QED BY <2>2, <2>3, OtherSteps
<1> QED BY <1>3, <1>4 DEF Goes

\* Every step keeps what a server being set up needs.
LEMMA SetupStep ==
  ASSUME Inv, Next
  PROVE  Setup'
<1>1. \A s \in Space \ files' : Unused(s)' BY UnfiledStep
<1>2. ASSUME NEW y \in Todo' PROVE ToSetUp(y)'
  <2>1. Shape /\ KindOK /\ op.kind \in Kinds BY Basics
  <2>2. CASE Aside BY <2>2, <1>2, AsideIs DEF Inv, Setup, ToSetUp
  <2>3. CASE Crash /\ Todo' = {Do("Open")} BY <1>2, <2>3, OtherSteps DEF Do
  <2>4. CASE Asking BY <1>2, <2>4, ToSetUpAsked
  <2>5. CASE Falls
    <3>1. y.do \in {"Clear", "Unstage", "Unleave", "Failed"} BY <1>2, <2>5 DEF Falls, Fallen, FrontOf
    <3> QED BY <3>1, OtherSteps
  <2>6. CASE GivesUp
    <3>1. UNCHANGED pending BY <2>6, OtherFrames DEF GivesUp
    <3>2. Step.at = pending BY <2>6 DEF Inv, Setup, GivesUp
    <3>3. Todo' = {DoIn("Discard", Step.at), DoIn("Unmark", Step.at), Do("Failed")} BY <2>6 DEF GivesUp, Fresh
    <3> QED BY <1>2, <3>1, <3>2, <3>3 DEF ToSetUp, DoIn, Do
  <2>7. CASE Goes /\ Acts /\ ~Crash /\ ~Errs BY <1>2, <2>7, ToSetUpTaken
  <2> QED BY <1>2, <2>2, <2>3, <2>4, <2>5, <2>6, <2>7, Cases
<1>3. pending' # None => /\ pending' \in files' \ mem'.entries
                         /\ pending' \notin reg'.entries \/ AtFirst({"Discard"})'
                         /\ mem'.entries = {mem'.main}
                         /\ Unused(pending)'
  BY PendingStep
<1> HIDE DEF Unused, AtFirst
<1> QED BY <1>1, <1>2, <1>3 DEF Setup, ToSetUp

------------------------------------------------------------------------------
(* A change of the main server                                              *)

\* What comes before the steps of a change of the main server.
LEMMA BeforeSettled ==
  ASSUME NEW a \in Names, NEW b \in Names, Precedes(a, b)
  PROVE  /\ b = "Promote" => a = "Promote"
         /\ b = "ClearDoc" => a = "Promote"
         /\ b = "EndHandover" => a \in {"Promote", "ClearDoc"}
         /\ b = "Unstage" => a \in {"Promote", "ClearDoc", "EndHandover", "Unstage"}
         /\ b = "Personal" => a = "TakeRunning"
         /\ b = "StageMain" => a \in {"TakeRunning", "Personal"}
         /\ b = "Stage" => a \in {"TakeRunning", "Personal", "StageMain"}
         /\ b = "Swap" => a \in {"TakeRunning", "Personal", "StageMain", "Stage"}
<1>1. /\ Rank(a) <= Rank(b) \/ (a = "Settle" /\ b = "Recover")
      /\ Rank(a) = Rank(b) => a \in Repeated
      /\ Rank(a) \in 1 .. 39 /\ Rank(b) \in 1 .. 39
      /\ Rank(b) \in 27 .. 31 => a = "TakeRunning" \/ Rank(a) \in 27 .. 31
  BY RankOrder
<1>2. /\ Rank("Promote") = 1 /\ Rank("ClearDoc") = 2 /\ Rank("EndHandover") = 3 /\ Rank("Unstage") = 4
      /\ Rank("Personal") = 27 /\ Rank("StageMain") = 28 /\ Rank("Stage") = 29 /\ Rank("Swap") = 30
      /\ Rank("TakeRunning") = 21
  BY Ranks
<1>3. Repeated = {"Promote", "Unstage", "TakeRunning", "Recover", "Begin", "Moved"} BY DEF Repeated
<1>4. /\ Rank(a) <= 4 => a \in {"Promote", "ClearDoc", "EndHandover", "Unstage"}
      /\ Rank(a) \in 27 .. 30 => a \in {"Personal", "StageMain", "Stage", "Swap"}
  <2>1. CASE a \in Plain BY <2>1, Ranks DEF Plain
  <2>2. CASE a \in Placed BY <2>2, Ranks DEF Placed
  <2>3. CASE a \in Dropped BY <2>3, Ranks DEF Dropped
  <2>4. CASE a \in {"Begin", "Note", "Import", "Stage"} BY <2>4, Ranks
  <2> QED BY <2>1, <2>2, <2>3, <2>4 DEF Names
<1>5. b \in {"Promote", "ClearDoc", "EndHandover", "Unstage"} =>
        /\ a \in {"Promote", "ClearDoc", "EndHandover", "Unstage"} /\ Rank(a) <= Rank(b)
        /\ Rank(a) = Rank(b) => a \in Repeated
  BY <1>1, <1>2, <1>4
<1>6. b \in {"Personal", "StageMain", "Stage", "Swap"} =>
        /\ a \in {"TakeRunning", "Personal", "StageMain", "Stage", "Swap"} /\ Rank(a) <= Rank(b)
        /\ Rank(a) = Rank(b) => a \in Repeated
  BY <1>1, <1>2, <1>4
<1> QED BY <1>2, <1>3, <1>5, <1>6

\* What the steps of a change of the main server are about.
ToSwap(x) ==
  /\ x.do \in {"Personal", "StageMain", "Swap"} => x.at \in mem.entries \ {mem.main}
  /\ x.do = "Stage" => x.at = mem.main /\ x.main \in mem.entries \ {mem.main}
  /\ x.do = "ClearDoc" => x.at = mem.handover
  /\ x.do \in {"Promote", "Unstage"} => x.at \in mem.entries

Swappers == {"Personal", "StageMain", "Swap", "Stage", "ClearDoc", "Promote", "Unstage"}

\* Steps that have nothing to do with the change of the main server.
LEMMA NotToSwap ==
  ASSUME NEW x, x.do \notin Swappers
  PROVE  ToSwap(x)'
BY DEF ToSwap, Swappers

\* The steps make_main leaves fit its servers.
LEMMA SwapStepsFit ==
  ASSUME NEW new \in mem.entries \ {mem.main}, mem.entries \subseteq Space, mem.main \in Space, UNCHANGED mem,
         NEW y \in SwapSteps(new)
  PROVE  ToSwap(y)'
BY SwapStepFields DEF ToSwap

\* Operations start with swap steps that fit.
LEMMA SwapAsked ==
  ASSUME Inv, Asking, NEW y \in Todo'
  PROVE  ToSwap(y)'
<1>1. mem.main \in mem.entries /\ mem.entries \subseteq Space /\ UNCHANGED mem BY Basics, Asked
<1>2. y.do \in Allowed(op'.kind) BY AskAllowed
<1>3. CASE op'.kind \in {"move", "add", "adopt", "discard"}
  BY <1>2, <1>3, NotToSwap DEF Swappers, Allowed, MoveNames
<1>4. CASE op'.kind = "main"
  <2>1. PICK s \in mem.entries \ {mem.main} :
          Todo' = {DoIn("TakeRunning", mem.main), DoIn("TakeRunning", s), Do("Done")} \cup SwapSteps(s)
    BY <1>4, AskedKind DEF MainAsked, Fresh
  <2>2. y \in SwapSteps(s) \/ y.do \in {"TakeRunning", "Done"} BY <2>1 DEF DoIn, Do
  <2> QED BY <1>1, <2>2, SwapStepsFit, NotToSwap DEF Swappers
<1>5. CASE op'.kind = "remove"
  <2>1. PICK s, keep : Todo' = RemoveSteps(s, keep) BY <1>5, AskedKind DEF RemoveAsked, Fresh
  <2>2. y.do \in {"Hold", "TakeRunning", "HandOn", "Unregister", "RemoveFiles", "Retire", "Done",
                  "Leave", "TakeHosts"}
    BY <2>1 DEF RemoveSteps, DoIn, Do
  <2> QED BY <2>2, NotToSwap DEF Swappers
<1> QED BY <1>3, <1>4, <1>5, AskedKind

\* After a failure the swap steps that are left fit.
LEMMA SwapFalls ==
  ASSUME Inv, Next, Falls, NEW y \in Todo'
  PROVE  ToSwap(y)'
<1>1. /\ y.do \in FrontOf(Step.do) \cup {"Unleave", "Failed"}
      /\ y.do = "Unstage" => y.at \in mem.entries
  BY DEF Falls, Fallen
<1>2. CASE y.do = "Unstage"
  <2>1. Step.do \in {"StageMain", "Stage", "Swap"} BY <1>1, <1>2 DEF FrontOf
  <2>2. Shape BY Basics
  <2>3. mem'.entries = mem.entries
    <3>1. CASE Errs
      <4>1. mem' = mem \/ mem' = [mem EXCEPT !.handover = None] BY <2>1, <3>1, ErrIs DEF Dropped
      <4>2. mem \in Registry BY Basics
      <4> QED BY <4>1, <4>2 DEF Registry
    <3>2. CASE Begin \/ Import \/ Personal \/ StageMain \/ StageOther \/ TakeKeys \/ TakeTimesOut
      BY <3>2, MoveFrames, RemoveFrames
    <3> QED BY <3>1, <3>2 DEF Falls
  <2> QED BY <1>1, <1>2, <2>3 DEF ToSwap
<1> QED BY <1>1, <1>2, NotToSwap DEF Swappers, FrontOf

\* Swap steps that are left still fit.
LEMMA SwapTaken ==
  ASSUME Inv, Next, Goes, Acts, ~Errs, NEW y \in Todo'
  PROVE  ToSwap(y)'
<1>1. Shape /\ mem.main \in mem.entries /\ mem.entries \subseteq Space BY Basics
<1>2. todo # <<>> /\ Step \in Todo /\ Todo \subseteq StepSet BY DEF Acts
<1>3. CASE Put(y)
  <2>1. CASE y.do \notin Swappers BY <2>1, NotToSwap
  <2>2. CASE Settle /\ y.do \in {"Unstage", "Promote", "ClearDoc"}
    <3>1. UNCHANGED mem BY <2>2, MoveFrames
    <3>2. y.do \in {"Unstage", "Promote"} => y.at \in mem.entries
      <4>1. StepOf("Settle") BY <1>1, <2>2, StepIs
      <4>2. ~Recover /\ ~Begin /\ ~HandOn /\ ~TakeHosts /\ ~Opens BY <1>1, <4>1, StepIs DEF StepOf
      <4> QED BY <1>3, <2>2, <4>2 DEF Put
    <3>3. y.do = "ClearDoc" => y.at = mem.handover
      <4>1. StepOf("Settle") BY <1>1, <2>2, StepIs
      <4>2. ~Recover /\ ~Begin /\ ~HandOn /\ ~TakeHosts /\ ~Opens BY <1>1, <4>1, StepIs DEF StepOf
      <4> QED BY <1>3, <2>2, <4>2 DEF Put
    <3> QED BY <2>2, <3>1, <3>2, <3>3 DEF ToSwap
  <2>3. CASE HandOn
    <3>1. StepOf("HandOn") BY <1>1, <2>3, StepIs
    <3>2. ~Recover /\ ~Begin /\ ~Settle /\ ~TakeHosts /\ ~Opens BY <1>1, <3>1, StepIs DEF StepOf
    <3>3. mem.main = Step.at /\ y \in SwapSteps(Other(Step.at)) BY <1>3, <3>2 DEF Put
    <3>4. Other(Step.at) \in mem.entries \ {mem.main} BY <3>1, <3>3, RemovalOf DEF StepOf
    <3>5. UNCHANGED mem BY <2>3, RemoveFrames
    <3> QED BY <1>1, <3>3, <3>4, <3>5, SwapStepsFit
  <2> QED BY <1>3, <2>1, <2>2, <2>3, PutNames DEF Swappers
<1>4. CASE Old(y)
  <2>1. y \in Todo /\ Precedes(Step.do, y.do) /\ y.do \in Names /\ Step.do \in Names BY <1>1, <1>2, <1>4, OldIs
  <2>2. ToSwap(y) BY <2>1 DEF Inv, SwapOK, ToSwap
  <2>3. CASE y.do \notin Swappers BY <2>3, NotToSwap
  <2>4. CASE y.do = "ClearDoc"
    <3>1. Step.do = "Promote" BY <2>1, <2>4, BeforeSettled
    <3>2. UNCHANGED mem BY <3>1, MoveFrames DEF Acts
    <3> QED BY <2>2, <3>2 DEF ToSwap
  <2>5. CASE y.do \in {"Promote", "Unstage"}
    <3>1. Step.do \in {"Promote", "ClearDoc", "EndHandover", "Unstage"} BY <2>1, <2>5, BeforeSettled
    <3>2. SettleStep \/ EndHandover \/ Unstage \/ (Skips /\ Step.do = "Unstage") BY <3>1 DEF Acts
    <3>3. mem'.entries = mem.entries
      <4>1. CASE EndHandover BY <4>1, RegFields, SpacesAssumption DEF EndHandover, Persist, Inv, Types, TypeOK
      <4>2. CASE Skips /\ Step.do = "Unstage" BY <4>2, SkipIs
      <4> QED BY <3>2, <4>1, <4>2, MoveFrames
    <3> QED BY <2>2, <2>5, <3>3 DEF ToSwap
  <2>6. CASE y.do \in {"Personal", "StageMain", "Stage", "Swap"}
    <3>1. Step.do \in {"TakeRunning", "Personal", "StageMain", "Stage"} BY <2>1, <2>6, BeforeSettled
    <3>2. TakeRunning \/ TakeTimesOut \/ Personal \/ StageMain \/ StageOther BY <3>1 DEF Acts
    <3>3. UNCHANGED mem BY <3>2, MoveFrames, RemoveFrames
    <3> QED BY <2>2, <3>3 DEF ToSwap
  <2> QED BY <2>3, <2>4, <2>5, <2>6 DEF Swappers
<1> QED BY <1>3, <1>4 DEF Goes

\* Every step keeps the swap steps about its two servers.
LEMMA SwapStep ==
  ASSUME Inv, Next
  PROVE  SwapOK'
<1> SUFFICES ASSUME NEW y \in Todo' PROVE ToSwap(y)' BY DEF SwapOK, ToSwap
<1>1. CASE Aside BY <1>1, AsideIs DEF Inv, SwapOK, ToSwap
<1>2. CASE Crash /\ Todo' = {Do("Open")} BY <1>2, NotToSwap DEF Do, Swappers
<1>3. CASE GivesUp BY <1>3, NotToSwap DEF GivesUp, Fresh, Do, DoIn, Swappers
<1> QED BY <1>1, <1>2, <1>3, SwapAsked, SwapFalls, SwapTaken, Cases

------------------------------------------------------------------------------
(* The hosts in the stores                                                  *)

\* Nothing goes that somebody has not deleted, and nothing comes.
ShrunkIn(s) ==
  /\ store'[s].uses = store[s].uses /\ store'[s].key = store[s].key /\ store'[s].known = store[s].known
  /\ \A i \in Id : \/ store'[s].host[i] = store[s].host[i]
                   \/ store[s].host[i] = "live" /\ store'[s].host[i] = "dead" /\ i[1] \in deleted'

EmptiedIn(s) ==
  store'[s] = EmptyStore /\ s \notin mem.entries /\ \A i \in Id : Live(s, i) => i[1] \in deleted

Shrinks == deleted \subseteq deleted' /\ \A s \in Space : ShrunkIn(s) \/ EmptiedIn(s)

\* Rows that only go away: what is live was live.
LEMMA ShrunkRows ==
  ASSUME Shrinks, NEW s \in Space, NEW i \in Id
  PROVE  /\ Live(s, i)' => Live(s, i)
         /\ Live(s, i) /\ i[1] \notin deleted' => Live(s, i)'
         /\ store[s].host[i] = "none" => store'[s].host[i] = "none"
         /\ store'[s].host[i] \in {store[s].host[i], "dead", "none"}
BY EmptyIs DEF Shrinks, ShrunkIn, EmptiedIn, Live

\* Rows that only go away make no second copy.
LEMMA ShrunkOnce ==
  ASSUME Shrinks, NEW s \in Space, NEW t \in Space, NEW i \in Id, NEW k \in Id, Twice(s, i, t, k)'
  PROVE  Twice(s, i, t, k)
<1>1. deleted \subseteq deleted' BY DEF Shrinks
<1>2. (Live(s, i)' => Live(s, i)) /\ (Live(t, k)' => Live(t, k)) BY ShrunkRows
<1> QED BY <1>1, <1>2 DEF Twice

\* Rows that only go away leave no new key behind.
LEMMA ShrunkOrphan ==
  ASSUME Shrinks, NEW s \in Space, NEW g \in Gen, Orphan(s, g)'
  PROVE  Orphan(s, g) /\ store'[s].uses = store[s].uses
<1>1. ~EmptiedIn(s)
  <2>1. EmptiedIn(s) => store'[s].key[g] = "none" BY EmptyIs DEF EmptiedIn
  <2> QED BY <2>1 DEF Orphan
<1>2. ShrunkIn(s) /\ deleted \subseteq deleted' BY <1>1 DEF Shrinks
<1> QED BY <1>2 DEF ShrunkIn, Orphan

\* Rows that only go away leave the others whole.
LEMMA ShrunkWhole ==
  ASSUME Shrinks, NEW s \in Space, WholeIn(store[s])
  PROVE  WholeIn(store'[s])
<1>1. CASE EmptiedIn(s) BY <1>1, EmptyIs DEF EmptiedIn, WholeIn
<1>2. CASE ShrunkIn(s) BY <1>2 DEF ShrunkIn, WholeIn
<1> QED BY <1>1, <1>2 DEF Shrinks

\* Rows that only go away leave the same ids to give to keys.
LEMMA ShrunkKeys ==
  ASSUME Shrinks, NEW g \in Gen
  PROVE  /\ g \in FreshKeys => g \in FreshKeys'
         /\ \A s \in Space : store[s].key[g] # "dead" => store'[s].key[g] # "dead"
<1>1. \A s \in Space : store'[s].key[g] = store[s].key[g] \/ store'[s].key[g] = "none"
  BY EmptyIs DEF Shrinks, ShrunkIn, EmptiedIn
<1> QED BY <1>1 DEF FreshKeys

\* What a step does to the rows: only moves bring some, and only they and
\* deletions take some away.
LEMMA RowsCases ==
  ASSUME Inv, Next
  PROVE  Shrinks \/ Import \/ Drop \/ TakeKeys
<1>1. deleted \subseteq deleted'
  <2>1. CASE (\E i \in Id : DeleteHost(i)) \/ (\E s \in Space, i \in Id : PassPull(s, i))
    BY <2>1 DEF DeleteHost, PassPull
  <2>2. CASE \E s \in Space, keep \in BOOLEAN : AskRemove(s, keep) BY <2>2 DEF AskRemove
  <2> QED BY <2>1, <2>2, DeletedFrame
<1>2. CASE \A s \in Space : SameRows(store[s], store'[s]) BY <1>1, <1>2 DEF Shrinks, ShrunkIn, SameRows
<1>3. ASSUME NEW s \in Space, NEW i \in Id, Deleting(s, i) PROVE Shrinks
  <2>1. i[1] \in deleted' BY <1>3 DEF Deleting
  <2>2. ShrunkIn(s)
    <3>1. store[s].host \in [Id -> State] BY Basics, StoreFields
    <3>2. store[s].host[i] = "live" BY <1>3 DEF Deleting, Live
    <3>3. /\ store'[s].host = [store[s].host EXCEPT ![i] = "dead"]
          /\ store'[s].uses = store[s].uses /\ store'[s].key = store[s].key /\ store'[s].known = store[s].known
      BY <1>3, DeletingIs
    <3>4. \A n \in Id : n # i => store'[s].host[n] = store[s].host[n] BY <3>1, <3>3
    <3>5. store'[s].host[i] = "dead" BY <3>1, <3>3
    <3> QED BY <2>1, <3>2, <3>3, <3>4, <3>5 DEF ShrunkIn
  <2>3. \A t \in Space : t # s => ShrunkIn(t) BY <1>3, DeletingIs DEF ShrunkIn
  <2> QED BY <1>1, <2>2, <2>3 DEF Shrinks
<1>4. ASSUME NEW s \in Space, s \notin mem.entries, store'[s] = EmptyStore PROVE EmptiedIn(s)
  BY <1>4 DEF EmptiedIn, Inv, Copied
<1>5. CASE RemoveFiles \/ Discard
  <2>1. Step.at \notin mem.entries
    <3>1. Shape /\ mem.entries \subseteq reg.entries BY Basics
    <3>2. CASE Discard
      <4>1. StepOf("Discard") BY <3>1, <3>2, StepIs
      <4>2. Step.at = pending /\ Step.at \in Space BY <4>1, StepFields DEF Inv, Setup, StepOf, Placed
      <4>3. pending # None BY <4>2, SpacesAssumption
      <4> QED BY <4>2, <4>3 DEF Inv, Setup
    <3>3. CASE RemoveFiles
      <4>1. StepOf("RemoveFiles") BY <3>1, <3>3, StepIs
      <4>2. \A x \in Todo : x = Step \/ Precedes("RemoveFiles", x.do) BY <3>1, <4>1, Behind
      <4>3. ~Within({"Unregister"})
        <5>1. ~Precedes("RemoveFiles", "Unregister") BY Ranks, RankOrder DEF Names, Placed
        <5> QED BY <4>1, <4>2, <5>1 DEF Within, StepOf
      <4>4. Removing /\ op.kind = "remove" /\ Step.at = op.space BY <4>1, RemovalOf DEF StepOf
      <4> QED BY <3>1, <4>1, <4>3, <4>4 DEF Removing, StepOf
    <3> QED BY <1>5, <3>2, <3>3
  <2>2. \A t \in Space : t # Step.at => ShrunkIn(t) BY <1>5, EmptiedIs DEF ShrunkIn
  <2>3. EmptiedIn(Step.at) BY <1>4, <1>5, <2>1, EmptiedIs
  <2> QED BY <1>1, <1>5, <2>2, <2>3, EmptiedIs DEF Shrinks
<1>6. CASE Opens
  <2>0. PICK W \in SUBSET Swept : \A s \in Space : store'[s] = IF s \in W THEN EmptyStore ELSE store[s]
    BY <1>6, OpenIs
  <2>1. \A s \in Space : s \notin W => ShrunkIn(s) BY <2>0 DEF ShrunkIn
  <2>2. \A s \in Space : s \in W => EmptiedIn(s)
    <3>1. Swept \cap mem.entries = {} BY Basics DEF Swept
    <3> QED BY <1>4, <2>0, <3>1
  <2> QED BY <1>1, <2>1, <2>2 DEF Shrinks
<1> QED BY <1>2, <1>3, <1>5, <1>6, RowsFrame

------------------------------------------------------------------------------
(* Where the hosts are, whatever a step does to the registry                *)

Hosts == Copied /\ OnceOrMoving /\ Journaled /\ Whole /\ Neat(mem) /\ Neat(reg)

\* The same for servers E and a journal j in memory, F and k on disk.
CopiedIn(E) ==
  /\ \A h \in Host \ deleted : \E s \in E, g \in Gen : Live(s, <<h, g>>)
  /\ \A s \in Space, i \in Id : Live(s, i) /\ i[1] \notin deleted => s \in E

PairOf(j, s, i, t, k) == j = [host |-> i, target |-> k, from |-> s, to |-> t]

OnceBut(b, j) ==
  \A s, t \in Space, i, k \in Id : Twice(s, i, t, k) => b /\ (PairOf(j, s, i, t, k) \/ PairOf(j, t, k, s, i))

JourOK(j) ==
  j # NoJournal /\ j.host[1] \notin deleted => Live(j.from, j.host) \/ Live(j.to, j.target)

NeatIn(E, j) ==
  \A s \in E, g \in Gen : Orphan(s, g) => j # NoJournal /\ j.from = s /\ store[s].uses[j.host] = g

Unsent(j) == store[j.to].host[j.target] = "none"

HostsAs(E, F, j, k) ==
  /\ CopiedIn(E) /\ OnceBut(j = k, j) /\ JourOK(j) /\ JourOK(k)
  /\ j \notin {NoJournal, k} => Unsent(j)
  /\ Whole /\ NeatIn(E, j) /\ NeatIn(F, k)

\* Where the hosts are, for the registry as it is.
LEMMA HostsNow ==
  ASSUME Inv
  PROVE  HostsAs(mem.entries, reg.entries, mem.journal, reg.journal)
<1>1. Copied /\ OnceOrMoving /\ Journaled /\ Whole /\ Neat(mem) /\ Neat(reg) BY DEF Inv
<1>2. CopiedIn(mem.entries) BY <1>1 DEF Copied, CopiedIn
<1>3. OnceBut(mem.journal = reg.journal, mem.journal) BY <1>1 DEF OnceOrMoving, OnceBut, Pair, PairOf
<1>4. JourOK(mem.journal) /\ JourOK(reg.journal) BY <1>1 DEF Journaled, JournalOK, JourOK
<1>5. mem.journal \notin {NoJournal, reg.journal} => Unsent(mem.journal) BY <1>1 DEF Journaled, Unsent
<1>6. NeatIn(mem.entries, mem.journal) /\ NeatIn(reg.entries, reg.journal) BY <1>1 DEF Neat, NeatIn
<1> QED BY <1>1, <1>2, <1>3, <1>4, <1>5, <1>6 DEF HostsAs

\* Where the hosts are after a step, for the registry as it is then.
LEMMA HostsThen ==
  ASSUME NEW E, NEW F, NEW j, NEW k,
         mem'.entries = E, reg'.entries = F, mem'.journal = j, reg'.journal = k, HostsAs(E, F, j, k)'
  PROVE  Hosts'
<1>1. CopiedIn(E)' /\ OnceBut(j = k, j)' /\ JourOK(j)' /\ JourOK(k)' /\ Whole' /\ NeatIn(E, j)' /\ NeatIn(F, k)'
  BY DEF HostsAs
<1>2. j \notin {NoJournal, k} => Unsent(j)' BY DEF HostsAs
<1>3. Copied' BY <1>1 DEF Copied, CopiedIn
<1>4. OnceOrMoving' BY <1>1 DEF OnceOrMoving, OnceBut, Pair, PairOf
<1>5. Journaled' BY <1>1, <1>2 DEF Journaled, JournalOK, JourOK, Unsent
<1>6. Neat(mem)' /\ Neat(reg)' BY <1>1 DEF Neat, NeatIn
<1> QED BY <1>1, <1>3, <1>4, <1>5, <1>6 DEF Hosts

\* The parts of a journal entry.
LEMMA EntryFields ==
  ASSUME NEW j \in Entry
  PROVE  /\ j \in Journal /\ j # NoJournal
         /\ j.from \in Space /\ j.to \in Space /\ j.host \in Id /\ j.target \in Id
         /\ j.from # j.to /\ j.host[1] = j.target[1]
         /\ PairOf(j, j.from, j.host, j.to, j.target)
<1>1. j \in Journal /\ j.from # j.to /\ j.host[1] = j.target[1] BY DEF Entry
<1>2. j.from \in Space /\ j.to \in Space /\ j.host \in Id /\ j.target \in Id BY <1>1 DEF Journal
<1>3. j # NoJournal BY <1>2, SpacesAssumption DEF NoJournal
<1>4. PairOf(j, j.from, j.host, j.to, j.target) BY <1>1 DEF Journal, PairOf
<1> QED BY <1>1, <1>2, <1>3, <1>4

\* Rows that only go away leave the hosts where they are.
LEMMA HostsShrunk ==
  ASSUME Shrinks, NEW E \in SUBSET Space, NEW F \in SUBSET Space,
         NEW j \in Entry \cup {NoJournal}, NEW k \in Entry \cup {NoJournal}, HostsAs(E, F, j, k)
  PROVE  HostsAs(E, F, j, k)'
<1>0. deleted \subseteq deleted' BY DEF Shrinks
<1>1. CopiedIn(E)'
  <2>1. ASSUME NEW h \in Host \ deleted' PROVE \E s \in E, g \in Gen : Live(s, <<h, g>>)'
    <3>1. PICK s \in E, g \in Gen : Live(s, <<h, g>>) BY <1>0, <2>1 DEF HostsAs, CopiedIn
    <3>2. <<h, g>> \in Id /\ <<h, g>>[1] \notin deleted' BY <2>1, <3>1 DEF Id
    <3>3. Live(s, <<h, g>>)' BY <3>1, <3>2, ShrunkRows
    <3> QED BY <3>3
  <2>2. ASSUME NEW s \in Space, NEW i \in Id, Live(s, i)', i[1] \notin deleted' PROVE s \in E
    <3>1. Live(s, i) /\ i[1] \notin deleted BY <1>0, <2>2, ShrunkRows
    <3> QED BY <3>1 DEF HostsAs, CopiedIn
  <2> QED BY <2>1, <2>2 DEF CopiedIn
<1>2. OnceBut(j = k, j)' BY ShrunkOnce DEF HostsAs, OnceBut, PairOf
<1>3. ASSUME NEW l \in Entry \cup {NoJournal}, JourOK(l) PROVE JourOK(l)'
  <2>1. CASE l \in Entry BY <1>0, <1>3, <2>1, EntryFields, ShrunkRows DEF JourOK
  <2> QED BY <2>1 DEF JourOK
<1>4. j \notin {NoJournal, k} => Unsent(j)'
  <2>1. CASE j \in Entry BY <2>1, EntryFields, ShrunkRows DEF HostsAs, Unsent
  <2> QED BY <2>1
<1>5. Whole' BY ShrunkWhole DEF HostsAs, Whole
<1>6. ASSUME NEW G \in SUBSET Space, NEW l, NeatIn(G, l) PROVE NeatIn(G, l)'
  BY <1>6, ShrunkOrphan DEF NeatIn
<1> QED BY <1>1, <1>2, <1>3, <1>4, <1>5, <1>6 DEF HostsAs

\* The registry in memory is written to disk.
LEMMA HostsSaved ==
  ASSUME NEW E, NEW F, NEW j, NEW k, HostsAs(E, F, j, k)
  PROVE  HostsAs(E, E, j, j)
<1>1. OnceBut(j = j, j) BY DEF HostsAs, OnceBut
<1> QED BY <1>1 DEF HostsAs

\* Without a journal every host is there once.
LEMMA NoPair ==
  ASSUME NEW b, OnceBut(b, NoJournal)
  PROVE  Once
<1>1. ASSUME NEW s \in Space, NEW i, NEW t, NEW k PROVE ~PairOf(NoJournal, s, i, t, k)
  <2>1. [host |-> i, target |-> k, from |-> s, to |-> t].from = s OBVIOUS
  <2>2. NoJournal.from = None BY DEF NoJournal
  <2> QED BY <2>1, <2>2, SpacesAssumption DEF PairOf
<1> QED BY <1>1 DEF Once, OnceBut

\* A move is noted, in memory at least.
LEMMA HostsNoted ==
  ASSUME NEW E, NEW F, NEW k, NEW j \in Entry, HostsAs(E, F, NoJournal, k),
         j.host[1] \notin deleted => Live(j.from, j.host), Unsent(j)
  PROVE  HostsAs(E, E, j, j) /\ HostsAs(E, F, j, k)
<1>1. Once BY NoPair DEF HostsAs
<1>2. \A b : OnceBut(b, j) BY <1>1 DEF Once, OnceBut
<1>3. JourOK(j) BY DEF JourOK
<1>4. NeatIn(E, j) BY DEF HostsAs, NeatIn
<1> QED BY <1>2, <1>3, <1>4 DEF HostsAs

CleanIn(E) == \A s \in E, g \in Gen : ~Orphan(s, g)

\* The note goes.
LEMMA HostsCleared ==
  ASSUME NEW E, NEW F, NEW j, NEW k, HostsAs(E, F, j, k), Once, CleanIn(E)
  PROVE  HostsAs(E, E, NoJournal, NoJournal) /\ HostsAs(E, F, NoJournal, k)
<1>1. \A b : OnceBut(b, NoJournal) BY DEF Once, OnceBut
<1>2. JourOK(NoJournal) BY DEF JourOK
<1>3. NeatIn(E, NoJournal) BY DEF CleanIn, NeatIn
<1> QED BY <1>1, <1>2, <1>3 DEF HostsAs

\* A server goes that no host is left in.
LEMMA HostsUnregistered ==
  ASSUME NEW m \in Space, NEW a \in Space, m # a, NEW F, NEW j \in Entry \cup {NoJournal}, NEW k,
         j # NoJournal => {j.from, j.to} \subseteq {m, a},
         HostsAs({m, a}, F, j, k),
         \A i \in Id : Live(a, i) => i[1] \in deleted
  PROVE  HostsAs({m}, {m}, NoJournal, NoJournal) /\ HostsAs({m}, F, NoJournal, k)
<1>1. \A s \in Space, i \in Id : Live(s, i) /\ i[1] \notin deleted => s = m BY DEF HostsAs, CopiedIn
<1>2. CopiedIn({m})
  <2>1. ASSUME NEW h \in Host \ deleted PROVE \E g \in Gen : Live(m, <<h, g>>)
    <3>1. PICK s \in {m, a}, g \in Gen : Live(s, <<h, g>>) BY DEF HostsAs, CopiedIn
    <3>2. <<h, g>> \in Id /\ <<h, g>>[1] = h BY <2>1, <3>1 DEF Id
    <3> QED BY <1>1, <2>1, <3>1, <3>2
  <2> QED BY <1>1, <2>1 DEF CopiedIn
<1>3. Once
  <2> SUFFICES ASSUME NEW s \in Space, NEW t \in Space, NEW i \in Id, NEW x \in Id, Twice(s, i, t, x)
               PROVE  FALSE
    BY DEF Once
  <2>1. s = m /\ t = m BY <1>1 DEF Twice
  <2>2. PairOf(j, s, i, t, x) \/ PairOf(j, t, x, s, i) BY DEF HostsAs, OnceBut
  <2>3. j.from = m /\ j.to = m BY <2>1, <2>2 DEF PairOf
  <2>4. j = NoJournal => j.from = None BY DEF NoJournal
  <2> QED BY <2>3, <2>4, EntryFields, SpacesAssumption
<1>4. \A b : OnceBut(b, NoJournal) BY <1>3 DEF Once, OnceBut
<1>5. CleanIn({m})
  <2> SUFFICES ASSUME NEW g \in Gen, Orphan(m, g) PROVE FALSE BY DEF CleanIn
  <2>1. j # NoJournal /\ j.from = m /\ store[m].uses[j.host] = g BY DEF HostsAs, NeatIn
  <2>2. j \in Entry /\ j.to = a /\ j.host \in Id /\ j.target \in Id /\ j.host[1] = j.target[1]
    BY <2>1, EntryFields
  <2>3. store[m].host[j.host] = "dead" /\ j.host[1] \notin deleted BY <2>1, <2>2 DEF Orphan
  <2>4. Live(a, j.target) BY <2>1, <2>2, <2>3 DEF HostsAs, JourOK, Live
  <2> QED BY <2>2, <2>3, <2>4
<1>6. NeatIn({m}, NoJournal) BY <1>5 DEF CleanIn, NeatIn
<1>7. JourOK(NoJournal) BY DEF JourOK
<1> QED BY <1>2, <1>4, <1>6, <1>7 DEF HostsAs

\* A server comes that nothing is in.
LEMMA HostsRegistered ==
  ASSUME NEW m \in Space, NEW p \in Space, NEW F, NEW k, HostsAs({m}, F, NoJournal, k), Unused(p)
  PROVE  HostsAs({m, p}, {m, p}, NoJournal, NoJournal) /\ HostsAs({m}, {m, p}, NoJournal, NoJournal)
<1>1. CopiedIn({m, p}) BY DEF HostsAs, CopiedIn
<1>2. Once BY NoPair DEF HostsAs
<1>3. \A b : OnceBut(b, NoJournal) BY <1>2 DEF Once, OnceBut
<1>4. \A g \in Gen : ~Orphan(p, g) BY SpacesAssumption DEF Orphan, Unused, Gen
<1>5. NeatIn({m, p}, NoJournal) BY <1>4 DEF HostsAs, NeatIn
<1>6. JourOK(NoJournal) BY DEF JourOK
<1> QED BY <1>1, <1>3, <1>5, <1>6 DEF HostsAs

\* The registry is read from disk.
LEMMA HostsRead ==
  ASSUME NEW E, NEW F, NEW j, NEW k, HostsAs(E, F, j, k), E \subseteq F
  PROVE  HostsAs(F, F, k, k)
<1>1. CopiedIn(F) BY DEF HostsAs, CopiedIn
<1>2. OnceBut(k = k, k) BY DEF HostsAs, OnceBut
<1> QED BY <1>1, <1>2 DEF HostsAs

\* While the host of the journal is not where it goes, it is in one place, and
\* no key is left over.
LEMMA NotArrived ==
  ASSUME NEW E, NEW F, NEW j \in Entry, NEW k, HostsAs(E, F, j, k), ~Live(j.to, j.target)
  PROVE  Once /\ CleanIn(E)
<1>1. Once
  <2> SUFFICES ASSUME NEW s \in Space, NEW t \in Space, NEW i \in Id, NEW x \in Id, Twice(s, i, t, x)
               PROVE  FALSE
    BY DEF Once
  <2>1. PairOf(j, s, i, t, x) \/ PairOf(j, t, x, s, i) BY DEF HostsAs, OnceBut
  <2>2. (j.to = t /\ j.target = x) \/ (j.to = s /\ j.target = i) BY <2>1 DEF PairOf
  <2> QED BY <2>2 DEF Twice
<1>2. CleanIn(E)
  <2> SUFFICES ASSUME NEW s \in E, NEW g \in Gen, Orphan(s, g) PROVE FALSE BY DEF CleanIn
  <2>1. j.from = s /\ store[s].uses[j.host] = g BY DEF HostsAs, NeatIn
  <2>2. store[s].host[j.host] = "dead" /\ j.host[1] \notin deleted BY <2>1, EntryFields DEF Orphan
  <2>3. JourOK(j) /\ j # NoJournal BY EntryFields DEF HostsAs
  <2> QED BY <2>1, <2>2, <2>3 DEF JourOK, Live
<1> QED BY <1>1, <1>2

\* Without a journal there is no key left behind.
LEMMA NoJournalClean ==
  ASSUME NEW E, NEW F, NEW k, HostsAs(E, F, NoJournal, k)
  PROVE  Once /\ CleanIn(E)
BY NoPair DEF HostsAs, NeatIn, CleanIn

------------------------------------------------------------------------------
(* The steps of a move                                                      *)

\* Import: the host is at both ends of the journal.
LEMMA HostsImported ==
  ASSUME Inv, Import, ~UNCHANGED store, NEW E \in SUBSET Space, NEW F \in SUBSET Space, NEW j \in Entry,
         HostsAs(E, F, j, j), j = Step.j, j.to \in E
  PROVE  HostsAs(E, F, j, j)' /\ Live(j.to, j.target)'
<1> DEFINE st == store[j.to]
           nt == store'[j.to]
           k  == Step.m.key
           g0 == KeyHere(st, k)
<1>0. /\ j.from \in Space /\ j.to \in Space /\ j.host \in Id /\ j.target \in Id
      /\ j.from # j.to /\ j.host[1] = j.target[1] /\ j # NoJournal
      /\ PairOf(j, j.from, j.host, j.to, j.target)
  BY EntryFields
<1>1. /\ nt.host = [st.host EXCEPT ![j.target] = "live"]
      /\ nt.uses = [st.uses EXCEPT ![j.target] = IF k = 0 THEN 0 ELSE g0]
      /\ nt.key = IF k = 0 THEN st.key ELSE [st.key EXCEPT ![g0] = "live"]
      /\ nt.known = (st.known \/ Step.m.known)
      /\ k # 0 => g0 \in Gen
      /\ \A s \in Space : s # j.to => store'[s] = store[s]
  BY ImportIs
<1>2. Fits(j) /\ Carries(j, Step.m) /\ Step.m \in Luggage
  BY ImportIs DEF Inv, MoveOK
<1>3. deleted' = deleted BY MoveFrames
<1>4. /\ st.host \in [Id -> State] /\ st.uses \in [Id -> {0} \cup Gen] /\ st.key \in [Gen -> State]
  BY <1>0, Basics, StoreFields
<1>5. st.host[j.target] = "none" /\ (j.host[1] \notin deleted => Live(j.from, j.host)) BY <1>2 DEF Fits
<1>6. Step.m.known /\ (j.host[1] \in Keyed => k # 0) BY <1>2 DEF Carries
<1>7. \A i \in Id : nt.host[i] = IF i = j.target THEN "live" ELSE st.host[i] BY <1>0, <1>1, <1>4
<1>8. \A i \in Id : nt.uses[i] = IF i = j.target THEN (IF k = 0 THEN 0 ELSE g0) ELSE st.uses[i]
  BY <1>0, <1>1, <1>4
<1>9. \A g \in Gen : nt.key[g] = IF k # 0 /\ g = g0 THEN "live" ELSE st.key[g] BY <1>1, <1>4
<1>10. 0 \notin Gen BY SpacesAssumption DEF Gen
<1>11. WholeIn(st) /\ Once
  <2>1. ~Live(j.to, j.target) BY <1>5 DEF Live
  <2> QED BY <1>0, <2>1, NotArrived DEF HostsAs, Whole
<1> HIDE DEF st, nt, k, g0
<1>12. \A s \in Space, i \in Id : Live(s, i)' <=> Live(s, i) \/ (s = j.to /\ i = j.target)
  <2> SUFFICES ASSUME NEW s \in Space, NEW i \in Id
               PROVE  Live(s, i)' <=> Live(s, i) \/ (s = j.to /\ i = j.target)
    OBVIOUS
  <2>1. CASE s # j.to BY <1>1, <2>1 DEF Live
  <2>2. CASE s = j.to BY <1>7, <2>2 DEF Live, nt, st
  <2> QED BY <2>1, <2>2
<1>13. CopiedIn(E)'
  <2>1. ASSUME NEW h \in Host \ deleted PROVE \E s \in E, g \in Gen : Live(s, <<h, g>>)'
    <3>1. PICK s \in E, g \in Gen : Live(s, <<h, g>>) BY DEF HostsAs, CopiedIn
    <3>2. <<h, g>> \in Id BY <2>1, <3>1 DEF Id
    <3> QED BY <1>12, <3>1, <3>2
  <2>2. ASSUME NEW s \in Space, NEW i \in Id, Live(s, i)', i[1] \notin deleted PROVE s \in E
    BY <1>12, <2>2 DEF HostsAs, CopiedIn
  <2> QED BY <1>3, <2>1, <2>2 DEF CopiedIn
<1>14. OnceBut(j = j, j)'
  <2> SUFFICES ASSUME NEW s \in Space, NEW t \in Space, NEW i \in Id, NEW x \in Id, Twice(s, i, t, x)'
               PROVE  PairOf(j, s, i, t, x) \/ PairOf(j, t, x, s, i)
    BY DEF OnceBut, PairOf
  <2>1. i[1] = x[1] /\ i[1] \notin deleted /\ <<s, i>> # <<t, x>> BY <1>3 DEF Twice
  <2>2. (Live(s, i) \/ (s = j.to /\ i = j.target)) /\ (Live(t, x) \/ (t = j.to /\ x = j.target)) BY <1>12 DEF Twice
  <2>3. ASSUME NEW y \in Space, NEW z \in Id, Live(y, z), z[1] = j.target[1], z[1] \notin deleted
        PROVE  y = j.from /\ z = j.host
    <3>1. Live(j.from, j.host) /\ z[1] = j.host[1] BY <1>0, <1>5, <2>3
    <3>2. ~Twice(y, z, j.from, j.host) BY <1>0, <1>11, <2>3 DEF Once
    <3>3. <<y, z>> = <<j.from, j.host>> BY <2>3, <3>1, <3>2 DEF Twice
    <3> QED BY <3>3
  <2>4. CASE Live(s, i) /\ Live(t, x) BY <1>11, <2>1, <2>4 DEF Once, Twice
  <2>5. CASE s = j.to /\ i = j.target
    <3>1. Live(t, x) BY <2>1, <2>2, <2>5
    <3>2. t = j.from /\ x = j.host BY <2>1, <2>3, <2>5, <3>1
    <3> QED BY <1>0, <2>5, <3>2
  <2>6. CASE t = j.to /\ x = j.target
    <3>1. Live(s, i) BY <2>1, <2>2, <2>6
    <3>2. s = j.from /\ i = j.host BY <2>1, <2>3, <2>6, <3>1
    <3> QED BY <1>0, <2>6, <3>2
  <2> QED BY <2>2, <2>4, <2>5, <2>6
<1>15. JourOK(j)'
  <2>1. j.host[1] \notin deleted => Live(j.from, j.host)' BY <1>0, <1>5, <1>12
  <2> QED BY <1>3, <2>1 DEF JourOK
<1>16. Whole'
  <2>1. WholeIn(nt)
    <3>1. ASSUME NEW i \in Id
          PROVE  /\ nt.host[i] = "live" => nt.known /\ (i[1] \in Keyed => nt.uses[i] # 0)
                 /\ nt.host[i] = "live" /\ nt.uses[i] # 0 => nt.key[nt.uses[i]] = "live"
                 /\ nt.uses[i] # 0 => nt.key[nt.uses[i]] # "none"
                 /\ nt.host[i] = "none" => nt.uses[i] = 0
      <4>1. nt.known BY <1>1, <1>6 DEF nt
      <4>2. st.uses[i] \in {0} \cup Gen BY <1>4 DEF st
      <4>3. CASE i # j.target
        <5>1. nt.host[i] = st.host[i] /\ nt.uses[i] = st.uses[i] BY <1>7, <1>8, <4>3
        <5>2. st.uses[i] # 0 => nt.key[st.uses[i]] \in {st.key[st.uses[i]], "live"} BY <1>9, <4>2
        <5>3. /\ st.host[i] = "live" => (i[1] \in Keyed => st.uses[i] # 0)
              /\ st.host[i] = "live" /\ st.uses[i] # 0 => st.key[st.uses[i]] = "live"
              /\ st.uses[i] # 0 => st.key[st.uses[i]] # "none"
              /\ st.host[i] = "none" => st.uses[i] = 0
          BY <1>11 DEF WholeIn
        <5> QED BY <4>1, <5>1, <5>2, <5>3
      <4>4. CASE i = j.target
        <5>1. nt.host[i] = "live" /\ nt.uses[i] = IF k = 0 THEN 0 ELSE g0 BY <1>7, <1>8, <4>4
        <5>2. k # 0 => g0 \in Gen /\ nt.key[g0] = "live" BY <1>1, <1>9 DEF k, g0, st
        <5> QED BY <1>0, <1>6, <1>10, <4>1, <4>4, <5>1, <5>2
      <4> QED BY <4>3, <4>4
    <3> QED BY <3>1 DEF WholeIn
  <2> QED BY <1>0, <1>1, <2>1 DEF HostsAs, Whole, nt
<1>17. ASSUME NEW G \in SUBSET Space, NeatIn(G, j) PROVE NeatIn(G, j)'
  <2> SUFFICES ASSUME NEW s \in G, NEW g \in Gen, Orphan(s, g)'
               PROVE  j # NoJournal /\ j.from = s /\ store'[s].uses[j.host] = g
    BY DEF NeatIn
  <2>1. CASE s # j.to
    <3>1. store'[s] = store[s] BY <1>1, <2>1
    <3>2. Orphan(s, g) BY <1>3, <3>1 DEF Orphan
    <3> QED BY <1>17, <3>1, <3>2 DEF NeatIn
  <2>2. CASE s = j.to
    <3>1. /\ nt.key[g] = "live" /\ \E i \in Id : nt.uses[i] = g
          /\ \A i \in Id : nt.uses[i] = g => nt.host[i] = "dead" /\ i[1] \notin deleted
      BY <1>3, <2>2 DEF Orphan, nt
    <3>2. nt.uses[j.target] # g BY <1>0, <1>7, <3>1
    <3>3. ~(k # 0 /\ g = g0) BY <1>0, <1>8, <3>2
    <3>4. st.key[g] = "live" BY <1>9, <3>1, <3>3
    <3>5. st.uses[j.target] # g BY <1>0, <1>5, <1>10, <1>11 DEF WholeIn, st
    <3>6. \A i \in Id : st.uses[i] = g <=> nt.uses[i] = g BY <1>8, <3>2, <3>5
    <3>7. \A i \in Id : st.uses[i] = g => st.host[i] = "dead" /\ i[1] \notin deleted
      BY <1>7, <3>1, <3>5, <3>6
    <3>8. Orphan(s, g) BY <2>2, <3>1, <3>4, <3>6, <3>7 DEF Orphan, st
    <3> QED BY <1>0, <1>17, <2>2, <3>8 DEF NeatIn
  <2> QED BY <2>1, <2>2
<1> QED BY <1>0, <1>12, <1>13, <1>14, <1>15, <1>16, <1>17 DEF HostsAs

\* drop_moved_host: the host is at the new end only.
LEMMA HostDropped ==
  ASSUME Inv, Drop, StepOf("DropHost"), NEW E \in SUBSET Space, NEW F \in SUBSET Space, NEW j \in Entry,
         HostsAs(E, F, j, j), Step.at = j.from, Step.id = j.host, j.to \in E,
         j.host[1] \notin deleted => Live(j.to, j.target)
  PROVE  HostsAs(E, F, j, j)' /\ Once'
<1>0. /\ j.from \in Space /\ j.to \in Space /\ j.host \in Id /\ j.target \in Id
      /\ j.from # j.to /\ j.host[1] = j.target[1] /\ j # NoJournal
      /\ PairOf(j, j.from, j.host, j.to, j.target)
  BY EntryFields
<1>1. /\ \A s \in Space : s # j.from => store'[s] = store[s]
      /\ store'[j.from].host = [store[j.from].host EXCEPT ![j.host] = IF @ = "live" THEN "dead" ELSE @]
      /\ store'[j.from].uses = store[j.from].uses /\ store'[j.from].key = store[j.from].key
      /\ store'[j.from].known = store[j.from].known
  BY DropIs DEF StepOf
<1>2. deleted' = deleted BY MoveFrames
<1>3. store[j.from].host \in [Id -> State] BY <1>0, Basics, StoreFields
<1>4. \A i \in Id : store'[j.from].host[i] =
                      IF i = j.host /\ store[j.from].host[i] = "live" THEN "dead" ELSE store[j.from].host[i]
  BY <1>0, <1>1, <1>3
<1>5. \A s \in Space, i \in Id : Live(s, i)' <=> Live(s, i) /\ ~(s = j.from /\ i = j.host)
  <2> SUFFICES ASSUME NEW s \in Space, NEW i \in Id
               PROVE  Live(s, i)' <=> Live(s, i) /\ ~(s = j.from /\ i = j.host)
    OBVIOUS
  <2>1. CASE s # j.from BY <1>1, <2>1 DEF Live
  <2>2. CASE s = j.from BY <1>4, <2>2 DEF Live
  <2> QED BY <2>1, <2>2
<1>6. CopiedIn(E)'
  <2>1. ASSUME NEW h \in Host \ deleted PROVE \E s \in E, g \in Gen : Live(s, <<h, g>>)'
    <3>1. PICK s \in E, g \in Gen : Live(s, <<h, g>>) BY DEF HostsAs, CopiedIn
    <3>2. <<h, g>> \in Id BY <2>1, <3>1 DEF Id
    <3>3. CASE s = j.from /\ <<h, g>> = j.host
      <4>1. Live(j.to, j.target) /\ j.target[1] = h BY <1>0, <2>1, <3>3
      <4>2. PICK k \in Gen : j.target = <<h, k>> BY <1>0, <4>1 DEF Id
      <4>3. Live(j.to, <<h, k>>)' BY <1>0, <1>5, <4>1, <4>2
      <4> QED BY <4>3
    <3>4. CASE ~(s = j.from /\ <<h, g>> = j.host) BY <1>5, <3>1, <3>2, <3>4
    <3> QED BY <3>3, <3>4
  <2>2. ASSUME NEW s \in Space, NEW i \in Id, Live(s, i)', i[1] \notin deleted PROVE s \in E
    BY <1>5, <2>2 DEF HostsAs, CopiedIn
  <2> QED BY <1>2, <2>1, <2>2 DEF CopiedIn
<1>7. Once'
  <2> SUFFICES ASSUME NEW s \in Space, NEW t \in Space, NEW i \in Id, NEW x \in Id, Twice(s, i, t, x)'
               PROVE  FALSE
    BY DEF Once
  <2>1. Twice(s, i, t, x) BY <1>2, <1>5 DEF Twice
  <2>2. PairOf(j, s, i, t, x) \/ PairOf(j, t, x, s, i) BY <2>1 DEF HostsAs, OnceBut
  <2>3. (j.from = s /\ j.host = i) \/ (j.from = t /\ j.host = x) BY <2>2 DEF PairOf
  <2> QED BY <1>5, <2>3 DEF Twice
<1>8. OnceBut(j = j, j)' BY <1>7 DEF Once, OnceBut
<1>9. JourOK(j)' BY <1>0, <1>2, <1>5 DEF JourOK
<1>10. Whole'
  <2>1. WholeIn(store[j.from]) BY <1>0 DEF HostsAs, Whole
  <2>4. /\ store'[j.from].uses = store[j.from].uses /\ store'[j.from].key = store[j.from].key
        /\ store'[j.from].known = store[j.from].known
    BY <1>1
  <2>2. WholeIn(store'[j.from]) BY <1>4, <2>1, <2>4 DEF WholeIn
  <2>3. \A s \in Space : s # j.from => WholeIn(store'[s]) BY <1>1 DEF HostsAs, Whole
  <2> QED BY <2>2, <2>3 DEF Whole
<1>11. ASSUME NEW s \in Space, NEW g \in Gen, Orphan(s, g)', ~Orphan(s, g)
       PROVE  s = j.from /\ store'[s].uses[j.host] = g
  <2>1. s = j.from
    <3>1. s # j.from => store'[s] = store[s] BY <1>1
    <3> QED BY <1>2, <1>11, <3>1 DEF Orphan
  <2>2. store'[s].uses = store[s].uses /\ store'[s].key = store[s].key BY <1>1, <2>1
  <2>3. PICK i \in Id : store[s].uses[i] = g /\ ~(store[s].host[i] = "dead" /\ i[1] \notin deleted)
    BY <1>11, <2>2 DEF Orphan
  <2>4. store'[s].host[i] = "dead" /\ i[1] \notin deleted BY <1>2, <1>11, <2>2, <2>3 DEF Orphan
  <2>5. i = j.host BY <1>4, <2>1, <2>3, <2>4
  <2> QED BY <2>1, <2>2, <2>3, <2>5
<1>12. ASSUME NEW s \in Space, NEW g \in Gen, Orphan(s, g), j.from = s, store[s].uses[j.host] = g
       PROVE  store'[s].uses[j.host] = g
  BY <1>1, <1>12
<1>13. ASSUME NEW D \in SUBSET Space, NeatIn(D, j) PROVE NeatIn(D, j)'
  <2> SUFFICES ASSUME NEW s \in D, NEW g \in Gen, Orphan(s, g)'
               PROVE  j.from = s /\ store'[s].uses[j.host] = g
    BY <1>0 DEF NeatIn
  <2>0. s \in Space OBVIOUS
  <2>1. CASE Orphan(s, g)
    <3>1. j.from = s /\ store[s].uses[j.host] = g BY <1>13, <2>1 DEF NeatIn
    <3> QED BY <1>12, <2>0, <2>1, <3>1
  <2>2. CASE ~Orphan(s, g) BY <1>11, <2>0, <2>2
  <2> QED BY <2>1, <2>2
<1> QED BY <1>6, <1>7, <1>8, <1>9, <1>10, <1>13 DEF HostsAs

\* A step that leaves the hosts alone and every key that is needed, and leaves none
\* over.
LEMMA HostsKept ==
  ASSUME NEW E \in SUBSET Space, NEW F \in SUBSET Space, NEW j \in Entry \cup {NoJournal},
         NEW k \in Entry \cup {NoJournal}, HostsAs(E, F, j, k),
         deleted' = deleted,
         \A s \in Space : store'[s].host = store[s].host /\ store'[s].uses = store[s].uses,
         Whole', \A s \in Space, g \in Gen : Orphan(s, g)' => Orphan(s, g)
  PROVE  HostsAs(E, F, j, k)' /\ (Once => Once') /\ (CleanIn(E) => CleanIn(E)')
<1>1. \A s \in Space, i \in Id : Live(s, i)' <=> Live(s, i) BY DEF Live
<1>2. \A s, t \in Space, i, x \in Id : Twice(s, i, t, x)' <=> Twice(s, i, t, x)
  <2> SUFFICES ASSUME NEW s \in Space, NEW t \in Space, NEW i \in Id, NEW x \in Id
               PROVE  Twice(s, i, t, x)' <=> Twice(s, i, t, x)
    OBVIOUS
  <2> QED BY <1>1 DEF Twice
<1>3. CopiedIn(E)'
  <2>1. ASSUME NEW h \in Host \ deleted PROVE \E s \in E, g \in Gen : Live(s, <<h, g>>)'
    <3>1. PICK s \in E, g \in Gen : Live(s, <<h, g>>) BY DEF HostsAs, CopiedIn
    <3>2. <<h, g>> \in Id BY <2>1, <3>1 DEF Id
    <3> QED BY <1>1, <3>1, <3>2
  <2>2. ASSUME NEW s \in Space, NEW i \in Id, Live(s, i)', i[1] \notin deleted PROVE s \in E
    BY <1>1, <2>2 DEF HostsAs, CopiedIn
  <2> QED BY <2>1, <2>2 DEF CopiedIn
<1>4. OnceBut(j = k, j)'
  <2>1. OnceBut(j = k, j) BY DEF HostsAs
  <2> QED BY <1>2, <2>1 DEF OnceBut, PairOf
<1>5. ASSUME NEW e \in Entry \cup {NoJournal}, JourOK(e) PROVE JourOK(e)'
  <2>1. CASE e = NoJournal BY <2>1 DEF JourOK
  <2>2. CASE e \in Entry BY <1>1, <1>5, <2>2, EntryFields DEF JourOK
  <2> QED BY <2>1, <2>2
<1>6. ASSUME j \notin {NoJournal, k} PROVE Unsent(j)'
  <2>1. Unsent(j) /\ j \in Entry BY <1>6 DEF HostsAs
  <2>2. j.to \in Space BY <2>1, EntryFields
  <2> QED BY <2>1, <2>2 DEF Unsent
<1>7. ASSUME NEW D \in SUBSET Space, NEW e \in Entry \cup {NoJournal}, NeatIn(D, e) PROVE NeatIn(D, e)'
  <2> SUFFICES ASSUME NEW s \in D, NEW g \in Gen, Orphan(s, g)'
               PROVE  e # NoJournal /\ e.from = s /\ store'[s].uses[e.host] = g
    BY DEF NeatIn
  <2>0. s \in Space OBVIOUS
  <2>1. Orphan(s, g) BY <2>0
  <2>2. e # NoJournal /\ e.from = s /\ store[s].uses[e.host] = g BY <1>7, <2>1 DEF NeatIn
  <2> QED BY <2>0, <2>2
<1>8. Once => Once' BY <1>2 DEF Once
<1>9. CleanIn(E) => CleanIn(E)' BY DEF CleanIn
<1> QED BY <1>3, <1>4, <1>5, <1>6, <1>7, <1>8, <1>9 DEF HostsAs

\* drop_moved_host: the key has gone unless another host uses it.
LEMMA KeyDropped ==
  ASSUME Inv, Drop, StepOf("DropKey"), NEW E \in SUBSET Space, NEW F \in SUBSET Space, NEW j \in Entry,
         NEW k \in Entry \cup {NoJournal},
         HostsAs(E, F, j, k), Step.at = j.from, Step.id = j.host, Once
  PROVE  HostsAs(E, F, j, k)' /\ Once' /\ CleanIn(E)'
<1>0. j.from \in Space /\ j.host \in Id BY EntryFields
<1>1. /\ \A s \in Space : s # j.from => store'[s] = store[s]
      /\ store'[j.from].host = store[j.from].host
      /\ store'[j.from].uses = store[j.from].uses
      /\ store'[j.from].known = store[j.from].known
      /\ \A g \in Gen : store'[j.from].key[g] =
           IF /\ g = store[j.from].uses[j.host] /\ store[j.from].key[g] = "live"
              /\ ~\E i \in Id : store[j.from].host[i] = "live" /\ store[j.from].uses[i] = g
           THEN "dead" ELSE store[j.from].key[g]
  BY DropIs DEF StepOf
<1>2. deleted' = deleted BY MoveFrames
<1>3. \A s \in Space : store'[s].host = store[s].host /\ store'[s].uses = store[s].uses BY <1>1
<1>4. Whole'
  <2>1. WholeIn(store[j.from]) BY <1>0 DEF HostsAs, Whole
  <2>2. \A i \in Id : store[j.from].uses[i] \in {0} \cup Gen BY <1>0, Basics, StoreFields
  <2>3. WholeIn(store'[j.from])
    <3> SUFFICES ASSUME NEW i \in Id
                 PROVE  /\ store[j.from].host[i] = "live" => store[j.from].known /\ (i[1] \in Keyed => store[j.from].uses[i] # 0)
                        /\ store[j.from].host[i] = "live" /\ store[j.from].uses[i] # 0 => store'[j.from].key[store[j.from].uses[i]] = "live"
                        /\ store[j.from].uses[i] # 0 => store'[j.from].key[store[j.from].uses[i]] # "none"
                        /\ store[j.from].host[i] = "none" => store[j.from].uses[i] = 0
      BY <1>1 DEF WholeIn
    <3> QED BY <1>1, <2>1, <2>2, SMTT(20) DEF WholeIn
  <2>4. \A s \in Space : s # j.from => WholeIn(store'[s]) BY <1>1 DEF HostsAs, Whole
  <2> QED BY <2>3, <2>4 DEF Whole
<1>5. \A s \in Space, g \in Gen : store'[s].key[g] = "live" => store[s].key[g] = "live" BY <1>0, <1>1
<1>6. \A s \in Space, g \in Gen : Orphan(s, g)' => Orphan(s, g) BY <1>2, <1>3, <1>5 DEF Orphan
<1>7. CleanIn(E)'
  <2> SUFFICES ASSUME NEW s \in E, NEW g \in Gen, Orphan(s, g)' PROVE FALSE BY DEF CleanIn
  <2>1. Orphan(s, g) BY <1>6
  <2>2. j.from = s /\ store[s].uses[j.host] = g BY <2>1 DEF HostsAs, NeatIn
  <2>3. ~\E i \in Id : store[s].host[i] = "live" /\ store[s].uses[i] = g BY <2>1 DEF Orphan
  <2>4. store[s].key[g] = "live" BY <2>1 DEF Orphan
  <2>5. store'[s].key[g] = "dead" BY <1>1, <2>2, <2>3, <2>4
  <2> QED BY <2>5 DEF Orphan
<1> QED BY <1>2, <1>3, <1>4, <1>6, <1>7, HostsKept

\* drop_moved_host: the host key stays with the hosts that need it.
LEMMA KnownDropped ==
  ASSUME Inv, Drop, StepOf("DropKnown"), NEW E \in SUBSET Space, NEW F \in SUBSET Space,
         NEW j \in Entry \cup {NoJournal}, NEW k \in Entry \cup {NoJournal},
         HostsAs(E, F, j, k)
  PROVE  HostsAs(E, F, j, k)' /\ (Once => Once') /\ (CleanIn(E) => CleanIn(E)')
<1>0. Step.at \in Space BY DropIs
<1>1. /\ \A s \in Space : s # Step.at => store'[s] = store[s]
      /\ store'[Step.at].host = store[Step.at].host
      /\ store'[Step.at].uses = store[Step.at].uses
      /\ store'[Step.at].key = store[Step.at].key
      /\ (\E i \in Id : store[Step.at].host[i] = "live") => store'[Step.at].known = store[Step.at].known
  BY DropIs DEF StepOf
<1>2. deleted' = deleted BY MoveFrames
<1>3. \A s \in Space : store'[s].host = store[s].host /\ store'[s].uses = store[s].uses BY <1>1
<1>4. Whole'
  <2>1. WholeIn(store[Step.at]) BY <1>0 DEF HostsAs, Whole
  <2>2. WholeIn(store'[Step.at]) BY <1>1, <2>1 DEF WholeIn
  <2>3. \A s \in Space : s # Step.at => WholeIn(store'[s]) BY <1>1 DEF HostsAs, Whole
  <2> QED BY <2>2, <2>3 DEF Whole
<1>5. \A s \in Space : store'[s].key = store[s].key BY <1>1
<1>6. \A s \in Space, g \in Gen : Orphan(s, g)' => Orphan(s, g) BY <1>2, <1>3, <1>5 DEF Orphan
<1> QED BY <1>2, <1>3, <1>4, <1>6, HostsKept

\* Taking keys along leaves the hosts where they are.
LEMMA KeysTaken ==
  ASSUME Inv, TakeKeys, NEW E \in SUBSET Space, NEW F \in SUBSET Space,
         NEW j \in Entry \cup {NoJournal}, NEW k \in Entry \cup {NoJournal},
         HostsAs(E, F, j, k)
  PROVE  HostsAs(E, F, j, k)' /\ (Once => Once') /\ (CleanIn(E) => CleanIn(E)')
<1>1. \A s \in Space : /\ store'[s].host = store[s].host /\ store'[s].uses = store[s].uses
                       /\ store'[s].known = store[s].known
                       /\ \A g \in Gen : \/ store'[s].key[g] = store[s].key[g]
                                         \/ store'[s].key[g] = "live" /\ store[s].key[g] = "none"
  BY TakeKeysIs
<1>2. deleted' = deleted BY RemoveFrames
<1>3. ASSUME NEW s \in Space PROVE WholeIn(store'[s])
  <2>1. WholeIn(store[s]) BY DEF HostsAs, Whole
  <2>2. \A i \in Id : store[s].uses[i] \in {0} \cup Gen BY Basics, StoreFields
  <2> QED BY <1>1, <2>1, <2>2 DEF WholeIn
<1>4. Whole' BY <1>3 DEF Whole
<1>5. ASSUME NEW s \in Space, NEW g \in Gen, Orphan(s, g)' PROVE Orphan(s, g)
  <2>1. PICK i \in Id : store[s].uses[i] = g BY <1>1, <1>5 DEF Orphan
  <2>2. g # 0 BY DEF Gen
  <2>3. store[s].key[g] # "none" BY <2>1, <2>2 DEF HostsAs, Whole, WholeIn
  <2>4. store[s].key[g] = "live" BY <1>1, <1>5, <2>3 DEF Orphan
  <2> QED BY <1>1, <1>2, <1>5, <2>4 DEF Orphan
<1> QED BY <1>1, <1>2, <1>4, <1>5, HostsKept

------------------------------------------------------------------------------
(* Every step keeps the hosts where they are                                *)

\* No row changes.
LEMMA StillShrinks ==
  ASSUME UNCHANGED <<store, deleted>>
  PROVE  Shrinks
BY DEF Shrinks, ShrunkIn

\* A step that takes rows away at most keeps the hosts where they are.
LEMMA HostsNext ==
  ASSUME Inv, Next, Shrinks, NEW E, NEW F, NEW j, NEW k, HostsAs(E, F, j, k),
         mem'.entries = E, reg'.entries = F, mem'.journal = j, reg'.journal = k
  PROVE  Hosts'
<1>1. mem' \in Registry /\ reg' \in Registry /\ RegOK(mem') /\ RegOK(reg')
  <2>1. Registered' /\ mem' \in Registry /\ reg' \in Registry BY RegisteredStep
  <2>2. RegOK(mem') /\ RegOK(reg') BY <2>1 DEF Registered, RegOK
  <2> QED BY <2>1, <2>2
<1>2. E \in SUBSET Space /\ F \in SUBSET Space BY <1>1, RegFields
<1>3. j \in Entry \cup {NoJournal} /\ k \in Entry \cup {NoJournal} BY <1>1 DEF RegOK
<1>4. HostsAs(E, F, j, k)' BY <1>2, <1>3, HostsShrunk
<1> QED BY <1>4, HostsThen

\* A journal is about two servers of the registry.
LEMMA JournalIn ==
  ASSUME Inv
  PROVE  /\ mem.journal \in Entry \cup {NoJournal} /\ reg.journal \in Entry \cup {NoJournal}
         /\ mem.journal # NoJournal => {mem.journal.from, mem.journal.to} \subseteq mem.entries
BY Basics DEF RegOK

\* The steps that leave both registries alone.
LEMMA HostsStay ==
  ASSUME Inv, Next, UNCHANGED <<mem, reg>>
  PROVE  Hosts'
<1>0. PICK E, F, j, k : E = mem.entries /\ F = reg.entries /\ j = mem.journal /\ k = reg.journal OBVIOUS
<1>1. HostsAs(E, F, j, k) BY <1>0, HostsNow
<1>2. E \in SUBSET Space /\ F \in SUBSET Space BY <1>0, Basics
<1>3. j \in Entry \cup {NoJournal} /\ k \in Entry \cup {NoJournal} BY <1>0, JournalIn
<1>4. mem'.entries = E /\ reg'.entries = F /\ mem'.journal = j /\ reg'.journal = k BY <1>0
<1>5. ASSUME HostsAs(E, F, j, k)' PROVE Hosts' BY <1>4, <1>5, HostsThen
<1>6. CASE Shrinks BY <1>2, <1>3, <1>1, <1>5, <1>6, HostsShrunk
<1>7. CASE Import
  <2>1. CASE UNCHANGED store
    <3>1. Shrinks BY <1>7, <2>1, MoveFrames, StillShrinks
    <3> QED BY <1>6, <3>1
  <2>2. CASE ~UNCHANGED store
    <3>1. Step.j \in Entry /\ StepOf("Import") BY <1>7, ImportIs, StepIs, Basics
    <3>2. mem.journal = Step.j /\ reg.journal = Step.j /\ Fits(Step.j)
      BY <3>1 DEF Inv, MoveOK, AtFirst, StepOf
    <3>3. j = Step.j /\ k = j /\ j \in Entry /\ j.to \in E BY <1>0, <3>1, <3>2 DEF Fits
    <3>4. HostsAs(E, F, j, j)' BY <1>1, <1>2, <1>7, <2>2, <3>3, HostsImported
    <3> QED BY <1>5, <3>3, <3>4
  <2> QED BY <2>1, <2>2
<1>8. CASE Drop
  <2>1. PICK a \in Dropped : StepOf(a) BY <1>8, StepIs, Basics
  <2>2. ~AtFirst({"Note"}) BY <2>1 DEF AtFirst, StepOf, Dropped
  <2>3. mem.journal # NoJournal /\ Step.at = mem.journal.from /\ Step.id = mem.journal.host
    BY <2>1, <2>2 DEF Inv, MoveOK, StepOf
  <2>4. j \in Entry /\ Step.at = j.from /\ Step.id = j.host /\ j.to \in E BY <1>0, <1>3, <2>3, JournalIn
  <2>5. CASE a = "DropHost"
    <3>1. k = j /\ (j.host[1] \notin deleted => Live(j.to, j.target))
      BY <1>0, <2>1, <2>5 DEF Inv, MoveOK, AtFirst, StepOf
    <3> QED BY <1>1, <1>2, <1>5, <1>8, <2>1, <2>4, <2>5, <3>1, HostDropped
  <2>6. CASE a = "DropKey"
    <3>1. Once BY <2>1, <2>6 DEF Inv, MoveOK, AtFirst, StepOf
    <3> QED BY <1>1, <1>2, <1>3, <1>5, <1>8, <2>1, <2>4, <2>6, <3>1, KeyDropped
  <2>7. CASE a = "DropKnown" BY <1>1, <1>2, <1>3, <1>5, <1>8, <2>1, <2>7, KnownDropped
  <2> QED BY <2>1, <2>5, <2>6, <2>7 DEF Dropped
<1>9. CASE TakeKeys BY <1>1, <1>2, <1>3, <1>5, <1>9, KeysTaken
<1> QED BY <1>6, <1>7, <1>8, <1>9, RowsCases

\* Once a server goes, every host in it is deleted.
LEMMA LeftEmpty ==
  ASSUME Inv, StepOf("Unregister"), op.kind = "remove", op.space = Step.at
  PROVE  \A i \in Id : Live(Step.at, i) => i[1] \in deleted
<1> SUFFICES ASSUME NEW i \in Id, Live(Step.at, i), i[1] \notin deleted PROVE FALSE
  OBVIOUS
<1>1. \/ Within({"TakeHosts"})
      \/ \E y \in Todo : y.do = "Begin" /\ y.id = i
      \/ \E y \in Todo : y.do = "DropHost" /\ y.id = i /\ y.at = op.space
  BY DEF Inv, Removing, StepOf
<1>2. PICK y \in Todo : y.do \in {"TakeHosts", "Begin", "DropHost"} BY <1>1 DEF Within
<1>3. Precedes("Unregister", y.do)
  <2>1. y = Step \/ Precedes("Unregister", y.do) BY Behind, Basics
  <2> QED BY <1>2, <2>1 DEF StepOf
<1>4. "Unregister" \in Names /\ y.do \in Names BY <1>2 DEF Names, Placed, Dropped
<1> QED BY <1>2, <1>3, <1>4, Before, RankOrder, Ranks

\* A write fails at the step it belongs to.
LEMMA FailStep ==
  ASSUME Inv, Errs
  PROVE  StepOf(Step.do)
BY FailIs DEF StepOf

\* Note writes the journal.
LEMMA NoteSaved ==
  ASSUME Inv, Note
  PROVE  reg' = mem' /\ RegNote /\ mem'.journal = Step.j
<1>1. mem' = [mem EXCEPT !.journal = Step.j] /\ reg' = mem' BY DEF Note, Persist
<1>2. mem \in Registry BY Basics
<1>3. StepOf("Note") BY Basics, StepIs
<1>4. Step.j \in Entry BY <1>3, NoteIs
<1>5. Step.j \in Journal BY <1>4, EntryFields
<1> QED BY <1>1, <1>2, <1>5, RegFields DEF RegNote

\* Clear takes the journal away.
LEMMA ClearSaved ==
  ASSUME Inv, Clear
  PROVE  reg' = mem' /\ RegNote /\ mem'.journal = NoJournal
<1>1. mem' = [mem EXCEPT !.journal = NoJournal] /\ reg' = mem' BY DEF Clear, Persist
<1>2. mem \in Registry BY Basics
<1> QED BY <1>1, <1>2, RegFields DEF RegNote

\* The registry on disk is the one in memory, or as it was.
Wrote ==
  \/ reg'.entries = mem'.entries /\ reg'.journal = mem'.journal
  \/ reg'.entries = reg.entries /\ reg'.journal = reg.journal

\* The steps that write the registry keep the hosts where they are.
LEMMA HostsMoved ==
  ASSUME Inv, Next, ~UNCHANGED <<mem, reg>>
  PROVE  Hosts'
<1>0. PICK E, F, j, k : E = mem.entries /\ F = reg.entries /\ j = mem.journal /\ k = reg.journal OBVIOUS
<1>1. HostsAs(E, F, j, k) BY <1>0, HostsNow
<1>2. j \in Entry \cup {NoJournal} /\ k \in Entry \cup {NoJournal} BY <1>0, JournalIn
<1>3. PICK e : e = Step.j OBVIOUS
<1>4. Shape BY Basics
<1>5. CASE /\ Note \/ (Errs /\ Step.do = "Note")
           /\ RegNote /\ mem'.journal = Step.j /\ reg' \in {reg, mem'}
  <2>1. UNCHANGED <<store, deleted>> BY <1>5, MoveFrames, OtherFrames
  <2>2. StepOf("Note") BY <1>4, <1>5, StepIs, FailStep
  <2>3. e \in Entry /\ j = NoJournal /\ Fits(e) BY <1>0, <1>3, <2>2, NoteIs
  <2>4. (e.host[1] \notin deleted => Live(e.from, e.host)) /\ Unsent(e) BY <2>3 DEF Fits, Unsent
  <2>5. HostsAs(E, E, e, e) /\ HostsAs(E, F, e, k) BY <1>1, <2>3, <2>4, HostsNoted
  <2>6. /\ mem'.entries = E /\ mem'.journal = e
        /\ (reg'.entries = E /\ reg'.journal = e) \/ (reg'.entries = F /\ reg'.journal = k)
    BY <1>0, <1>3, <1>5 DEF RegNote
  <2> QED BY <2>1, <2>5, <2>6, HostsNext, StillShrinks
<1>6. CASE /\ Clear \/ (Errs /\ Step.do = "Clear")
           /\ RegNote /\ mem'.journal = NoJournal /\ reg' \in {reg, mem'}
  <2>1. UNCHANGED <<store, deleted>> BY <1>6, MoveFrames, OtherFrames
  <2>2. StepOf("Clear") BY <1>4, <1>6, StepIs, FailStep
  <2>3. Once /\ CleanIn(E) BY <1>0, <2>2 DEF Inv, MoveOK, AtFirst, StepOf, Clean, CleanIn
  <2>4. HostsAs(E, E, NoJournal, NoJournal) /\ HostsAs(E, F, NoJournal, k) BY <1>1, <2>3, HostsCleared
  <2>5. /\ mem'.entries = E /\ mem'.journal = NoJournal
        /\ (reg'.entries = E /\ reg'.journal = NoJournal) \/ (reg'.entries = F /\ reg'.journal = k)
    BY <1>0, <1>6 DEF RegNote
  <2> QED BY <2>1, <2>4, <2>5, HostsNext, StillShrinks
<1>7. CASE /\ UNCHANGED <<store, deleted>> /\ mem'.entries = mem.entries /\ mem'.journal = mem.journal
           /\ Wrote
  <2>1. /\ mem'.entries = E /\ mem'.journal = j
        /\ (reg'.entries = E /\ reg'.journal = j) \/ (reg'.entries = F /\ reg'.journal = k)
    BY <1>0, <1>7 DEF Wrote
  <2>2. HostsAs(E, E, j, j) BY <1>1, HostsSaved
  <2> QED BY <1>1, <1>7, <2>1, <2>2, HostsNext, StillShrinks
<1>8. CASE Opens /\ reg' = reg /\ RegOpen
  <2>1. Shrinks
    <3>1. StepOf("Open") BY <1>4, <1>8, StepIs
    <3>2. ~Import /\ ~TakeKeys /\ ~Drop
      <4>1. Import => Step.do = "Import" BY <1>4, StepIs DEF StepOf
      <4>2. TakeKeys => Step.do = "TakeKeys" BY <1>4, StepIs DEF StepOf
      <4>3. Drop => Step.do \in Dropped BY <1>4, StepIs DEF StepOf
      <4> QED BY <3>1, <4>1, <4>2, <4>3 DEF StepOf, Dropped
    <3> QED BY <3>2, RowsCases
  <2>2. E \subseteq F BY <1>0, Basics
  <2>3. HostsAs(F, F, k, k) BY <1>1, <2>2, HostsRead
  <2>4. mem'.entries = F /\ mem'.journal = k /\ reg'.entries = F /\ reg'.journal = k BY <1>0, <1>8 DEF RegOpen
  <2> QED BY <2>1, <2>3, <2>4, HostsNext
<1>9. CASE /\ Unregister \/ (Errs /\ Step.do = "Unregister")
           /\ RegGone /\ mem.entries = {mem.main, Step.at} /\ Step.at # mem.main
           /\ op.kind = "remove" /\ op.space = Step.at /\ reg' \in {reg, mem'}
  <2>1. UNCHANGED <<store, deleted>> BY <1>9, RemoveFrames, OtherFrames
  <2>2. StepOf("Unregister") BY <1>4, <1>9, StepIs, FailStep
  <2>3. PICK m, a : m = mem.main /\ a = Step.at OBVIOUS
  <2>4. m \in Space /\ a \in Space /\ m # a /\ E = {m, a} BY <1>0, <1>9, <2>3, Basics
  <2>5. \A i \in Id : Live(a, i) => i[1] \in deleted BY <1>9, <2>2, <2>3, LeftEmpty
  <2>6. j # NoJournal => {j.from, j.to} \subseteq {m, a} BY <1>0, <2>4, JournalIn
  <2>7. HostsAs({m}, {m}, NoJournal, NoJournal) /\ HostsAs({m}, F, NoJournal, k)
    BY <1>1, <1>2, <2>4, <2>5, <2>6, HostsUnregistered
  <2>8. /\ mem'.entries = {m} /\ mem'.journal = NoJournal
        /\ (reg'.entries = {m} /\ reg'.journal = NoJournal) \/ (reg'.entries = F /\ reg'.journal = k)
    BY <1>0, <1>9, <2>3 DEF RegGone
  <2> QED BY <2>1, <2>7, <2>8, HostsNext, StillShrinks
<1>10. CASE /\ (Register /\ reg' = mem' /\ RegNew) \/ (Errs /\ Step.do = "Register" /\ UNCHANGED mem /\ TornNew)
            /\ mem.entries = {mem.main} /\ Step.at = pending /\ pending # None
  <2>1. UNCHANGED <<store, deleted>> BY <1>10, OtherFrames
  <2>2. PICK m, p : m = mem.main /\ p = pending OBVIOUS
  <2>3. m \in Space /\ p \in Space /\ E = {m} /\ Unused(p)
    <3>1. Setup BY DEF Inv
    <3>2. pending \in files /\ Unused(pending) BY <1>10, <3>1 DEF Setup
    <3>3. files \subseteq Space BY DEF Inv, Types, TypeOK
    <3> QED BY <1>0, <1>10, <2>2, <3>2, <3>3, Basics
  <2>4. j = NoJournal
    <3>1. j # NoJournal => j.from = m /\ j.to = m BY <1>0, <2>3, JournalIn
    <3> QED BY <1>2, <3>1, EntryFields
  <2>5. HostsAs({m, p}, {m, p}, NoJournal, NoJournal) /\ HostsAs({m}, {m, p}, NoJournal, NoJournal)
    BY <1>1, <2>3, <2>4, HostsRegistered
  <2>6. /\ mem'.entries = {m, p} \/ mem'.entries = {m}
        /\ mem'.journal = NoJournal /\ reg'.entries = {m, p} /\ reg'.journal = NoJournal
    BY <1>0, <1>10, <2>2, <2>4 DEF RegNew, TornNew
  <2> QED BY <2>1, <2>5, <2>6, HostsNext, StillShrinks
<1>11. Swap \/ EndHandover \/ Leave \/ Unleave \/ Errs \/ Skips => UNCHANGED <<store, deleted>>
  BY MoveFrames, RemoveFrames, OtherFrames
<1> USE DEF RegSwap, RegHand, RegLeave, TornSwap, TornLeave, Wrote
<1> QED BY <1>5, <1>6, <1>7, <1>8, <1>9, <1>10, <1>11, RegIs

\* No step loses a host or leaves it in two places.
LEMMA HostsStep ==
  ASSUME Inv, Next
  PROVE  Hosts'
BY HostsStay, HostsMoved

=============================================================================
