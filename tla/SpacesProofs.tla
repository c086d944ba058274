---------------------------- MODULE SpacesProofs ----------------------------
(***************************************************************************)
(* Proofs about Spaces, for any servers, hosts and bounds: wherever a move, *)
(* a change of the main server or a removal is cut short by a crash or a    *)
(* failed write, every host is in one place with what it needs, the stores  *)
(* match the registry, and the chain of keys and the personal records       *)
(* follow the main server.                                                  *)
(***************************************************************************)
EXTENDS SpacesInvariant

------------------------------------------------------------------------------
(* The steps of a move fit the journal                                      *)

\* What happens beside the operation takes rows away at most.
LEMMA AsideShrinks ==
  ASSUME Inv, Aside
  PROVE  Shrinks /\ UNCHANGED <<mem, reg>> /\ (\A s \in Space, i \in Id : store[s].host[i] = "none" => store'[s].host[i] = "none")
<1>1. UNCHANGED <<mem, reg>> BY AsideIs
<1>2. Shrinks
  <2>1. CASE (\E i \in Id : DeleteHost(i)) \/ (\E s \in Space, i \in Id : PassPull(s, i))
    <3>1. PICK s \in Space, i \in Id : Deleting(s, i) BY <2>1, DeleteCases
    <3>2. i[1] \in deleted' /\ deleted \subseteq deleted' BY <3>1 DEF Deleting
    <3>3. ShrunkIn(s)
      <4>1. store[s].host \in [Id -> State] BY Basics, StoreFields
      <4>2. Live(s, i) BY <3>1 DEF Deleting
      <4>3. /\ store'[s].host = [store[s].host EXCEPT ![i] = "dead"]
            /\ store'[s].uses = store[s].uses /\ store'[s].key = store[s].key /\ store'[s].known = store[s].known
        BY <3>1, DeletingIs
      <4> QED BY <3>2, <4>1, <4>2, <4>3 DEF ShrunkIn, Live
    <3>4. \A t \in Space : t # s => ShrunkIn(t) BY <3>1, DeletingIs DEF ShrunkIn
    <3> QED BY <3>2, <3>3, <3>4 DEF Shrinks
  <2>2. ASSUME deleted' = deleted, \A s \in Space : SameRows(store[s], store'[s]) PROVE Shrinks
    BY <2>2 DEF Shrinks, ShrunkIn, SameRows
  <2>3. ASSUME UNCHANGED <<deleted, store>> PROVE Shrinks BY <2>3, StillShrinks
  <2>4. CASE Unlock BY <2>2, <2>4, UnlockIs, OtherFrames
  <2>5. CASE Lock BY <2>3, <2>5, OtherFrames
  <2>6. CASE \E v \in 0 .. MaxOps : EditDoc(v) BY <2>2, <2>6, EditDocIs, OtherFrames
  <2>7. CASE Rechaining
    <3>1. \A s \in Space : SameRows(store[s], store'[s]) BY <2>7, RechainIs DEF Rechaining
    <3> QED BY <2>2, <2>7, <3>1, OtherFrames
  <2>8. CASE (\E s \in Space : UnlockSpace(s)) \/ (\E m \in Space : RechainEnds(m)) \/ (\E s \in Space : PassBegin(s)) \/ (\E s \in Space : PassCheck(s)) \/ (\E s \in Space : PassEnd(s))
    BY <2>3, <2>8, OtherFrames
  <2> QED BY <2>1, <2>4, <2>5, <2>6, <2>7, <2>8 DEF Aside
<1> QED BY <1>1, <1>2, ShrunkRows

\* Only a removal takes a server out of the registry.
LEMMA EntriesStay ==
  ASSUME Inv, Next
  PROVE  mem.entries \subseteq mem'.entries \/ StepOf("Unregister")
<1>1. Shape BY Basics
<1>2. Unregister \/ (Errs /\ Step.do = "Unregister") => StepOf("Unregister") BY <1>1, StepIs, FailStep
<1>3. mem.main \in mem.entries /\ mem.entries \subseteq reg.entries BY Basics
<1>4. \/ UNCHANGED mem \/ RegNote \/ RegHand \/ RegLeave \/ RegSwap
      \/ Unregister \/ (Errs /\ Step.do = "Unregister")
      \/ RegNew /\ mem.entries = {mem.main}
      \/ RegOpen
  BY RegIs
<1> QED BY <1>2, <1>3, <1>4 DEF RegNote, RegHand, RegLeave, RegSwap, RegNew, RegOpen

\* What comes before the steps of a move.
LEMMA BeforeMoved ==
  ASSUME NEW a \in Names, NEW b \in Names, Precedes(a, b)
  PROVE  /\ b = "DropHost" => a \in {"Note", "Import"}
         /\ b = "DropKey" => a \in {"Note", "Import", "DropHost"}
         /\ b = "DropKnown" => a \in {"Note", "Import", "DropHost", "DropKey"}
         /\ b = "Clear" => a \in {"Note", "Import", "DropHost", "DropKey", "DropKnown"}
         /\ b = "Begin" => a # "Unregister"
BY Ranks, RankOrder, Before DEF Repeated

\* What comes first after a step that goes on.
LEMMA NextFirst ==
  ASSUME Inv, Next, Goes, todo' # <<>>
  PROVE  \/ Popped
         \/ Recover /\ mem.journal # NoJournal /\ ~Arrived(mem.journal) /\ Step'.do = "Clear"
         \/ /\ Recover /\ mem.journal # NoJournal /\ Arrived(mem.journal)
            /\ Step' = DoHost("DropHost", mem.journal.from, mem.journal.host)
         \/ Begin /\ Step'.do \in {"Unleave", "Failed"}
         \/ Begin /\ Step' = BeginNote
         \/ Settle /\ Step'.do \in {"Promote", "Unstage"}
         \/ HandOn /\ Step'.do = "Personal"
         \/ TakeHosts /\ Step'.do \in {"Recover", "TakeKeys"}
         \/ Opens /\ Step'.do = "Settle"
<1>0. Shape /\ mem \in Registry /\ RegOK(mem) /\ store \in [Space -> StoreSet] BY Basics
<1>1. CASE Recover
  <2>1. CASE mem.journal = NoJournal BY <1>0, <1>1, <2>1, RecoverList
  <2>2. CASE mem.journal # NoJournal /\ ~Arrived(mem.journal)
    <3>1. Step' = Do("Clear") BY <1>0, <1>1, <2>2, RecoverList DEF Spliced
    <3> QED BY <1>1, <2>2, <3>1 DEF Do
  <2>3. CASE mem.journal # NoJournal /\ Arrived(mem.journal)
    <3>1. Step' = DoHost("DropHost", mem.journal.from, mem.journal.host)
      BY <1>0, <1>1, <2>3, RecoverList DEF Spliced
    <3> QED BY <1>1, <2>3, <3>1
  <2> QED BY <2>1, <2>2, <2>3
<1>2. CASE Begin
  <2>1. Step.from # Step.to
    <3>1. StepOf("Begin") BY <1>0, <1>2, StepIs
    <3> QED BY <3>1 DEF Inv, MoveOK, StepOf
  <2>2. CASE Fallen({})
    <3>1. Step'.do \in {"Unleave", "Failed"} BY <2>2 DEF Fallen
    <3> QED BY <1>2, <3>1
  <2>3. CASE Spliced({BeginNote, BeginImport} \cup Drops(Step.from, Step.id) \cup {Do("Clear")}, BeginNote)
    <3>1. Step' = BeginNote BY <2>3 DEF Spliced
    <3> QED BY <1>2, <3>1
  <2> QED BY <1>0, <1>2, <2>1, <2>2, <2>3, BeginList
<1>3. CASE Settle
  <2>1. PICK M, f : /\ Spliced(M, f)
                    /\ mem.handover = None => \A x \in M : x.do = "Unstage" /\ x.at \in mem.entries
                    /\ mem.handover # None => f.do = "Promote"
    BY <1>0, <1>3, SettleList
  <2>2. Step' = f /\ f \in M BY <2>1 DEF Spliced
  <2>3. f.do \in {"Promote", "Unstage"} BY <2>1, <2>2
  <2> QED BY <1>3, <2>2, <2>3
<1>4. CASE HandOn
  <2>1. StepOf("HandOn") BY <1>0, <1>4, StepIs
  <2>2. Other(Step.at) \in mem.entries /\ Other(Step.at) # Step.at BY <2>1, RemovalOf DEF StepOf
  <2>3. CASE mem.main = Step.at
    <3>1. Step' = DoIn("Personal", Other(Step.at)) BY <1>0, <1>4, <2>2, <2>3, HandOnList DEF Spliced
    <3> QED BY <1>4, <3>1 DEF DoIn
  <2>4. CASE mem.main # Step.at BY <1>0, <1>4, <2>2, <2>4, HandOnList
  <2> QED BY <2>3, <2>4
<1>5. CASE TakeHosts
  <2>1. StepOf("TakeHosts") BY <1>0, <1>5, StepIs
  <2>2. Other(Step.at) \in Space BY <2>1, RemovalOf, Basics DEF StepOf
  <2>3. PICK M, f : Spliced(M, f) /\ f.do \in {"Recover", "TakeKeys"} BY <1>0, <1>5, <2>2, TakeHostsList
  <2>4. Step' = f BY <2>3 DEF Spliced
  <2> QED BY <1>5, <2>3, <2>4
<1>6. CASE Opens
  <2>1. Step' = Do("Settle") BY <1>6, OpenIs DEF Fresh
  <2> QED BY <1>6, <2>1 DEF Do
<1> QED BY <1>1, <1>2, <1>3, <1>4, <1>5, <1>6 DEF Goes

\* The first step is a Note only when a move begins.
LEMMA NoteFirst ==
  ASSUME Inv, Next, Goes, AtFirst({"Note"})'
  PROVE  Begin /\ Step' = BeginNote
<1>1. todo' # <<>> /\ Step'.do = "Note" BY DEF AtFirst
<1>2. CASE Popped
  <2>1. Old(Step') BY <1>1, <1>2 DEF Popped, Old
  <2>2. Shape /\ todo # <<>> /\ Step \in Todo /\ Todo \subseteq StepSet BY <1>2, Basics DEF Popped
  <2>3. Step.do \in Names /\ Precedes(Step.do, "Note") BY <1>1, <2>1, <2>2, OldIs
  <2> QED BY <2>3 DEF Precedes
<1>3. CASE \/ Recover /\ Step' = DoHost("DropHost", mem.journal.from, mem.journal.host)
  BY <1>1, <1>3 DEF DoHost
<1>4. CASE Begin /\ Step' = BeginNote BY <1>4
<1> QED BY <1>1, <1>2, <1>3, <1>4, NextFirst

\* A step that was there and goes before the others still stands.
LEMMA OldStep ==
  ASSUME Inv, Next, Goes, NEW y \in Todo', Old(y)
  PROVE  /\ y \in Todo /\ y \in StepSet /\ y.do \in Names /\ Step.do \in Names /\ Precedes(Step.do, y.do)
         /\ StepOf(Step.do)
<1>1. Shape /\ todo # <<>> /\ Step \in Todo BY Basics DEF Goes
<1>2. Todo \subseteq StepSet /\ Step \in StepSet BY <1>1, AtStep DEF Doing, Step
<1> QED BY <1>1, <1>2, OldIs DEF StepOf

BeginOK(x)  == x.do = "Begin" => {x.from, x.to} \subseteq mem.entries /\ x.from # x.to
ImportOK(x) == x.do = "Import" => Fits(x.j) /\ Carries(x.j, x.m)
DropOK(x) ==
  x.do \in Dropped =>
    LET j == IF AtFirst({"Note"}) THEN Step.j ELSE mem.journal
    IN j # NoJournal /\ x.at = j.from /\ x.id = j.host

\* A move that is to start is between two servers of the registry.
LEMMA BeginsFit ==
  ASSUME Inv, Next, NEW y \in Todo'
  PROVE  BeginOK(y)'
<1> SUFFICES ASSUME y.do = "Begin" PROVE {y.from, y.to} \subseteq mem'.entries /\ y.from # y.to
  BY DEF BeginOK
<1>1. CASE Aside
  <2>1. Todo' = Todo /\ mem' = mem BY <1>1, AsideIs
  <2> QED BY <2>1 DEF Inv, MoveOK
<1>2. CASE Asking
  <2>1. UNCHANGED mem BY <1>2, Asked
  <2>2. CASE \E i \in Id, s, to \in mem.entries : MoveAsked(i, s, to)
    <3>1. PICK i \in Id, s \in mem.entries, to \in mem.entries : MoveAsked(i, s, to) BY <2>2
    <3>2. y = BeginStep(i, s, to)
      BY <3>1 DEF MoveAsked, Fresh, Do
    <3>3. s # to /\ s \in Space /\ to \in Space BY <3>1, Basics DEF MoveAsked
    <3>4. y.from = s /\ y.to = to BY <3>2, <3>3, BeginFields
    <3> QED BY <2>1, <3>3, <3>4
  <2>3. op'.kind # "move" => y.do # "Begin"
    <3>1. op'.kind \in Kinds /\ y.do \in Allowed(op'.kind) BY <1>2, AskAllowed
    <3>2. op'.kind = "remove" => y.do # "Begin"
      <4>1. SUFFICES ASSUME op'.kind = "remove" PROVE y.do # "Begin" OBVIOUS
      <4>2. PICK s \in mem.entries, keep \in BOOLEAN : RemoveAsked(s, keep) BY <1>2, <4>1, AskedKind
      <4>3. y \in RemoveSteps(s, keep) BY <4>2 DEF RemoveAsked, Fresh
      <4> QED BY <4>3 DEF RemoveSteps, Do, DoIn
    <3> QED BY <1>2, <3>1, <3>2, AskedKind DEF Allowed, SwapNames
  <2> QED BY <1>2, <2>2, <2>3, AskedKind
<1>3. CASE Goes /\ Acts
  <2>1. CASE Old(y)
    <3>1. y \in Todo /\ y.do \in Names /\ Step.do \in Names /\ Precedes(Step.do, y.do) BY <1>3, <2>1, OldStep
    <3>2. Step.do # "Unregister" BY <3>1, BeforeMoved
    <3>3. mem.entries \subseteq mem'.entries BY <3>2, EntriesStay DEF StepOf
    <3> QED BY <3>1, <3>3 DEF Inv, MoveOK
  <2>2. CASE Put(y)
    <3>1. TakeHosts BY <2>2, PutNames
    <3>2. StepOf("TakeHosts") BY <3>1, StepIs, Basics
    <3>3. y.from = Step.at /\ y.to = Other(Step.at)
      <4>1. ~Recover /\ ~Begin /\ ~Settle /\ ~HandOn /\ ~Opens
        BY <3>2, StepIs, Basics DEF StepOf
      <4> QED BY <2>2, <4>1 DEF Put
    <3>4. {Step.at, Other(Step.at)} \subseteq mem.entries /\ Other(Step.at) # Step.at
      BY <3>2, RemovalOf DEF StepOf
    <3>5. UNCHANGED mem BY <3>1, RemoveFrames
    <3> QED BY <3>3, <3>4, <3>5
  <2> QED BY <1>3, <2>1, <2>2 DEF Goes
<1>4. CASE Crash /\ Todo' = {Do("Open")} BY <1>4 DEF Do
<1>5. CASE GivesUp BY <1>5 DEF GivesUp, Fresh, Do, DoIn
<1>6. CASE Falls BY <1>6 DEF Falls, Fallen, FrontOf
<1>7. CASE Failed /\ Todo' = {} BY <1>7
<1> QED BY <1>1, <1>2, <1>3, <1>4, <1>5, <1>6, <1>7, Cases

\* An import that is left fits the journal and the stores.
LEMMA ImportsFit ==
  ASSUME Inv, Next, NEW y \in Todo'
  PROVE  ImportOK(y)'
<1> SUFFICES ASSUME y.do = "Import" PROVE (Fits(y.j) /\ Carries(y.j, y.m))'
  BY DEF ImportOK
<1>1. CASE Aside
  <2>1. Todo' = Todo /\ mem' = mem /\ Shrinks BY <1>1, AsideIs, AsideShrinks
  <2>2. y \in StepSet
    <3>1. todo \in Seq(StepSet) /\ y \in Todo BY <2>1, Basics DEF Shape, ShapeOf
    <3> QED BY <3>1 DEF Todo, Elems
  <2>3. PICK e, m : e = y.j /\ m = y.m OBVIOUS
  <2>4. e \in Entry /\ m \in Luggage BY <2>2, <2>3, StepFields
  <2>5. Fits(e) /\ Carries(e, m) BY <2>1, <2>3 DEF Inv, MoveOK
  <2>6. e.from \in Space /\ e.to \in Space /\ e.host \in Id /\ e.target \in Id BY <2>4, EntryFields
  <2>7. Fits(e)'
    <3>1. deleted \subseteq deleted' BY <2>1 DEF Shrinks
    <3>2. store'[e.to].host[e.target] = "none" BY <2>1, <2>5, <2>6, ShrunkRows DEF Fits
    <3>3. e.host[1] \notin deleted' => Live(e.from, e.host)' BY <2>1, <2>5, <2>6, <3>1, ShrunkRows DEF Fits
    <3> QED BY <2>1, <2>5, <3>2, <3>3 DEF Fits
  <2>8. Carries(e, m)'
    <3>1. m.key # 0 => m.key \in Gen BY <2>4 DEF Luggage
    <3>2. FreshKeys \subseteq Gen BY DEF FreshKeys
    <3>3. FreshKeys # {} => FreshKeys' # {} BY <2>1, <3>2, ShrunkKeys
    <3>4. m.key # 0 /\ store[e.to].key[m.key] # "dead" => store'[e.to].key[m.key] # "dead"
      BY <2>1, <2>6, <3>1, ShrunkKeys
    <3> QED BY <2>5, <3>3, <3>4 DEF Carries
  <2> QED BY <2>3, <2>7, <2>8
<1>2. CASE Asking
  <2>1. y.do \in Allowed(op'.kind) /\ op'.kind \in Kinds BY <1>2, AskAllowed
  <2>2. CASE op'.kind = "move"
    <3>1. PICK i \in Id, s \in mem.entries, to \in mem.entries : MoveAsked(i, s, to) BY <1>2, <2>2, AskedKind
    <3>2. y \in {Do("Recover"), BeginStep(i, s, to), Do("Done")} BY <3>1 DEF MoveAsked, Fresh
    <3> QED BY <3>2 DEF Do, BeginStep
  <2>3. CASE op'.kind = "remove"
    <3>1. PICK s \in mem.entries, keep \in BOOLEAN : RemoveAsked(s, keep) BY <1>2, <2>3, AskedKind
    <3>2. y \in RemoveSteps(s, keep) BY <3>1 DEF RemoveAsked, Fresh
    <3> QED BY <3>2 DEF RemoveSteps, Do, DoIn
  <2> QED BY <1>2, <2>1, <2>2, <2>3, AskedKind DEF Allowed, SwapNames
<1>3. CASE Goes /\ Acts
  <2>1. CASE Old(y)
    <3>1. y \in Todo /\ y.do \in Names /\ Step.do \in Names /\ Precedes(Step.do, y.do) BY <1>3, <2>1, OldStep
    <3>2. Step.do = "Note" BY <3>1, Before
    <3>3. Note BY <1>3, <3>2 DEF Acts
    <3>4. UNCHANGED <<store, deleted>> /\ mem'.entries = mem.entries BY <3>3, MoveFrames, NoteSaved DEF RegNote
    <3>5. PICK e, m : e = y.j /\ m = y.m OBVIOUS
    <3>6. Fits(e) /\ Carries(e, m) BY <3>1, <3>5 DEF Inv, MoveOK
    <3>7. Fits(e)' /\ Carries(e, m)' BY <3>4, <3>6 DEF Fits, Carries, Live, FreshKeys
    <3> QED BY <3>5, <3>7
  <2>2. CASE Put(y)
    <3>1. Begin
      <4>1. Recover \/ Begin BY <2>2, PutNames
      <4>2. Recover => y.do # "Import"
        <5> SUFFICES ASSUME Recover PROVE y.do # "Import" OBVIOUS
        <5>1. ~Begin /\ ~Settle /\ ~HandOn /\ ~TakeHosts /\ ~Opens BY StepIs, Basics DEF StepOf
        <5> QED BY <2>2, <5>1 DEF Put, Drops, DoHost
      <4> QED BY <4>1, <4>2
    <3>2. StepOf("Begin") BY <3>1, StepIs, Basics
    <3>3. {Step.from, Step.to} \subseteq mem.entries /\ Step.from # Step.to BY <3>2 DEF Inv, MoveOK, StepOf
    <3>4. ~Fallen({}) BY DEF Fallen
    <3>5. /\ Live(Step.from, Step.id)
          /\ BeginJournal \in Entry /\ BeginLuggage \in Luggage
          /\ store[Step.to].host[BeginJournal.target] = "none"
          /\ BeginLuggage.key # 0 => FreshKeys # {} \/ store[Step.to].key[BeginLuggage.key] # "dead"
      BY <3>1, <3>3, <3>4, BeginList, Basics
    <3>6. y = BeginImport
      <4>1. ~Recover /\ ~Settle /\ ~HandOn /\ ~TakeHosts /\ ~Opens BY <3>2, StepIs, Basics DEF StepOf
      <4> QED BY <2>2, <4>1 DEF Put, Drops, DoHost, Do, BeginNote
    <3>7. PICK e, m : e = y.j /\ m = y.m OBVIOUS
    <3>8. e = BeginJournal /\ m = BeginLuggage BY <3>6, <3>7 DEF BeginImport
    <3>9. e.host = Step.id /\ e.from = Step.from /\ e.to = Step.to BY <3>8 DEF BeginJournal
    <3>10. Fits(e) BY <3>3, <3>5, <3>8, <3>9, SMTT(20) DEF Fits
    <3>11. Carries(e, m)
      <4>1. m.key = store[Step.from].uses[Step.id] /\ m.known = store[Step.from].known BY <3>8 DEF BeginLuggage
      <4>2. Step.from \in Space /\ Step.id \in Id BY <3>2, StepFields DEF StepOf
      <4>3. WholeIn(store[Step.from]) BY <4>2 DEF Inv, Whole
      <4> QED BY <3>5, <3>8, <3>9, <4>1, <4>2, <4>3 DEF Carries, WholeIn, Live
    <3>12. UNCHANGED <<store, mem, deleted>> BY <3>1, MoveFrames
    <3>13. Fits(e)' /\ Carries(e, m)' BY <3>10, <3>11, <3>12 DEF Fits, Carries, Live, FreshKeys
    <3> QED BY <3>7, <3>13
  <2> QED BY <1>3, <2>1, <2>2 DEF Goes
<1>4. CASE Crash /\ Todo' = {Do("Open")} BY <1>4 DEF Do
<1>5. CASE GivesUp BY <1>5 DEF GivesUp, Fresh, Do, DoIn
<1>6. CASE Falls BY <1>6 DEF Falls, Fallen, FrontOf
<1>7. CASE Failed /\ Todo' = {} BY <1>7
<1> QED BY <1>1, <1>2, <1>3, <1>4, <1>5, <1>6, <1>7, Cases

\* Operations start, and are given up, without a step that drops anything.
LEMMA NoDropsNew ==
  ASSUME Inv, Asking \/ GivesUp \/ Todo' = {Do("Open")} \/ Todo' = {}, NEW y \in Todo'
  PROVE  y.do \notin Dropped \cup {"Import", "Note", "Clear"}
<1>1. CASE Asking
  <2>1. y.do \in Allowed(op'.kind) /\ op'.kind \in Kinds BY <1>1, AskAllowed
  <2>2. CASE op'.kind = "move"
    <3>1. PICK i \in Id, s \in mem.entries, to \in mem.entries : MoveAsked(i, s, to) BY <1>1, <2>2, AskedKind
    <3>2. y \in {Do("Recover"), BeginStep(i, s, to), Do("Done")} BY <3>1 DEF MoveAsked, Fresh
    <3> QED BY <3>2 DEF Do, BeginStep, Dropped
  <2>3. CASE op'.kind = "remove"
    <3>1. PICK s \in mem.entries, keep \in BOOLEAN : RemoveAsked(s, keep) BY <1>1, <2>3, AskedKind
    <3>2. y \in RemoveSteps(s, keep) BY <3>1 DEF RemoveAsked, Fresh
    <3> QED BY <3>2 DEF RemoveSteps, Do, DoIn, Dropped
  <2> QED BY <1>1, <2>1, <2>2, <2>3, AskedKind DEF Allowed, SwapNames, Dropped
<1>2. CASE ~Asking
  <2>1. CASE Todo' = {Do("Open")} BY <2>1 DEF Do, Dropped
  <2>2. CASE GivesUp BY <2>2 DEF GivesUp, Fresh, Do, DoIn, Dropped
  <2> QED BY <1>2, <2>1, <2>2
<1> QED BY <1>1, <1>2

\* What a move puts in front of the rest once it begins.
LEMMA BeginIs ==
  ASSUME Inv, Begin
  PROVE  /\ StepOf("Begin") /\ Step.from \in Space /\ Step.to \in Space /\ Step.id \in Id
         /\ mem.journal = NoJournal
         /\ Fallen({}) \/ Step' = BeginNote
<1>1. StepOf("Begin") BY StepIs, Basics
<1>2. Step.from \in Space /\ Step.to \in Space /\ Step.id \in Id BY <1>1, StepFields DEF StepOf
<1>3. mem.journal = NoJournal BY <1>1 DEF Inv, MoveOK, AtFirst, StepOf
<1>4. Step.from # Step.to BY <1>1 DEF Inv, MoveOK, StepOf
<1>5. Fallen({}) \/ Step' = BeginNote BY <1>4, BeginList, Basics DEF Spliced
<1> QED BY <1>1, <1>2, <1>3, <1>5

\* A drop that is left is about the journal's host.
LEMMA DropsFit ==
  ASSUME Inv, Next, NEW y \in Todo'
  PROVE  DropOK(y)'
<1> SUFFICES ASSUME y.do \in Dropped PROVE DropOK(y)'
  BY DEF DropOK
<1>1. CASE Aside
  <2>1. Todo' = Todo /\ mem' = mem /\ todo' = todo BY <1>1, AsideIs
  <2>2. DropOK(y) BY <2>1 DEF Inv, MoveOK, DropOK
  <2> QED BY <2>1, <2>2 DEF DropOK, AtFirst, Step
<1>2. CASE Goes /\ Acts
  <2>1. CASE Old(y)
    <3>1. /\ y \in Todo /\ y.do \in Names /\ Step.do \in Names /\ Precedes(Step.do, y.do)
          /\ StepOf(Step.do)
      BY <1>2, <2>1, OldStep
    <3>2. DropOK(y) BY <3>1 DEF Inv, MoveOK, DropOK
    <3>3. Step.do \in {"Note", "Import", "DropHost", "DropKey", "DropKnown"} BY <3>1, BeforeMoved DEF Dropped
    <3>4. ~AtFirst({"Note"})'
      <4>1. Begin => StepOf("Begin") BY StepIs, Basics
      <4>2. ~Begin BY <3>3, <4>1 DEF StepOf
      <4> QED BY <1>2, <4>2, NoteFirst
    <3>5. CASE Step.do = "Note"
      <4>1. AtFirst({"Note"}) BY <3>1, <3>5 DEF AtFirst, StepOf
      <4>2. Note BY <1>2, <3>5 DEF Acts
      <4>3. mem'.journal = Step.j BY <4>2, NoteSaved
      <4> QED BY <3>2, <3>4, <4>1, <4>3 DEF DropOK
    <3>6. CASE Step.do # "Note"
      <4>1. ~AtFirst({"Note"}) BY <3>6 DEF AtFirst
      <4>2. Import \/ Drop BY <1>2, <3>3, <3>6 DEF Acts, Dropped
      <4>3. mem' = mem BY <4>2, MoveFrames
      <4> QED BY <3>2, <3>4, <4>1, <4>3 DEF DropOK
    <3> QED BY <3>5, <3>6
  <2>2. CASE Put(y)
    <3>1. Recover \/ Begin BY <2>2, PutNames DEF Dropped
    <3>2. CASE Recover
      <4>1. ~Begin /\ ~Settle /\ ~HandOn /\ ~TakeHosts /\ ~Opens BY <3>2, StepIs, Basics DEF StepOf
      <4>2. mem.journal # NoJournal /\ y \in Drops(mem.journal.from, mem.journal.host)
        BY <2>2, <4>1 DEF Put, Dropped
      <4>3. y.at = mem.journal.from /\ y.id = mem.journal.host BY <4>2 DEF Drops, DoHost
      <4>4. ~AtFirst({"Note"})' BY <1>2, <4>1, NoteFirst
      <4>5. mem' = mem BY <3>2, MoveFrames
      <4> QED BY <4>2, <4>3, <4>4, <4>5 DEF DropOK
    <3>3. CASE Begin
      <4>1. ~Recover /\ ~Settle /\ ~HandOn /\ ~TakeHosts /\ ~Opens BY <3>3, StepIs, Basics DEF StepOf
      <4>2. y \in Drops(Step.from, Step.id)
        BY <2>2, <4>1 DEF Put, Dropped, BeginNote, BeginImport, Do
      <4>3. y.at = Step.from /\ y.id = Step.id BY <4>2 DEF Drops, DoHost
      <4>4. ~Fallen({}) BY DEF Fallen, Dropped
      <4>5. Step' = BeginNote BY <3>3, <4>4, BeginIs
      <4>6. Step'.do = "Note" /\ Step'.j = BeginJournal BY <4>5 DEF BeginNote
      <4>7. todo' # <<>> BY <1>2 DEF Goes, Todo, Elems
      <4>8. AtFirst({"Note"})' BY <4>6, <4>7 DEF AtFirst
      <4>9. BeginJournal # NoJournal /\ BeginJournal.from = Step.from /\ BeginJournal.host = Step.id
        BY <3>3, BeginIs, SpacesAssumption DEF BeginJournal, NoJournal
      <4> QED BY <4>3, <4>6, <4>8, <4>9 DEF DropOK
    <3> QED BY <3>1, <3>2, <3>3
  <2> QED BY <1>2, <2>1, <2>2 DEF Goes
<1>3. CASE Falls BY <1>3 DEF Falls, Fallen, FrontOf, Dropped
<1>4. CASE Asking \/ GivesUp \/ Todo' = {Do("Open")} \/ Todo' = {} BY <1>4, NoDropsNew
<1> QED BY <1>1, <1>2, <1>3, <1>4, Cases

\* What the first step of the list says about the journal.
JournalFirst == AtFirst({"Begin", "Note"}) => mem.journal = NoJournal
ImportFirst  == AtFirst({"Import"}) => mem.journal = Step.j /\ reg.journal = Step.j
DropFirst    ==
  AtFirst({"DropHost"}) =>
    /\ mem.journal = reg.journal
    /\ mem.journal.host[1] \notin deleted => Live(mem.journal.to, mem.journal.target)
OnceFirst    == AtFirst({"DropKey", "DropKnown", "Clear"}) => Once
CleanFirst   == AtFirst({"DropKnown", "Clear"}) => Clean

MoveFirst == JournalFirst /\ ImportFirst /\ DropFirst /\ OnceFirst /\ CleanFirst

Moves == {"Begin", "Note", "Import", "DropHost", "DropKey", "DropKnown", "Clear"}

\* A next step that is none of a move's needs nothing of the journal.
LEMMA FirstOther ==
  ASSUME ~AtFirst(Moves)'
  PROVE  MoveFirst'
BY DEF MoveFirst, JournalFirst, ImportFirst, DropFirst, OnceFirst, CleanFirst, AtFirst, Moves

\* What the next step of a move finds.
LEMMA FirstNow ==
  ASSUME Inv
  PROVE  MoveFirst
BY DEF Inv, MoveOK, MoveFirst, JournalFirst, ImportFirst, DropFirst, OnceFirst, CleanFirst

\* What happens beside the move leaves what its next step finds.
LEMMA FirstAside ==
  ASSUME Inv, Next, Aside
  PROVE  MoveFirst'
<1>1. todo' = todo /\ mem' = mem /\ reg' = reg /\ Step' = Step BY AsideIs DEF Step
<1>2. Shrinks BY AsideShrinks
<1>3. MoveFirst BY FirstNow
<1>4. deleted \subseteq deleted' BY <1>2 DEF Shrinks
<1>5. DropFirst'
  <2> SUFFICES ASSUME AtFirst({"DropHost"}), mem.journal.host[1] \notin deleted'
               PROVE  Live(mem.journal.to, mem.journal.target)'
    BY <1>1, <1>3 DEF MoveFirst, DropFirst, AtFirst
  <2>1. Live(mem.journal.to, mem.journal.target) BY <1>3, <1>4 DEF MoveFirst, DropFirst
  <2>2. mem.journal # NoJournal
    <3>1. Step \in Todo /\ Step.do \in Dropped /\ ~AtFirst({"Note"})
      BY Basics, AtStep DEF AtFirst, Doing, Dropped, Step
    <3> QED BY <3>1 DEF Inv, MoveOK
  <2>3. PICK j : j = mem.journal OBVIOUS
  <2>4. j \in Entry BY <2>2, <2>3, JournalIn
  <2>5. j.to \in Space /\ j.target \in Id /\ j.target[1] = j.host[1] BY <2>4, EntryFields
  <2>6. Live(j.to, j.target)' BY <1>2, <2>1, <2>3, <2>5, ShrunkRows
  <2> QED BY <1>1, <2>3, <2>6 DEF Live
<1>6. Once => Once' BY <1>2, ShrunkOnce DEF Once
<1>7. Clean => Clean'
  <2>1. mem.entries \subseteq Space BY Basics
  <2> QED BY <1>1, <1>2, <2>1, ShrunkOrphan DEF Clean
<1> QED BY <1>1, <1>3, <1>5, <1>6, <1>7 DEF MoveFirst, JournalFirst, ImportFirst, OnceFirst, CleanFirst, AtFirst

\* Where the host of the journal has not come to, nothing is left over and there is
\* one of it.
LEMMA StillOnce ==
  ASSUME Inv, mem.journal # NoJournal, ~Live(mem.journal.to, mem.journal.target)
  PROVE  Once /\ Clean
<1>0. PICK E, F, j, k : E = mem.entries /\ F = reg.entries /\ j = mem.journal /\ k = reg.journal OBVIOUS
<1>1. HostsAs(E, F, j, k) BY <1>0, HostsNow
<1>2. j \in Entry /\ ~Live(j.to, j.target) BY <1>0, JournalIn
<1>3. Once /\ CleanIn(E) BY <1>1, <1>2, NotArrived
<1> QED BY <1>0, <1>3 DEF Clean, CleanIn

\* Where no store and no server changes, the hosts are as they were.
LEMMA HostsFixed ==
  ASSUME UNCHANGED <<store, deleted, mem>>
  PROVE  (Once => Once') /\ (Clean => Clean')
BY DEF Once, Twice, Live, Clean, Orphan

\* After a failure the next step finds what it needs.
LEMMA FirstFalls ==
  ASSUME Inv, Next, Falls
  PROVE  MoveFirst'
<1>1. CASE Step.do # "Import"
  <2>1. ~AtFirst(Moves)' BY <1>1 DEF Falls, Fallen, FrontOf, AtFirst, Moves
  <2> QED BY <2>1, FirstOther
<1>2. CASE Step.do = "Import"
  <2>0. Shape BY Basics
  <2>1. Import \/ Errs
    <3>1. /\ Begin => Step.do = "Begin"
          /\ Personal => Step.do = "Personal"
          /\ StageMain => Step.do = "StageMain"
          /\ StageOther => Step.do = "Stage"
          /\ TakeKeys => Step.do = "TakeKeys"
          /\ TakeTimesOut => Step.do = "TakeRunning"
      BY <2>0, StepIs DEF StepOf
    <3> QED BY <1>2, <3>1 DEF Falls
  <2>2. UNCHANGED <<store, deleted, mem>>
    <3>1. CASE Import BY <3>1, MoveFrames DEF Falls
    <3>2. CASE Errs BY <1>2, <3>2, ErrIs, OtherFrames DEF Dropped
    <3> QED BY <2>1, <3>1, <3>2
  <2>3. StepOf("Import") BY <1>2, <2>0, <2>1, StepIs, FailStep
  <2>4. Step.j \in Entry /\ mem.journal = Step.j /\ Fits(Step.j)
    BY <2>3, StepFields DEF Inv, MoveOK, AtFirst, StepOf
  <2>5. Once /\ Clean
    <3>1. mem.journal # NoJournal BY <2>4, EntryFields
    <3>2. ~Live(mem.journal.to, mem.journal.target) BY <2>4 DEF Fits, Live
    <3> QED BY <3>1, <3>2, StillOnce
  <2>6. Once' /\ Clean' BY <2>2, <2>5, HostsFixed
  <2>7. Step'.do = "Clear" BY <1>2 DEF Falls
  <2> QED BY <2>6, <2>7 DEF MoveFirst, JournalFirst, ImportFirst, DropFirst, OnceFirst, CleanFirst, AtFirst
<1> QED BY <1>1, <1>2

\* The next step may follow the one that was taken.
LEMMA PoppedFirst ==
  ASSUME Inv, Next, Goes, Popped, todo' # <<>>
  PROVE  /\ Follows(Step, Step') /\ Precedes(Step.do, Step'.do) /\ Step.do \in Names /\ Step'.do \in Names
         /\ StepOf(Step.do)
<1>1. Step' \in Todo' /\ Follows(Step, Step') BY DEF Popped
<1>2. Old(Step') BY <1>1 DEF Popped, Old
<1> QED BY <1>1, <1>2, OldStep

\* A move starts without a journal.
LEMMA BeginFirst ==
  ASSUME Inv, Next, Goes, Acts, todo' # <<>>, Step'.do = "Begin"
  PROVE  mem'.journal = NoJournal
<1>1. CASE Popped
  <2>1. Step.do \in {"Recover", "Clear"} BY <1>1, PoppedFirst DEF Follows
  <2>2. CASE Step.do = "Recover"
    <3>1. Recover BY <2>2 DEF Acts
    <3>2. ~Spliced({Do("Clear")}, Do("Clear"))
      BY DEF Spliced, Do
    <3>3. ~Spliced(Drops(mem.journal.from, mem.journal.host) \cup {Do("Clear")},
                   DoHost("DropHost", mem.journal.from, mem.journal.host))
      BY DEF Spliced, DoHost
    <3>4. mem.journal = NoJournal BY <3>1, <3>2, <3>3, RecoverList, Basics
    <3> QED BY <3>1, <3>4, MoveFrames
  <2>3. CASE Step.do = "Clear" BY <2>3, ClearSaved DEF Acts
  <2> QED BY <2>1, <2>2, <2>3
<1>2. CASE ~Popped BY <1>2, NextFirst DEF DoHost, BeginNote
<1> QED BY <1>1, <1>2

\* An import finds its journal in memory and on disk.
LEMMA ImportFirstNext ==
  ASSUME Inv, Next, Goes, Acts, todo' # <<>>, Step'.do = "Import"
  PROVE  mem'.journal = Step'.j /\ reg'.journal = Step'.j
<1>1. CASE Popped
  <2>1. Step.do = "Note" BY <1>1, PoppedFirst, Before
  <2>2. Note BY <2>1 DEF Acts
  <2>3. Step'.j = Step.j BY <1>1, <2>1, PoppedFirst DEF Follows
  <2>4. mem'.journal = Step.j /\ reg' = mem' BY <2>2, NoteSaved
  <2> QED BY <2>3, <2>4
<1>2. CASE ~Popped BY <1>2, NextFirst DEF DoHost, BeginNote
<1> QED BY <1>1, <1>2

\* A host is dropped only when it lives at the new end.
LEMMA DropFirstNext ==
  ASSUME Inv, Next, Goes, Acts, todo' # <<>>, Step'.do = "DropHost"
  PROVE  /\ mem'.journal = reg'.journal
         /\ mem'.journal.host[1] \notin deleted' => Live(mem.journal.to, mem.journal.target)'
<1>1. CASE Popped
  <2>1. Step.do \in {"Note", "Import"} BY <1>1, PoppedFirst, BeforeMoved
  <2>2. Step.do = "Import" BY <1>1, <2>1, PoppedFirst DEF Follows
  <2>3. Import /\ StepOf("Import") BY <2>2, StepIs, Basics DEF Acts
  <2>4. mem.journal = Step.j /\ reg.journal = Step.j /\ Step.j \in Entry
    BY <2>3, StepFields DEF Inv, MoveOK, AtFirst, StepOf
  <2>5. ~Fallen({"Clear"}) BY DEF Fallen
  <2>6. store'[Step.j.to].host = [store[Step.j.to].host EXCEPT ![Step.j.target] = "live"] BY <2>3, <2>5, ImportIs
  <2>7. Step.j.to \in Space /\ Step.j.target \in Id BY <2>4, EntryFields
  <2>8. store[Step.j.to].host \in [Id -> State] BY <2>7, Basics, StoreFields
  <2>9. store'[Step.j.to].host[Step.j.target] = "live" BY <2>6, <2>7, <2>8
  <2>10. mem' = mem /\ reg' = reg BY <2>3, MoveFrames
  <2> QED BY <2>4, <2>9, <2>10 DEF Live
<1>2. CASE ~Popped
  <2>1. Recover /\ mem.journal # NoJournal /\ Arrived(mem.journal)
    BY <1>2, NextFirst DEF BeginNote
  <2>2. UNCHANGED <<mem, reg, store>> BY <2>1, MoveFrames
  <2>3. Live(mem.journal.to, mem.journal.target) BY <2>1 DEF Arrived
  <2>4. mem.journal = reg.journal
    <3>1. store[mem.journal.to].host[mem.journal.target] # "none" BY <2>3 DEF Live
    <3> QED BY <2>1, <3>1 DEF Inv, Journaled
  <2> QED BY <2>2, <2>3, <2>4 DEF Live
<1> QED BY <1>1, <1>2

\* After a step that dropped something from where the host came from.
LEMMA AfterDrop ==
  ASSUME Inv, Next, Drop, NEW a \in Dropped, StepOf(a)
  PROVE  /\ Once'
         /\ a \in {"DropKey", "DropKnown"} => Clean'
<1>0. PICK E, F, j, k : E = mem.entries /\ F = reg.entries /\ j = mem.journal /\ k = reg.journal OBVIOUS
<1>1. HostsAs(E, F, j, k) BY <1>0, HostsNow
<1>2. E \in SUBSET Space /\ F \in SUBSET Space BY <1>0, Basics
<1>3. j \in Entry \cup {NoJournal} /\ k \in Entry \cup {NoJournal} BY <1>0, JournalIn
<1>4. mem'.entries = E BY <1>0, MoveFrames
<1>5. ~AtFirst({"Note"}) BY DEF AtFirst, StepOf, Dropped
<1>6. mem.journal # NoJournal /\ Step.at = mem.journal.from /\ Step.id = mem.journal.host
  BY <1>5 DEF Inv, MoveOK, StepOf
<1>7. j \in Entry /\ Step.at = j.from /\ Step.id = j.host /\ j.to \in E BY <1>0, <1>3, <1>6, JournalIn
<1>8. ASSUME CleanIn(E)' PROVE Clean' BY <1>4, <1>8 DEF Clean, CleanIn
<1>9. CASE a = "DropHost"
  <2>1. k = j /\ (j.host[1] \notin deleted => Live(j.to, j.target))
    BY <1>0, <1>9 DEF Inv, MoveOK, AtFirst, StepOf
  <2> QED BY <1>1, <1>2, <1>7, <1>9, <2>1, HostDropped
<1>10. CASE a = "DropKey"
  <2>1. Once BY <1>10 DEF Inv, MoveOK, AtFirst, StepOf
  <2> QED BY <1>1, <1>2, <1>3, <1>7, <1>8, <1>10, <2>1, KeyDropped
<1>11. CASE a = "DropKnown"
  <2>1. Once /\ Clean BY <1>11 DEF Inv, MoveOK, AtFirst, StepOf
  <2>2. CleanIn(E) BY <1>0, <2>1 DEF Clean, CleanIn
  <2> QED BY <1>1, <1>2, <1>3, <1>8, <1>11, <2>1, <2>2, KnownDropped
<1> QED BY <1>9, <1>10, <1>11 DEF Dropped

\* What follows the drop of a host finds every host once.
LEMMA OnceNext ==
  ASSUME Inv, Next, Goes, Acts, todo' # <<>>, Step'.do \in {"DropKey", "DropKnown", "Clear"}
  PROVE  Once' /\ (Step'.do \in {"DropKnown", "Clear"} => Clean')
<1>1. CASE Popped
  <2>1. Step.do \in {"Note", "Import", "DropHost", "DropKey", "DropKnown"} BY <1>1, PoppedFirst, BeforeMoved
  <2>2. Step.do \notin {"Note", "Import"} BY <1>1, PoppedFirst DEF Follows
  <2>3. Step.do = "DropHost" => Step'.do = "DropKey" BY <1>1, PoppedFirst DEF Follows
  <2>4. Step.do \in Dropped BY <2>1, <2>2 DEF Dropped
  <2>5. Drop /\ StepOf(Step.do) BY <1>1, <2>4, PoppedFirst DEF Acts
  <2>6. Once' /\ (Step.do \in {"DropKey", "DropKnown"} => Clean') BY <2>4, <2>5, AfterDrop
  <2> QED BY <2>3, <2>4, <2>6 DEF Dropped
<1>2. CASE ~Popped
  <2>1. Recover /\ mem.journal # NoJournal /\ ~Arrived(mem.journal)
    BY <1>2, NextFirst DEF BeginNote, DoHost
  <2>2. UNCHANGED <<mem, deleted, store>> BY <2>1, MoveFrames
  <2>3. ~Live(mem.journal.to, mem.journal.target)
    <3>1. mem.journal \in Entry /\ mem.journal.to \in mem.entries BY <2>1, JournalIn
    <3> QED BY <2>1, <3>1, EntryFields DEF Arrived
  <2>4. Once /\ Clean BY <2>1, <2>3, StillOnce
  <2> QED BY <2>2, <2>4, HostsFixed
<1> QED BY <1>1, <1>2

\* A step that goes on leaves the next one what it needs.
LEMMA FirstGoes ==
  ASSUME Inv, Next, Goes, Acts
  PROVE  MoveFirst'
<1>1. JournalFirst'
  <2> SUFFICES ASSUME todo' # <<>>, Step'.do \in {"Begin", "Note"} PROVE mem'.journal = NoJournal
    BY DEF JournalFirst, AtFirst
  <2>1. CASE Step'.do = "Begin" BY <2>1, BeginFirst
  <2>2. CASE Step'.do = "Note"
    <3>1. AtFirst({"Note"})' BY <2>2 DEF AtFirst
    <3>2. Begin BY <3>1, NoteFirst
    <3> QED BY <3>2, BeginIs, MoveFrames
  <2> QED BY <2>1, <2>2
<1>2. ImportFirst' BY ImportFirstNext DEF ImportFirst, AtFirst
<1>3. DropFirst' BY DropFirstNext DEF DropFirst, AtFirst, Live
<1>4. OnceFirst' /\ CleanFirst' BY OnceNext DEF OnceFirst, CleanFirst, AtFirst
<1> QED BY <1>1, <1>2, <1>3, <1>4 DEF MoveFirst

\* The first step of an operation.
LEMMA AskedFirst ==
  ASSUME Inv, Asking
  PROVE  Step'.do \in {"Recover", "TakeRunning", "Hold", "Mark", "Register", "Discard"}
<1>1. CASE op'.kind = "move"
  <2>1. PICK i \in Id, s \in mem.entries, to \in mem.entries : MoveAsked(i, s, to) BY <1>1, AskedKind
  <2>2. Step' = Do("Recover") BY <2>1 DEF MoveAsked, Fresh
  <2> QED BY <2>2 DEF Do
<1>2. CASE op'.kind = "main"
  <2>1. PICK s \in mem.entries \ {mem.main} : MainAsked(s) BY <1>2, AskedKind
  <2>2. Step' = DoIn("TakeRunning", mem.main) BY <2>1 DEF MainAsked, Fresh
  <2> QED BY <2>2 DEF DoIn
<1>3. CASE op'.kind = "remove"
  <2>1. PICK s \in mem.entries, keep \in BOOLEAN : RemoveAsked(s, keep) BY <1>3, AskedKind
  <2>2. Step' = DoIn("Hold", s) BY <2>1 DEF RemoveAsked, Fresh
  <2> QED BY <2>2 DEF DoIn
<1>4. CASE op'.kind = "add"
  <2>1. PICK s : AddAsked(s) BY <1>4, AskedKind
  <2>2. Step' = DoIn("Mark", s) BY <2>1 DEF AddAsked, Fresh
  <2> QED BY <2>2 DEF DoIn
<1>5. CASE op'.kind = "adopt"
  <2>1. Step' = DoIn("Register", pending) BY <1>5, AskedKind DEF AdoptAsked, Fresh
  <2> QED BY <2>1 DEF DoIn
<1>6. CASE op'.kind = "discard"
  <2>1. Step' = DoIn("Discard", pending) BY <1>6, AskedKind DEF DiscardAsked, Fresh
  <2> QED BY <2>1 DEF DoIn
<1> QED BY <1>1, <1>2, <1>3, <1>4, <1>5, <1>6, AskedKind

\* Every step leaves the next step of a move what it needs.
LEMMA MoveFirstStep ==
  ASSUME Inv, Next
  PROVE  MoveFirst'
<1>1. CASE Aside BY <1>1, FirstAside
<1>2. CASE Goes /\ Acts BY <1>2, FirstGoes
<1>3. CASE Falls BY <1>3, FirstFalls
<1>4. CASE Asking \/ GivesUp \/ Todo' = {Do("Open")} \/ Todo' = {}
  <2>1. ~AtFirst(Moves)'
    <3> SUFFICES ASSUME todo' # <<>>, Step'.do \in Moves PROVE FALSE BY DEF AtFirst
    <3>1. Step' \in Todo'
      <4>1. Shape' BY TodoIs
      <4>2. Len(todo') \in Nat /\ Len(todo') # 0 BY <4>1 DEF Shape, ShapeOf
      <4> QED BY <4>2 DEF Todo, Elems, Step
    <3>2. Step'.do = "Begin" BY <1>4, <3>1, NoDropsNew DEF Moves, Dropped
    <3>3. Asking
      <4>1. Todo' = {Do("Open")} => Step'.do # "Begin" BY <3>1 DEF Do
      <4>2. GivesUp => Step'.do # "Begin" BY <3>1 DEF GivesUp, Fresh, Do, DoIn
      <4> QED BY <1>4, <3>1, <3>2, <4>1, <4>2
    <3> QED BY <3>2, <3>3, AskedFirst
  <2> QED BY <2>1, FirstOther
<1> QED BY <1>1, <1>2, <1>3, <1>4, Cases

\* Every step leaves the steps of a move fitting journal and stores.
LEMMA MoveStep ==
  ASSUME Inv, Next
  PROVE  MoveOK'
<1>1. MoveFirst' BY MoveFirstStep
<1>2. \A y \in Todo' : BeginOK(y)' /\ ImportOK(y)' /\ DropOK(y)' BY BeginsFit, ImportsFit, DropsFit
<1> QED BY <1>1, <1>2 DEF MoveOK, MoveFirst, JournalFirst, ImportFirst, DropFirst, OnceFirst, CleanFirst,
  BeginOK, ImportOK, DropOK

------------------------------------------------------------------------------
(* The steps of a removal are about its server                              *)

Takers == {"TakeHosts", "Recover", "Begin", "Note", "Import", "DropHost", "DropKey", "DropKnown", "Moved"}
Early  == {"Hold", "TakeRunning", "Leave", "TakeHosts", "TakeKeys", "HandOn", "Unregister"}

HoldsIt  == ~Within({"Hold"}) => op.space \in held
RunsIt   == running[op.space] = "op" \/ Within({"TakeRunning"}) \/ (AtFirst({"Failed"}) /\ op.space \in mem.entries)
NotedIt  == Within(Takers) => mem.leaving = op.space \/ Within({"Leave"})
TakingIt == op.taking /\ ~op.moved => mem.leaving = op.space \/ AtFirst({"Failed"})
AboutIt(x) ==
  /\ x.do \in Early \cup {"RemoveFiles", "Retire"} => x.at = op.space
  /\ x.do \in Early => op.space \in mem.entries /\ mem.entries # {op.space}
  /\ x.do = "Begin" => x.from = op.space
  /\ x.do \in {"Note", "Import"} => x.j.from = op.space
  /\ x.do = "Unleave" => op.taking /\ ~op.moved
  /\ x.do = "Swap" => x.at # op.space
  /\ x.do = "RemoveFiles" => op.space \notin reg.entries \/ Within({"Unregister"})
  /\ x.do = "RemoveFiles" => op.space # pending
OnItsWay(i) ==
  \/ Within({"TakeHosts"})
  \/ \E y \in Todo : y.do = "Begin" /\ y.id = i
  \/ \E y \in Todo : y.do = "DropHost" /\ y.id = i /\ y.at = op.space
Emptied ==
  Within({"Unregister"}) =>
    /\ op.taking \/ Within({"Leave"}) => Within({"HandOn"})
    /\ mem.main # op.space \/ Within({"HandOn", "Swap"})
    /\ \A i \in Id : Live(op.space, i) /\ i[1] \notin deleted => OnItsWay(i)

\* What a removal has reached, part by part.
LEMMA RemovingNow ==
  ASSUME Inv, op.kind = "remove"
  PROVE  HoldsIt /\ RunsIt /\ NotedIt /\ TakingIt /\ (\A x \in Todo : AboutIt(x)) /\ Emptied
BY DEF Inv, Removing, HoldsIt, RunsIt, NotedIt, TakingIt, AboutIt, Emptied, OnItsWay, Takers, Early, Within

\* The parts together.
LEMMA RemovingThen ==
  ASSUME op'.kind = "remove" => /\ HoldsIt' /\ RunsIt' /\ NotedIt' /\ TakingIt' /\ Emptied'
                                /\ \A x \in Todo' : AboutIt(x)'
  PROVE  Removing'
BY DEF Removing, HoldsIt, RunsIt, NotedIt, TakingIt, AboutIt, Emptied, OnItsWay, Takers, Early, Within

\* What happens beside a removal does not disturb it.
LEMMA RemovingAside ==
  ASSUME Inv, Next, Aside
  PROVE  Removing'
<1> SUFFICES ASSUME op'.kind = "remove"
             PROVE  /\ HoldsIt' /\ RunsIt' /\ NotedIt' /\ TakingIt' /\ Emptied'
                    /\ \A x \in Todo' : AboutIt(x)'
  BY RemovingThen
<1>1. /\ UNCHANGED <<todo, op, reg, mem, pending>> /\ Todo' = Todo /\ (\A names : Within(names)' = Within(names))
      /\ (\A names : AtFirst(names)' = AtFirst(names))
  BY AsideIs
<1>2. /\ HoldsIt /\ RunsIt /\ NotedIt /\ TakingIt /\ Emptied /\ \A x \in Todo : AboutIt(x)
  BY <1>1, RemovingNow
<1>3. op.space \in Space BY <1>1 DEF Inv, KindOK
<1>4. held' = held /\ (running[op.space] = "op" => running'[op.space] = "op")
  <2>1. CASE UNCHANGED <<held, running>> BY <2>1
  <2>2. running \in [Space -> {"no", "pass", "going", "op"}] BY DEF Inv, Types, TypeOK
  <2>3. CASE \E s \in Space : PassBegin(s) BY <1>3, <2>2, <2>3 DEF PassBegin
  <2>4. CASE \E s \in Space : PassCheck(s) BY <1>3, <2>2, <2>4 DEF PassCheck
  <2>5. CASE \E s \in Space : PassEnd(s) BY <1>3, <2>2, <2>5 DEF PassEnd
  <2>6. CASE \/ Unlock \/ Lock \/ (\E i \in Id : DeleteHost(i)) \/ (\E v \in 0 .. MaxOps : EditDoc(v))
             \/ (\E s \in Space : UnlockSpace(s)) \/ (\E s \in Space, i \in Id : PassPull(s, i))
             \/ Rechaining \/ (\E m \in Space : RechainEnds(m))
    BY <2>1, <2>6, OtherFrames
  <2> QED BY <2>3, <2>4, <2>5, <2>6 DEF Aside
<1>5. Emptied'
  <2>1. Shrinks BY AsideShrinks
  <2>2. deleted \subseteq deleted' BY <2>1 DEF Shrinks
  <2>3. \A i \in Id : Live(op.space, i)' => Live(op.space, i)
    <3>1. PICK a \in Space : a = op.space BY <1>3
    <3>2. \A i \in Id : Live(a, i)' => Live(a, i) BY <2>1, ShrunkRows
    <3> QED BY <1>1, <3>1, <3>2 DEF Live
  <2>4. \A i \in Id : OnItsWay(i) => OnItsWay(i)' BY <1>1 DEF OnItsWay
  <2>5. \A i \in Id : Live(op.space, i)' /\ i[1] \notin deleted' => Live(op.space, i) /\ i[1] \notin deleted
    BY <2>2, <2>3
  <2>6. op' = op /\ mem' = mem BY <1>1
  <2> QED BY <1>1, <1>2, <2>4, <2>5, <2>6 DEF Emptied
<1>6. HoldsIt' BY <1>1, <1>2, <1>4 DEF HoldsIt
<1>7. RunsIt' BY <1>1, <1>2, <1>4 DEF RunsIt
<1>8. NotedIt' /\ TakingIt' BY <1>1, <1>2 DEF NotedIt, TakingIt
<1>9. \A x \in Todo' : AboutIt(x)' BY <1>1, <1>2 DEF AboutIt
<1> QED BY <1>5, <1>6, <1>7, <1>8, <1>9

\* A removal starts with what it needs.
LEMMA RemovingAsked ==
  ASSUME Inv, Asking
  PROVE  Removing'
<1> SUFFICES ASSUME op'.kind = "remove"
             PROVE  /\ HoldsIt' /\ RunsIt' /\ NotedIt' /\ TakingIt' /\ Emptied'
                    /\ \A x \in Todo' : AboutIt(x)'
  BY RemovingThen
<1>1. PICK s \in mem.entries, keep \in BOOLEAN : RemoveAsked(s, keep) BY AskedKind
<1>2. /\ Todo' = RemoveSteps(s, keep) /\ op'.space = s /\ op'.taking = FALSE
      /\ mem.entries # {s}
      /\ deleted' = IF keep THEN deleted ELSE deleted \cup {i[1] : i \in {k \in Id : Live(s, k)}}
  BY <1>1 DEF RemoveAsked, Fresh
<1>3. UNCHANGED <<mem, reg, store, pending>> BY Asked
<1>4. s \in reg.entries /\ s \in Space /\ s # pending
  <2>1. s \in reg.entries /\ s \in Space BY Basics
  <2> QED BY <2>1, SpacesAssumption DEF Inv, Setup
<1>5. \A x \in RemoveSteps(s, keep) :
        /\ \/ x.do \in {"Hold", "TakeRunning", "HandOn", "Unregister", "RemoveFiles", "Retire", "Done"}
           \/ keep /\ x.do \in {"Leave", "TakeHosts"}
        /\ x.do # "Done" => x.at = s
  BY DEF RemoveSteps, Do, DoIn
<1>6. /\ DoIn("Hold", s) \in Todo' /\ DoIn("TakeRunning", s) \in Todo' /\ DoIn("HandOn", s) \in Todo'
      /\ DoIn("Unregister", s) \in Todo'
      /\ keep => DoIn("Leave", s) \in Todo' /\ DoIn("TakeHosts", s) \in Todo'
  BY <1>2 DEF RemoveSteps
<1>7. /\ Within({"Hold"})' /\ Within({"TakeRunning"})' /\ Within({"HandOn", "Swap"})' /\ Within({"HandOn"})'
      /\ Within({"Unregister"})'
  BY <1>6 DEF Within, DoIn
<1>8. keep => Within({"Leave"})' /\ Within({"TakeHosts"})' BY <1>6 DEF Within, DoIn
<1>9. HoldsIt' /\ RunsIt' /\ TakingIt' BY <1>2, <1>7 DEF HoldsIt, RunsIt, TakingIt
<1>10. NotedIt' BY <1>2, <1>5, <1>8 DEF NotedIt, Within, Takers
<1>11. Emptied'
  <2> SUFFICES ASSUME NEW i \in Id, Live(s, i)', i[1] \notin deleted' PROVE OnItsWay(i)'
    BY <1>2, <1>7 DEF Emptied
  <2>1. Live(s, i) BY <1>3 DEF Live
  <2>2. keep BY <1>2, <2>1
  <2> QED BY <1>8, <2>2 DEF OnItsWay
<1>12. \A x \in Todo' : AboutIt(x)' BY <1>2, <1>3, <1>4, <1>5, <1>7 DEF AboutIt, Early
<1> QED BY <1>9, <1>10, <1>11, <1>12

\* What a step that fails leaves to do is no part of a removal but taking the note back.
LEMMA FallenNames ==
  ASSUME NEW a, Fallen(FrontOf(a)), NEW x \in Todo'
  PROVE  /\ x.do \in {"Clear", "Unstage", "Unleave", "Failed"}
         /\ x.do = "Unleave" => op.kind = "remove" /\ op.taking /\ ~op.moved
BY DEF Fallen, FrontOf

\* What a failing step leaves alone.
LEMMA FallsFrame ==
  ASSUME Inv, Next, Falls
  PROVE  /\ UNCHANGED <<held, gone, running, pending, deleted, store, op, left, wiped, marker>>
         /\ Step.do # "Leave" => UNCHANGED unnoted
         /\ op.kind = "remove" => UNCHANGED files
         /\ files \subseteq files'
         /\ Step.do \notin {"Hold", "Failed", "Leave"} \/ (Step.do = "Leave" /\ AtFirst({"Failed"})')
         /\ Step.do = "TakeRunning" => AtFirst({"Failed"})' /\ UNCHANGED mem
         /\ mem'.leaving = mem.leaving \/ AtFirst({"Failed"})'
         /\ StepOf(Step.do)
<1>1. Shape BY DEF Inv
<1>2. Begin \/ Import \/ Personal \/ StageMain \/ StageOther \/ TakeKeys \/ TakeTimesOut \/ Errs BY DEF Falls
<1>3. UNCHANGED <<held, gone, running, pending, deleted, store, op, left, wiped, marker>>
  BY <1>2, MoveFrames, RemoveFrames, OtherFrames DEF Falls
<1>4. CASE Begin \/ Import \/ Personal \/ StageMain \/ StageOther \/ TakeKeys
  <2>1. UNCHANGED <<mem, unnoted, files>> BY <1>4, MoveFrames, RemoveFrames
  <2>2. \/ StepOf("Begin") \/ StepOf("Import") \/ StepOf("Personal") \/ StepOf("StageMain") \/ StepOf("Stage")
        \/ StepOf("TakeKeys")
    BY <1>1, <1>4, StepIs
  <2> QED BY <1>3, <2>1, <2>2 DEF StepOf
<1>5. CASE TakeTimesOut
  <2>1. UNCHANGED <<mem, unnoted, files>> /\ StepOf("TakeRunning") BY <1>1, <1>5, RemoveFrames, StepIs
  <2>2. todo' = <<Do("Failed")>> BY <1>5 DEF TakeTimesOut
  <2>3. AtFirst({"Failed"})' BY <2>2 DEF AtFirst, Step, Do
  <2> QED BY <1>3, <2>1, <2>3 DEF StepOf
<1>6. CASE Errs
  <2>0. KindOK BY DEF Inv
  <2>1. StepOf(Step.do) BY <1>6, FailStep
  <2>2. mem \in Registry BY Basics
  <2>3. Step.do # "Leave" => UNCHANGED unnoted BY <1>6, OtherFrames
  <2>4. Step.do # "MakeFile" => UNCHANGED files BY <1>6, OtherFrames
  <2>5. op.kind = "remove" => Step.do # "MakeFile"
    BY <2>0, <2>1 DEF StepOf, KindOK, Allowed, RemoveNames, MoveNames, SwapNames
  <2>6. files \subseteq files'
    <3>1. CASE Step.do = "MakeFile" BY <1>6, <3>1, ErrIs DEF Dropped
    <3> QED BY <2>4, <3>1
  <2>7. CASE Step.do \in {"Leave", "Unregister", "Mark", "MakeFile"} /\ todo' = <<Do("Failed")>>
    <3>1. AtFirst({"Failed"})' BY <2>7 DEF AtFirst, Step, Do
    <3> QED BY <1>3, <2>1, <2>3, <2>4, <2>5, <2>6, <2>7, <3>1
  <2>8. CASE /\ Step.do \in Dropped \cup {"TakeKeys", "Personal", "Promote", "ClearDoc", "Import", "StageMain", "Stage", "Register"}
             /\ UNCHANGED mem
    BY <1>3, <2>1, <2>3, <2>4, <2>8 DEF Dropped
  <2>9. CASE Step.do = "Note" /\ mem' = [mem EXCEPT !.journal = Step.j]
    BY <1>3, <2>1, <2>2, <2>3, <2>4, <2>9 DEF Registry
  <2>10. CASE Step.do = "Clear" /\ mem' = [mem EXCEPT !.journal = NoJournal]
    BY <1>3, <2>1, <2>2, <2>3, <2>4, <2>10 DEF Registry
  <2>11. CASE Step.do \in {"Swap", "EndHandover"} /\ mem' = [mem EXCEPT !.handover = None]
    BY <1>3, <2>1, <2>2, <2>3, <2>4, <2>11 DEF Registry
  <2> QED BY <1>6, <2>7, <2>8, <2>9, <2>10, <2>11, ErrIs
<1> QED BY <1>2, <1>4, <1>5, <1>6

\* A removal that fails is left with what its end needs.
LEMMA RemovingFalls ==
  ASSUME Inv, Next, Falls
  PROVE  Removing'
<1> SUFFICES ASSUME op'.kind = "remove"
             PROVE  /\ HoldsIt' /\ RunsIt' /\ NotedIt' /\ TakingIt' /\ Emptied'
                    /\ \A x \in Todo' : AboutIt(x)'
  BY RemovingThen
<1>1. UNCHANGED <<held, running, op>> /\ StepOf(Step.do) BY FallsFrame
<1>2. HoldsIt /\ RunsIt /\ TakingIt /\ \A x \in Todo : AboutIt(x) BY <1>1, RemovingNow
<1>3. \A x \in Todo' : /\ x.do \in {"Clear", "Unstage", "Unleave", "Failed"}
                       /\ x.do = "Unleave" => op.taking /\ ~op.moved
  BY FallenNames DEF Falls
<1>4. \A x \in Todo : x = Step \/ (Precedes(Step.do, x.do) /\ Step.do \in Names /\ x.do \in Names)
  <2>1. Shape BY DEF Inv
  <2>2. Step \in StepSet /\ Todo \subseteq StepSet BY <1>1 DEF StepOf
  <2> QED BY <1>1, <2>1, <2>2, Behind, StepFields
<1>5. HoldsIt'
  <2>1. ~Within({"Hold"})
    <3> SUFFICES ASSUME NEW x \in Todo, x.do = "Hold" PROVE FALSE BY DEF Within
    <3>1. x = Step BY <1>4, Before
    <3> QED BY <3>1, FallsFrame
  <2> QED BY <1>1, <1>2, <2>1 DEF HoldsIt
<1>6. RunsIt'
  <2>1. CASE running[op.space] = "op" BY <1>1, <2>1 DEF RunsIt
  <2>2. CASE Within({"TakeRunning"})
    <3>1. PICK x \in Todo : x.do = "TakeRunning" BY <2>2 DEF Within
    <3>2. Step.do \in {"Hold", "TakeRunning"} BY <1>4, <3>1, Before
    <3>3. AtFirst({"Failed"})' /\ UNCHANGED mem BY <3>2, FallsFrame
    <3>4. op.space \in mem.entries BY <1>2, <3>1 DEF AboutIt, Early
    <3> QED BY <1>1, <3>3, <3>4 DEF RunsIt
  <2>3. ~AtFirst({"Failed"}) BY FallsFrame DEF AtFirst
  <2> QED BY <1>2, <2>1, <2>2, <2>3 DEF RunsIt
<1>7. NotedIt' /\ Emptied' BY <1>3 DEF NotedIt, Emptied, Within, Takers
<1>8. TakingIt'
  <2>1. ~AtFirst({"Failed"}) BY FallsFrame DEF AtFirst
  <2> QED BY <1>1, <1>2, <2>1, FallsFrame DEF TakingIt
<1>9. \A x \in Todo' : AboutIt(x)' BY <1>1, <1>3 DEF AboutIt, Early
<1> QED BY <1>5, <1>6, <1>7, <1>8, <1>9

\* A step of a removal that comes through.
Taken == Inv /\ Next /\ Goes /\ Acts /\ ~Crash /\ ~Errs /\ ~Asking /\ op'.kind = "remove"

\* A step of a removal.
LEMMA TakenIs ==
  ASSUME Taken
  PROVE  /\ op.kind = "remove" /\ op'.space = op.space /\ op.space \in Space
         /\ StepOf(Step.do) /\ Step.do \in RemoveNames \ {"Failed", "Done"}
<1>1. Inv /\ Next /\ op'.kind = "remove" /\ ~Asking /\ ~Crash /\ Goes /\ Acts BY DEF Taken
<1>2. op.kind = "remove" /\ op'.space = op.space BY <1>1, OpIs DEF Idle
<1>3. KindOK /\ Shape BY <1>1 DEF Inv
<1>4. op.space \in Space BY <1>2, <1>3 DEF KindOK
<1>5. Step \in Todo /\ todo # <<>> /\ Todo \subseteq StepSet BY <1>1 DEF Acts
<1>6. Step.do \in RemoveNames BY <1>2, <1>3, <1>5 DEF KindOK, Allowed
<1>7. ~Failed /\ ~Done BY <1>1, OpIs DEF Failed, Done, Idle
<1>8. Step.do \notin {"Failed", "Done"} BY <1>1, <1>7 DEF Acts
<1>9. StepOf(Step.do) BY <1>5 DEF StepOf
<1> QED BY <1>2, <1>4, <1>6, <1>8, <1>9

\* What a step of a removal leaves alone.
LEMMA TakenFrame ==
  ASSUME Taken
  PROVE  /\ UNCHANGED <<pending, deleted>>
         /\ Step.do # "Hold" => UNCHANGED held
         /\ Step.do # "TakeRunning" => UNCHANGED running
         /\ Step.do \notin {"Leave", "Moved", "HandOn"} => UNCHANGED op
         /\ Step.do \notin {"Note", "Clear", "Swap", "EndHandover", "Leave", "Unregister", "Unleave"} => UNCHANGED <<mem, reg>>
<1>1. Acts /\ Step.do \in RemoveNames \ {"Failed", "Done"} BY TakenIs DEF Taken
<1>2. CASE Step.do \in {"Recover", "Begin", "Note", "Import", "DropHost", "DropKey", "DropKnown", "Clear"}
  BY <1>1, <1>2, MoveFrames DEF Acts, Dropped
<1>3. CASE Step.do \in {"Personal", "StageMain", "Stage", "Swap", "Settle", "Promote", "ClearDoc", "EndHandover", "Unstage"}
  BY <1>1, <1>3, MoveFrames, OtherFrames DEF Acts
<1>4. CASE Step.do \in {"Hold", "TakeRunning", "Leave", "TakeHosts", "Moved", "TakeKeys", "HandOn"}
  BY <1>1, <1>4, RemoveFrames DEF Acts
<1>5. CASE Step.do \in {"Unregister", "RemoveFiles", "Retire", "Unleave"}
  BY <1>1, <1>5, RemoveFrames, OtherFrames DEF Acts
<1> QED BY <1>1, <1>2, <1>3, <1>4, <1>5 DEF RemoveNames, MoveNames, SwapNames

\* What the registry in memory says afterwards.
LEMMA TakenReg ==
  ASSUME Taken
  PROVE  /\ Step.do # "Swap" => mem'.main = mem.main
         /\ Step.do = "Swap" => mem'.main = Step.at
         /\ Step.do # "Unregister" => mem'.entries = mem.entries /\ reg'.entries \in {mem.entries, reg.entries}
         /\ Step.do = "Unregister" => op.space \notin reg'.entries /\ op.space \notin mem'.entries
         /\ Step.do = "Leave" => mem'.leaving = op.space
         /\ Step.do \notin {"Leave", "Unleave", "Unregister"} => mem'.leaving = mem.leaving
<1>1. Acts /\ Inv /\ Next /\ Shape /\ Step.do \in RemoveNames \ {"Failed", "Done"} BY TakenIs DEF Taken, Inv
<1>2. Step \in Todo BY <1>1 DEF Acts
<1>3. CASE UNCHANGED <<mem, reg>>
  <2>1. Step.do = "Swap" => mem'.main = Step.at
    <3>1. SUFFICES ASSUME Step.do = "Swap" PROVE FALSE OBVIOUS
    <3>2. Swap /\ Step.at \in mem.entries \ {mem.main} BY <1>1, <1>2, <3>1 DEF Acts, Inv, SwapOK
    <3>3. mem'.main = Step.at BY <3>2, Basics, <1>1 DEF Swap, Swapped, Persist, Registry
    <3> QED BY <1>3, <3>2, <3>3
  <2>2. Step.do # "Unregister"
    <3>1. SUFFICES ASSUME Step.do = "Unregister" PROVE FALSE OBVIOUS
    <3>2. StepOf("Unregister") /\ Unregister BY <1>1, <3>1, TakenIs DEF Acts
    <3>3. mem' = Removed(Step.at) BY <3>2 DEF Unregister, Persist
    <3> QED BY <1>1, <1>3, <3>2, <3>3, UnregisterIs
  <2>3. Step.do = "Leave" => mem'.leaving = op.space
    <3>1. SUFFICES ASSUME Step.do = "Leave" PROVE mem.leaving = op.space BY <1>3
    <3>2. Leave BY <1>1, <3>1 DEF Acts
    <3>3. Step.at = op.space BY <1>1, <1>2, <3>1, RemovalOf
    <3>4. mem.leaving = Step.at
      <4>1. SUFFICES ASSUME mem.leaving # Step.at PROVE FALSE OBVIOUS
      <4>2. mem' = [mem EXCEPT !.leaving = Step.at] BY <3>2, <4>1 DEF Leave, Persist
      <4>3. mem'.leaving = Step.at BY <4>2, Basics, <1>1 DEF Registry
      <4> QED BY <1>3, <4>1, <4>3
    <3> QED BY <3>3, <3>4
  <2> QED BY <1>3, <2>1, <2>2, <2>3
<1>4. CASE ~UNCHANGED <<mem, reg>>
  <2>1. Step.do \in {"Note", "Clear", "Swap", "EndHandover", "Leave", "Unregister", "Unleave"} BY <1>4, TakenFrame
  <2>2. ~Errs /\ op.kind = "remove" BY TakenIs DEF Taken
  <2>3. Step.do = "Leave" => Step.at = op.space BY <1>1, <1>2, RemovalOf
  <2>4. \/ Note /\ reg' = mem' /\ RegNote
        \/ Clear /\ reg' = mem' /\ RegNote
        \/ Swap /\ reg' = mem' /\ RegSwap
        \/ EndHandover /\ reg' = mem' /\ RegHand
        \/ Leave /\ reg' = mem' /\ RegLeave /\ mem'.leaving = Step.at
        \/ Unleave /\ reg' = mem' /\ RegLeave
        \/ /\ Unregister /\ reg' = mem' /\ RegGone /\ Step.at # mem.main /\ op.space = Step.at
        \/ Skips /\ Step.do = "Unleave" /\ RegLeave /\ reg' \in {reg, mem'}
        \/ Register \/ Opens
    BY <1>1, <1>4, <2>2, RegIs
  <2>5. CASE Note \/ Clear
    <3>1. StepOf("Note") \/ StepOf("Clear") BY <1>1, <2>5, StepIs
    <3>2. Step.do \in {"Note", "Clear"} BY <3>1 DEF StepOf
    <3> QED BY <2>4, <2>5, <3>2, StepIs, <1>1 DEF StepOf, RegNote
  <2>6. CASE Swap /\ reg' = mem' /\ RegSwap
    <3>1. Step.do = "Swap" BY <1>1, <2>6, StepIs DEF StepOf
    <3> QED BY <2>6, <3>1 DEF RegSwap
  <2>7. CASE EndHandover /\ reg' = mem' /\ RegHand
    <3>1. Step.do = "EndHandover" BY <1>1, <2>7, StepIs DEF StepOf
    <3> QED BY <2>7, <3>1 DEF RegHand
  <2>8. CASE Leave /\ reg' = mem' /\ RegLeave /\ mem'.leaving = Step.at
    <3>1. Step.do = "Leave" BY <1>1, <2>8, StepIs DEF StepOf
    <3> QED BY <2>3, <2>8, <3>1 DEF RegLeave
  <2>9. CASE Unleave /\ reg' = mem' /\ RegLeave
    <3>1. Step.do = "Unleave" BY <1>1, <2>9, StepIs DEF StepOf
    <3> QED BY <2>9, <3>1 DEF RegLeave
  <2>10. CASE Unregister /\ reg' = mem' /\ RegGone /\ Step.at # mem.main /\ op.space = Step.at
    <3>1. Step.do = "Unregister" BY <1>1, <2>10, StepIs DEF StepOf
    <3> QED BY <2>10, <3>1 DEF RegGone
  <2>11. ~Register /\ ~Opens
    <3>1. Register => Step.do = "Register" BY <1>1, StepIs DEF StepOf
    <3>2. Opens => Step.do = "Open" BY <1>1, StepIs DEF StepOf
    <3> QED BY <2>1, <3>1, <3>2
  <2>12. CASE Skips /\ Step.do = "Unleave" /\ RegLeave /\ reg' \in {reg, mem'}
    BY <2>12 DEF RegLeave
  <2> QED BY <2>4, <2>5, <2>6, <2>7, <2>8, <2>9, <2>10, <2>11, <2>12
<1> QED BY <1>3, <1>4

\* What is left of a removal was left before, or was put there.
LEMMA TakenOld ==
  ASSUME Taken, NEW y \in Todo'
  PROVE  /\ \/ y \in Todo /\ Precedes(Step.do, y.do) /\ Step.do \in Names /\ y.do \in Names
            \/ Put(y) /\ \/ Step.do \in {"Recover", "Begin"} /\ y.do \in {"Note", "Import", "DropHost", "DropKey", "DropKnown", "Clear"}
                         \/ Step.do = "Settle" /\ y.do \in {"Unstage", "Promote", "ClearDoc", "EndHandover"}
                         \/ Step.do = "HandOn" /\ y.do \in {"Personal", "StageMain", "Stage", "Swap", "Settle"}
                         \/ Step.do = "TakeHosts" /\ y.do \in {"Recover", "Moved", "TakeKeys", "Begin"}
<1>1. Inv /\ Next /\ Goes /\ Shape /\ Step.do \in RemoveNames BY TakenIs DEF Taken, Inv
<1>2. CASE Old(y) BY <1>1, <1>2, OldStep
<1>3. CASE Put(y)
  <2>1. /\ Recover => Step.do = "Recover"
        /\ Begin => Step.do = "Begin"
        /\ Settle => Step.do = "Settle"
        /\ HandOn => Step.do = "HandOn"
        /\ TakeHosts => Step.do = "TakeHosts"
        /\ Opens => Step.do = "Open"
    BY <1>1, StepIs DEF StepOf
  <2>2. ~Opens BY <1>1, <2>1 DEF RemoveNames, MoveNames, SwapNames
  <2> QED BY <1>1, <1>3, <2>1, <2>2, PutNames
<1> QED BY <1>1, <1>2, <1>3 DEF Goes

\* The order of the steps of a removal.
LEMMA BeforeRemoved ==
  ASSUME NEW a \in Names, NEW b \in Names, Precedes(a, b)
  PROVE  /\ a = "Unregister" => b \notin Takers \cup Early
         /\ b = "Unregister" => a # "Unregister"
         /\ b = "Unleave" => a \notin {"Leave", "Moved", "HandOn"}
         /\ a = "HandOn" => b # "Leave"
         /\ a = "Failed" => b \notin Takers
<1>1. /\ Rank(a) \in 1 .. 39 /\ Rank(b) \in 1 .. 39
      /\ Rank(a) <= Rank(b) \/ (a = "Settle" /\ b = "Recover")
      /\ Rank(a) = Rank(b) => a \in Repeated
      /\ Rank(b) \in 20 .. 23 => Rank(a) >= 20
  BY RankOrder
<1>2. /\ a = "Unregister" => b \notin Takers \cup Early
      /\ b = "Unregister" => a # "Unregister"
      /\ b = "Unleave" => a \notin {"Leave", "Moved", "HandOn"}
      /\ a = "HandOn" => b # "Leave"
      /\ a = "Failed" => b \notin Takers
  BY <1>1, Ranks DEF Takers, Early, Repeated
<1> QED BY <1>2

\* The server stays held and does not sync.
LEMMA HoldsNext ==
  ASSUME Taken
  PROVE  HoldsIt' /\ RunsIt'
<1>1. Inv /\ Next /\ Goes /\ Acts /\ Shape /\ Step.do # "Failed" BY TakenIs DEF Taken, Inv
<1>2. op.kind = "remove" /\ op'.space = op.space /\ op.space \in Space BY TakenIs
<1>3. HoldsIt /\ RunsIt /\ \A x \in Todo : AboutIt(x) BY <1>1, <1>2, RemovingNow
<1>4. Step \in Todo /\ \A x \in Todo : x = Step \/ x \in Todo' BY <1>1 DEF Goes
<1>5. HoldsIt'
  <2>1. CASE Step.do = "Hold"
    <3>1. held' = held \cup {Step.at} BY <1>1, <2>1 DEF Acts, Hold
    <3>2. Step.at = op.space BY <1>3, <1>4, <2>1 DEF AboutIt, Early
    <3> QED BY <1>2, <3>1, <3>2 DEF HoldsIt
  <2>2. CASE Step.do # "Hold"
    <3>1. held' = held BY <2>2, TakenFrame
    <3>2. Within({"Hold"}) => Within({"Hold"})' BY <1>4, <2>2 DEF Within
    <3> QED BY <1>2, <1>3, <3>1, <3>2 DEF HoldsIt
  <2> QED BY <2>1, <2>2
<1>6. RunsIt'
  <2>0. running \in [Space -> {"no", "pass", "going", "op"}] BY <1>1 DEF Inv, Types, TypeOK
  <2>1. CASE Step.do = "TakeRunning"
    <3>1. Step.at = op.space /\ op.space \in mem.entries BY <1>3, <1>4, <2>1 DEF AboutIt, Early
    <3>2. CASE TakeRunning
      <4>1. running'[Step.at] = "op" BY <1>2, <2>0, <3>1, <3>2 DEF TakeRunning
      <4> QED BY <1>2, <3>1, <4>1 DEF RunsIt
    <3>3. CASE TakeTimesOut
      <4>1. AtFirst({"Failed"})' BY <3>3 DEF TakeTimesOut, AtFirst, Step, Do
      <4>2. mem' = mem BY <3>3, RemoveFrames
      <4> QED BY <1>2, <3>1, <4>1, <4>2 DEF RunsIt
    <3> QED BY <1>1, <2>1, <3>2, <3>3 DEF Acts
  <2>2. CASE Step.do # "TakeRunning"
    <3>1. running' = running BY <2>2, TakenFrame
    <3>2. Within({"TakeRunning"}) => Within({"TakeRunning"})' BY <1>4, <2>2 DEF Within
    <3>3. ~AtFirst({"Failed"}) BY <1>1 DEF AtFirst
    <3> QED BY <1>2, <1>3, <3>1, <3>2, <3>3 DEF RunsIt
  <2> QED BY <2>1, <2>2
<1> QED BY <1>5, <1>6

\* The note comes off only when nothing is left to do but to say so.
LEMMA UnleaveLast ==
  ASSUME Taken, Step.do = "Unleave"
  PROVE  ~Within(Takers)' /\ AtFirst({"Failed"})'
<1>1. Inv /\ Next /\ Goes /\ Acts /\ Shape /\ StepOf("Unleave") BY TakenIs DEF Taken, Inv
<1>2. PICK z \in Todo : /\ z \in StepSet /\ Follows(Step, z) /\ Precedes("Unleave", z.do)
                        /\ \A y \in Todo : y = Step \/ y = z \/ Precedes(z.do, y.do)
  BY <1>1, Second DEF Ending
<1>3. z.do = "Failed" BY <1>1, <1>2 DEF Follows, StepOf
<1>4. ~Within(Takers)'
  <2> SUFFICES ASSUME NEW y \in Todo', y.do \in Takers PROVE FALSE BY DEF Within
  <2>1. y \in Todo /\ y.do \in Names BY <1>1, TakenOld DEF StepOf
  <2>2. y # Step /\ y # z BY <1>1, <1>3 DEF StepOf, Takers
  <2>3. Precedes("Failed", y.do) BY <1>2, <1>3, <2>1, <2>2
  <2> QED BY <2>1, <2>3, BeforeRemoved DEF Names, Plain
<1>5. AtFirst({"Failed"})'
  <2>1. todo' # <<>> BY <1>1 DEF Goes, StepOf, Ending
  <2>2. Popped \/ Recover \/ Begin \/ Settle \/ HandOn \/ TakeHosts \/ Opens BY <1>1 DEF Goes
  <2>3. Popped BY <1>1, <2>2, StepIs DEF StepOf
  <2>4. Follows(Step, Step') BY <1>1, <2>1, <2>3, PoppedFirst
  <2> QED BY <1>1, <2>1, <2>4 DEF Follows, AtFirst, StepOf
<1> QED BY <1>4, <1>5

\* The note that hosts leave the server stays.
LEMMA NotedNext ==
  ASSUME Taken
  PROVE  NotedIt' /\ TakingIt'
<1>1. Inv /\ Next /\ Goes /\ Acts /\ Shape /\ Step.do # "Failed" BY TakenIs DEF Taken, Inv
<1>2. op.kind = "remove" /\ op'.space = op.space BY TakenIs
<1>3. NotedIt /\ TakingIt /\ Emptied BY <1>1, <1>2, RemovingNow
<1>4. Step \in Todo /\ \A x \in Todo : x = Step \/ x \in Todo' BY <1>1 DEF Goes
<1>5. CASE Step.do = "Leave" BY <1>2, <1>5, TakenReg DEF NotedIt, TakingIt
<1>6. CASE Step.do = "Unleave" BY <1>2, <1>6, UnleaveLast DEF NotedIt, TakingIt
<1>7. CASE Step.do = "Unregister"
  <2>1. ~Within(Takers)'
    <3> SUFFICES ASSUME NEW y \in Todo', y.do \in Takers PROVE FALSE BY DEF Within
    <3>1. Precedes("Unregister", y.do) /\ y.do \in Names BY <1>7, TakenOld
    <3> QED BY <3>1, BeforeRemoved DEF Names, Placed
  <2>2. ~Within({"HandOn"})
    <3> SUFFICES ASSUME NEW x \in Todo, x.do = "HandOn" PROVE FALSE BY DEF Within
    <3>1. Precedes("Unregister", "HandOn") BY <1>1, <1>7, TakenIs, Behind
    <3> QED BY <3>1, BeforeRemoved DEF Names, Placed, Early
  <2>3. ~op.taking BY <1>3, <1>4, <1>7, <2>2 DEF Emptied, Within
  <2>4. op' = op BY <1>7, TakenFrame
  <2> QED BY <2>1, <2>3, <2>4 DEF NotedIt, TakingIt
<1>8. CASE Step.do \notin {"Leave", "Unleave", "Unregister"}
  <2>1. mem'.leaving = mem.leaving BY <1>8, TakenReg
  <2>2. Within(Takers)' => Within(Takers)
    <3> SUFFICES ASSUME NEW y \in Todo', y.do \in Takers PROVE Within(Takers) BY DEF Within
    <3>1. y \in Todo \/ Step.do \in Takers BY TakenOld DEF Takers
    <3> QED BY <1>4, <3>1 DEF Within
  <2>3. Within({"Leave"}) => Within({"Leave"})' BY <1>4, <1>8 DEF Within
  <2>4. NotedIt' BY <1>2, <1>3, <2>1, <2>2, <2>3 DEF NotedIt
  <2>5. ~AtFirst({"Failed"}) BY <1>1 DEF AtFirst
  <2>6. op'.taking /\ ~op'.moved => op.taking /\ ~op.moved
    <3>1. CASE Step.do = "Moved"
      <4>1. op' = [op EXCEPT !.moved = TRUE] BY <1>1, <3>1 DEF Acts, Moved
      <4> QED BY <1>1, <4>1 DEF Inv, Types
    <3>2. CASE Step.do = "HandOn"
      <4>1. op' = [op EXCEPT !.taking = FALSE] BY <1>1, <3>2 DEF Acts, HandOn
      <4> QED BY <1>1, <4>1 DEF Inv, Types
    <3> QED BY <1>8, <3>1, <3>2, TakenFrame
  <2> QED BY <1>2, <1>3, <2>1, <2>4, <2>5, <2>6 DEF TakingIt
<1> QED BY <1>5, <1>6, <1>7, <1>8

\* The steps of a removal stay about its server.
LEMMA AboutNext ==
  ASSUME Taken, NEW y \in Todo'
  PROVE  AboutIt(y)'
<1>1. Inv /\ Next /\ Goes /\ Acts /\ Shape /\ StepOf(Step.do) BY TakenIs DEF Taken, Inv
<1>2. op.kind = "remove" /\ op'.space = op.space BY TakenIs
<1>3. \A x \in Todo : AboutIt(x) BY <1>1, <1>2, RemovingNow
<1>4. Step \in Todo /\ \A x \in Todo : x = Step \/ x \in Todo' BY <1>1 DEF Goes
<1>5. pending' = pending BY TakenFrame
<1>6. Step.do # "Unregister" => mem'.entries = mem.entries BY TakenReg
<1>7. CASE y \in Todo /\ Precedes(Step.do, y.do) /\ Step.do \in Names /\ y.do \in Names
  <2>1. AboutIt(y) BY <1>3, <1>7
  <2>2. y.do \in Early => op.space \in mem'.entries /\ mem'.entries # {op.space}
    <3>1. y.do \in Early => Step.do # "Unregister" BY <1>7, BeforeRemoved
    <3> QED BY <1>6, <2>1, <3>1 DEF AboutIt
  <2>3. y.do = "Unleave" => op'.taking /\ ~op'.moved
    <3>1. y.do = "Unleave" => Step.do \notin {"Leave", "Moved", "HandOn"} BY <1>7, BeforeRemoved
    <3>2. y.do = "Unleave" => op' = op BY <3>1, TakenFrame
    <3> QED BY <2>1, <3>2 DEF AboutIt
  <2>4. y.do = "RemoveFiles" => op.space \notin reg'.entries \/ Within({"Unregister"})'
    <3>1. SUFFICES ASSUME y.do = "RemoveFiles", Step.do # "Unregister" PROVE op.space \notin reg'.entries \/ Within({"Unregister"})'
      BY TakenReg
    <3>2. reg'.entries \subseteq reg.entries BY <1>1, <3>1, TakenReg, Basics
    <3>3. Within({"Unregister"}) => Within({"Unregister"})' BY <1>4, <3>1 DEF Within
    <3> QED BY <2>1, <3>1, <3>2, <3>3 DEF AboutIt
  <2> QED BY <1>2, <1>5, <2>1, <2>2, <2>3, <2>4 DEF AboutIt, Early
<1>8. CASE /\ Put(y)
           /\ Step.do \in {"Recover", "Begin"}
           /\ y.do \in {"Note", "Import", "DropHost", "DropKey", "DropKnown", "Clear"}
  <2>1. y.do \in {"Note", "Import"} => y.j.from = op.space
    <3>1. SUFFICES ASSUME y.do \in {"Note", "Import"} PROVE y.j.from = op.space OBVIOUS
    <3>2. y \notin Drops(mem.journal.from, mem.journal.host) /\ y \notin Drops(Step.from, Step.id)
      BY <3>1 DEF Drops, DoHost
    <3>3. ~Settle /\ ~HandOn /\ ~TakeHosts /\ ~Opens BY <1>1, <1>8, StepIs DEF StepOf
    <3>4. Begin /\ y \in {BeginNote, BeginImport} BY <1>8, <3>1, <3>2, <3>3 DEF Put, Do
    <3>5. Step.do = "Begin" BY <1>1, <3>4, StepIs DEF StepOf
    <3>6. Step.from = op.space BY <1>3, <1>4, <3>5 DEF AboutIt
    <3>7. y.j.from = Step.from BY <3>4 DEF BeginNote, BeginImport, BeginJournal
    <3> QED BY <3>6, <3>7
  <2> QED BY <1>2, <1>8, <2>1 DEF AboutIt, Early
<1>9. CASE Step.do = "Settle" /\ y.do \in {"Unstage", "Promote", "ClearDoc", "EndHandover"}
  BY <1>9 DEF AboutIt, Early
<1>10. CASE /\ Put(y) /\ Step.do = "HandOn"
            /\ y.do \in {"Personal", "StageMain", "Stage", "Swap", "Settle"}
  <2>1. ~Recover /\ ~Begin /\ ~Settle /\ ~TakeHosts /\ ~Opens BY <1>1, <1>10, StepIs DEF StepOf
  <2>2. mem.main = Step.at /\ y \in SwapSteps(Other(Step.at)) BY <2>1, <1>10 DEF Put
  <2>3. Step.at = op.space /\ Other(Step.at) \in mem.entries /\ Other(Step.at) # Step.at
    BY <1>1, <1>4, <1>10, RemovalOf
  <2>4. mem.entries \subseteq Space /\ mem.main \in Space BY <1>1, Basics
  <2>5. y.do = "Swap" => y.at = Other(Step.at) BY <2>2, <2>3, <2>4, SwapStepFields
  <2> QED BY <1>2, <1>10, <2>3, <2>5 DEF AboutIt, Early
<1>11. CASE /\ Put(y) /\ Step.do = "TakeHosts"
            /\ y.do \in {"Recover", "Moved", "TakeKeys", "Begin"}
  <2>1. ~Recover /\ ~Begin /\ ~Settle /\ ~HandOn /\ ~Opens BY <1>1, <1>11, StepIs DEF StepOf
  <2>2. /\ y.do = "TakeKeys" => y.at = Step.at
        /\ y.do = "Begin" => y.from = Step.at
    BY <2>1, <1>11 DEF Put
  <2>3. Step.at = op.space /\ op.space \in mem.entries /\ mem.entries # {op.space}
    BY <1>3, <1>4, <1>11 DEF AboutIt, Early
  <2> QED BY <1>2, <1>6, <1>11, <2>2, <2>3 DEF AboutIt, Early
<1> QED BY <1>7, <1>8, <1>9, <1>10, <1>11, TakenOld

\* No host comes to a server that is removed.
LEMMA FewerOf ==
  ASSUME Taken, NEW i \in Id, Live(op.space, i)'
  PROVE  /\ Live(op.space, i)
         /\ Step.do = "DropHost" => Step.at # op.space \/ Step.id # i
<1>1. Inv /\ Next /\ Goes /\ Acts /\ Shape /\ StepOf(Step.do) BY TakenIs DEF Taken, Inv
<1>2. op.kind = "remove" /\ op'.space = op.space /\ op.space \in Space BY TakenIs
<1>3. PICK a \in Space : a = op.space BY <1>2
<1>4. \A x \in Todo : AboutIt(x) BY <1>1, <1>2, RemovingNow
<1>5. Step \in Todo BY <1>1 DEF Goes
<1>6. Live(a, i)' BY <1>2, <1>3 DEF Live
<1>7. store \in [Space -> StoreSet] BY <1>1, Basics
<1>8. store[a].host \in [Id -> State] BY <1>7, StoreFields
<1>9. CASE Shrinks
  <2>1. Live(a, i) BY <1>6, <1>9, ShrunkRows
  <2>2. Step.do = "DropHost" => Step.at # a \/ Step.id # i
    <3>1. SUFFICES ASSUME Step.do = "DropHost", Step.at = a, Step.id = i PROVE FALSE OBVIOUS
    <3>2. Drop BY <1>1, <3>1 DEF Acts, Dropped
    <3>3. store'[a].host = [store[a].host EXCEPT ![i] = IF @ = "live" THEN "dead" ELSE @]
      BY <1>1, <3>1, <3>2, DropIs
    <3> QED BY <1>6, <1>8, <3>3 DEF Live
  <2> QED BY <1>3, <2>1, <2>2
<1>10. CASE Import
  <2>1. Step.do = "Import" BY <1>1, <1>10, StepIs DEF StepOf
  <2>2. Step.j.from = a /\ Step.j.to # a
    <3>1. Step.j \in Entry BY <1>1, <1>10, ImportIs
    <3>2. Step.j.from = op.space BY <1>4, <1>5, <2>1 DEF AboutIt
    <3> QED BY <1>3, <3>1, <3>2, EntryFields
  <2>3. store'[a] = store[a] BY <1>1, <1>10, <2>2, ImportIs
  <2> QED BY <1>3, <1>6, <2>1, <2>3 DEF Live
<1>11. CASE Drop
  <2>1. /\ \A s \in Space : s # Step.at => store'[s] = store[s]
        /\ Step.do = "DropHost" =>
             store'[Step.at].host = [store[Step.at].host EXCEPT ![Step.id] = IF @ = "live" THEN "dead" ELSE @]
        /\ Step.do # "DropHost" => store'[Step.at].host = store[Step.at].host
        /\ Step.id \in Id
    BY <1>1, <1>11, DropIs
  <2>2. CASE Step.at # a
    <3>1. store'[a] = store[a] BY <2>1, <2>2
    <3> QED BY <1>3, <1>6, <2>2, <3>1 DEF Live
  <2>3. CASE Step.at = a /\ Step.do # "DropHost"
    BY <1>3, <1>6, <2>1, <2>3 DEF Live
  <2>4. CASE Step.at = a /\ Step.do = "DropHost"
    <3>1. store'[a].host = [store[a].host EXCEPT ![Step.id] = IF @ = "live" THEN "dead" ELSE @] BY <2>1, <2>4
    <3>2. store[a].host[i] = "live" /\ Step.id # i BY <1>6, <1>8, <2>1, <3>1 DEF Live
    <3> QED BY <1>3, <3>2 DEF Live
  <2> QED BY <2>2, <2>3, <2>4
<1>12. CASE TakeKeys
  <2>1. Step.do = "TakeKeys" BY <1>1, <1>12, StepIs DEF StepOf
  <2>2. store'[a].host = store[a].host
    <3>1. UNCHANGED store \/ (/\ \A s \in Space : s # Other(Step.at) => store'[s] = store[s]
                              /\ store'[Other(Step.at)].host = store[Other(Step.at)].host)
      BY <1>1, <1>12, TakeKeysIs
    <3> QED BY <3>1
  <2> QED BY <1>3, <1>6, <2>1, <2>2 DEF Live
<1> QED BY <1>1, <1>9, <1>10, <1>11, <1>12, RowsCases

\* Every host the server still has has its move to come.
LEMMA EmptiedNext ==
  ASSUME Taken
  PROVE  Emptied'
<1>1. Inv /\ Next /\ Goes /\ Acts /\ Shape /\ StepOf(Step.do) BY TakenIs DEF Taken, Inv
<1>2. op.kind = "remove" /\ op'.space = op.space /\ op.space \in Space BY TakenIs
<1>3. (\A x \in Todo : AboutIt(x)) /\ Emptied BY <1>1, <1>2, RemovingNow
<1>4. Step \in Todo /\ \A x \in Todo : x = Step \/ x \in Todo' BY <1>1 DEF Goes
<1>5. SUFFICES ASSUME Within({"Unregister"})'
               PROVE  /\ op'.taking \/ Within({"Leave"})' => Within({"HandOn"})'
                      /\ mem'.main # op.space \/ Within({"HandOn", "Swap"})'
                      /\ \A i \in Id : Live(op.space, i)' /\ i[1] \notin deleted' => OnItsWay(i)'
  BY <1>2 DEF Emptied, Live
<1>6. PICK y \in Todo' : y.do = "Unregister" BY <1>5 DEF Within
<1>7. y \in Todo /\ Step.do # "Unregister" BY <1>6, TakenOld, BeforeRemoved
<1>8. /\ op.taking \/ Within({"Leave"}) => Within({"HandOn"})
      /\ mem.main # op.space \/ Within({"HandOn", "Swap"})
      /\ \A i \in Id : Live(op.space, i) /\ i[1] \notin deleted => OnItsWay(i)
  BY <1>3, <1>6, <1>7 DEF Emptied, Within
<1>9. Within({"Leave"})' => Within({"Leave"}) /\ Step.do # "HandOn"
  <2> SUFFICES ASSUME NEW x \in Todo', x.do = "Leave" PROVE Within({"Leave"}) /\ Step.do # "HandOn" BY DEF Within
  <2>1. x \in Todo /\ Step.do # "HandOn" BY TakenOld, BeforeRemoved
  <2> QED BY <2>1 DEF Within
<1>10. op'.taking \/ Within({"Leave"})' => Within({"HandOn"})'
  <2>1. CASE Step.do = "HandOn"
    <3>1. op' = [op EXCEPT !.taking = FALSE] BY <1>1, <2>1 DEF Acts, HandOn
    <3>2. ~op'.taking BY <1>1, <3>1 DEF Inv, Types
    <3> QED BY <1>9, <2>1, <3>2
  <2>2. CASE Step.do # "HandOn"
    <3>1. Within({"HandOn"}) => Within({"HandOn"})' BY <1>4, <2>2 DEF Within
    <3>2. op'.taking => op.taking \/ Within({"Leave"})
      <4>1. CASE Step.do = "Leave" BY <1>4, <4>1 DEF Within
      <4>2. CASE Step.do = "Moved"
        <5>1. op' = [op EXCEPT !.moved = TRUE] BY <1>1, <4>2 DEF Acts, Moved
        <5> QED BY <1>1, <5>1 DEF Inv, Types
      <4> QED BY <2>2, <4>1, <4>2, TakenFrame
    <3> QED BY <1>8, <1>9, <3>1, <3>2
  <2> QED BY <2>1, <2>2
<1>11. mem'.main # op.space \/ Within({"HandOn", "Swap"})'
  <2>1. CASE Step.do = "HandOn"
    <3>1. Step.at = op.space /\ Other(Step.at) \in mem.entries /\ Other(Step.at) # Step.at
      BY <1>1, <1>4, <2>1, RemovalOf
    <3>2. CASE mem.main = Step.at
      <4>1. HandOn /\ mem \in Registry /\ RegOK(mem) BY <1>1, <2>1, Basics DEF Acts
      <4>2. Spliced(SwapSteps(Other(Step.at)), DoIn("Personal", Other(Step.at)))
        BY <1>1, <3>1, <3>2, <4>1, HandOnList
      <4>3. DoIn("Swap", Other(Step.at)) \in Todo' BY <4>2 DEF Spliced, SwapSteps
      <4> QED BY <4>3 DEF Within, DoIn
    <3>3. CASE mem.main # Step.at BY <2>1, <3>1, <3>3, TakenReg
    <3> QED BY <3>2, <3>3
  <2>2. CASE Step.do = "Swap"
    <3>1. Step.at # op.space BY <1>3, <1>4, <2>2 DEF AboutIt
    <3> QED BY <2>2, <3>1, TakenReg
  <2>3. CASE Step.do \notin {"HandOn", "Swap"}
    <3>1. Within({"HandOn", "Swap"}) => Within({"HandOn", "Swap"})' BY <1>4, <2>3 DEF Within
    <3> QED BY <1>8, <2>3, <3>1, TakenReg
  <2> QED BY <2>1, <2>2, <2>3
<1>12. ASSUME NEW i \in Id, Live(op.space, i)', i[1] \notin deleted' PROVE OnItsWay(i)'
  <2>1. Live(op.space, i) /\ (Step.do = "DropHost" => Step.at # op.space \/ Step.id # i) BY <1>12, FewerOf
  <2>2. OnItsWay(i) BY <1>8, <1>12, <2>1, TakenFrame
  <2>3. CASE Within({"TakeHosts"})
    <3>1. CASE Step.do # "TakeHosts" BY <1>4, <2>3, <3>1 DEF Within, OnItsWay
    <3>2. CASE Step.do = "TakeHosts"
      <4>1. Step.at = op.space /\ Other(Step.at) \in mem.entries BY <1>1, <1>4, <3>2, RemovalOf
      <4>2. TakeHosts /\ Other(Step.at) \in Space BY <1>1, <3>2, <4>1, Basics DEF Acts
      <4>3. PICK M, f : Spliced(M, f) /\ \A k \in Id : Live(Step.at, k) => \E x \in M : x.do = "Begin" /\ x.id = k
        BY <1>1, <4>2, TakeHostsList
      <4>4. PICK x \in M : x.do = "Begin" /\ x.id = i BY <2>1, <4>1, <4>3
      <4>5. x \in Todo' BY <4>3, <4>4 DEF Spliced
      <4> QED BY <4>4, <4>5 DEF OnItsWay
    <3> QED BY <3>1, <3>2
  <2>4. CASE \E x \in Todo : x.do = "Begin" /\ x.id = i
    <3>1. PICK x \in Todo : x.do = "Begin" /\ x.id = i BY <2>4
    <3>2. CASE x # Step BY <1>4, <3>1, <3>2 DEF OnItsWay
    <3>3. CASE x = Step
      <4>1. Begin BY <1>1, <3>1, <3>3 DEF Acts
      <4>2. Step.from # Step.to BY <1>1, <3>1, <3>3 DEF Inv, MoveOK
      <4>3. store \in [Space -> StoreSet] BY <1>1, Basics
      <4>4. Fallen({}) \/ Spliced({BeginNote, BeginImport} \cup Drops(Step.from, Step.id) \cup {Do("Clear")}, BeginNote)
        BY <1>1, <4>1, <4>2, <4>3, BeginList
      <4>5. ~Fallen({}) BY <1>6 DEF Fallen
      <4>6. DoHost("DropHost", Step.from, Step.id) \in Todo' BY <4>4, <4>5 DEF Spliced, Drops
      <4>7. Step.from = op.space BY <1>3, <3>1, <3>3 DEF AboutIt
      <4>8. \E z \in Todo' : z.do = "DropHost" /\ z.id = i /\ z.at = op.space BY <3>1, <3>3, <4>6, <4>7 DEF DoHost
      <4> QED BY <1>2, <4>8 DEF OnItsWay
    <3> QED BY <3>2, <3>3
  <2>5. CASE \E x \in Todo : x.do = "DropHost" /\ x.id = i /\ x.at = op.space
    BY <1>2, <1>4, <2>1, <2>5 DEF OnItsWay
  <2> QED BY <2>2, <2>3, <2>4, <2>5 DEF OnItsWay
<1> QED BY <1>10, <1>11, <1>12

\* Every step keeps a removal about its server.
LEMMA RemovingStep ==
  ASSUME Inv, Next
  PROVE  Removing'
<1> SUFFICES ASSUME op'.kind = "remove" PROVE Removing' BY DEF Removing
<1>1. CASE Aside BY <1>1, RemovingAside
<1>2. CASE Asking BY <1>2, RemovingAsked
<1>3. CASE Crash BY <1>3 DEF Crash, Idle
<1>4. CASE GivesUp
  <2>1. op'.kind = op.kind /\ Step \in Todo /\ Step.do = "Register" BY <1>4 DEF GivesUp
  <2>2. op.kind = "adopt" BY <2>1, KindsOf, Basics
  <2> QED BY <2>1, <2>2
<1>5. CASE Falls BY <1>5, RemovingFalls
<1>6. CASE Failed BY <1>6 DEF Failed, Idle
<1>7. CASE Goes /\ Acts /\ ~Crash /\ ~Errs /\ ~Asking
  <2>1. Taken BY <1>7 DEF Taken
  <2> QED BY <2>1, HoldsNext, NotedNext, AboutNext, EmptiedNext, RemovingThen
<1> QED BY <1>1, <1>2, <1>3, <1>4, <1>5, <1>6, <1>7, Cases

------------------------------------------------------------------------------
(* A server hosts have left stays noted and held                            *)

Filed(s)    == s \in files \ {pending}
NotedReg(s) == reg.leaving = s \/ s \notin reg.entries
NotedMem(s) == mem.leaving = s \/ s \notin mem.entries
Quiet(s) ==
  /\ running[s] # "going"
  /\ up => s \in held \cup gone \/ (s \notin mem.entries /\ running[s] # "pass")

\* What a server hosts have left is like, part by part.
LEMMA LeavingNow ==
  ASSUME Inv, NEW e \in left
  PROVE  /\ e[1] \in Space /\ Filed(e[1])
         /\ e[1] \notin unnoted => NotedReg(e[1]) /\ NotedMem(e[1]) /\ Quiet(e[1])
<1>1. e[1] \in Space BY DEF Inv, Types, TypeOK
<1> QED BY <1>1 DEF Inv, Leaving, Filed, NotedReg, NotedMem, Quiet

\* The parts together.
LEMMA LeavingThen ==
  ASSUME \A e \in left' : /\ Filed(e[1])'
                          /\ e[1] \notin unnoted' => NotedReg(e[1])' /\ NotedMem(e[1])' /\ Quiet(e[1])',
         HeldWhileLeaving'
  PROVE  Leaving'
BY DEF Leaving, Filed, NotedReg, NotedMem, Quiet

\* A store keeps its file unless a removal takes it.
LEMMA FiledNext ==
  ASSUME Inv, Next, NEW s \in Space, Filed(s), ~(RemoveFiles /\ Step.at = s),
         \/ ~Opens
         \/ s \in files'
  PROVE  Filed(s)'
<1>1. MakeFile => Step.at \notin files
  <2>1. SUFFICES ASSUME MakeFile PROVE Step.at \notin files OBVIOUS
  <2>2. StepOf("MakeFile") BY <2>1, StepIs DEF Inv
  <2> QED BY <2>2 DEF StepOf, Inv, Setup
<1>2. s # None BY SpacesAssumption
<1>3. CASE UNCHANGED <<files, pending>> BY <1>3 DEF Filed
<1>4. CASE RemoveFiles /\ files' = files \ {Step.at} /\ UNCHANGED pending BY <1>4 DEF Filed
<1>5. CASE MakeFile /\ files' = files \cup {Step.at} /\ pending' = Step.at BY <1>1, <1>5 DEF Filed
<1>6. CASE pending' = None /\ UNCHANGED files BY <1>2, <1>6 DEF Filed
<1>7. CASE Discard /\ files' = files \ {Step.at} /\ pending' = None /\ Step.at = pending BY <1>2, <1>7 DEF Filed
<1>8. CASE Opens /\ UNCHANGED pending BY <1>8 DEF Filed
<1>9. CASE files' \in {files, files \cup {Step.at}} /\ UNCHANGED pending BY <1>9 DEF Filed
<1> QED BY <1>3, <1>4, <1>5, <1>6, <1>7, <1>8, <1>9, FilesAre

\* The note of the server that is being taken is taken back.
LEMMA UnleaveIs ==
  ASSUME Inv, Unleave \/ (Skips /\ Step.do = "Unleave")
  PROVE  /\ mem.leaving = op.space
         /\ unnoted' = unnoted \cup {e[1] : e \in {f \in left : f[1] = op.space}}
<1>1. StepOf("Unleave") BY StepIs, SkipIs DEF Inv
<1>2. op.kind = "remove" BY <1>1, KindsOf, Basics DEF StepOf
<1>3. AboutIt(Step) /\ TakingIt BY <1>1, <1>2, RemovingNow DEF StepOf
<1>4. ~AtFirst({"Failed"}) BY <1>1 DEF AtFirst, StepOf
<1>5. mem.leaving = op.space BY <1>1, <1>3, <1>4 DEF AboutIt, TakingIt, StepOf
<1>6. unnoted' = unnoted \cup {e[1] : e \in {f \in left : f[1] = op.space}} BY SkipIs DEF Unleave
<1> QED BY <1>5, <1>6

\* A note that could not be written takes the other one with it.
LEMMA LeaveErrs ==
  ASSUME Errs, Step.do = "Leave"
  PROVE  unnoted' = unnoted \cup ({mem.leaving} \ {None})
BY DEF Errs, Fail, FailWrite, FailPersist, FailMake, FailDiscard, FailSweep, Doing, Step

\* The note on disk and in memory stays, or the server leaves the registry.
LEMMA NotedStays ==
  ASSUME Inv, Next, NEW s \in Space, Filed(s), s \notin unnoted', \E e \in left : e[1] = s,
         NotedReg(s), NotedMem(s)
  PROVE  NotedReg(s)' /\ NotedMem(s)'
<1>1. s # None BY SpacesAssumption
<1>2. CASE UNCHANGED <<mem, reg>> BY <1>2 DEF NotedReg, NotedMem
<1>3. CASE reg' \in {reg, mem'} /\ RegNote BY <1>3 DEF NotedReg, NotedMem, RegNote
<1>4. CASE reg' \in {reg, mem'} /\ RegHand BY <1>4 DEF NotedReg, NotedMem, RegHand
<1>5. CASE reg' = mem' /\ RegSwap BY <1>5 DEF NotedReg, NotedMem, RegSwap
<1>6. CASE Leave /\ reg' = mem' /\ RegLeave /\ mem'.leaving = Step.at
  <2>1. unnoted' = unnoted \cup ({mem.leaving} \ {None, Step.at}) BY <1>6 DEF Leave
  <2>2. mem.leaving = s => s = Step.at BY <1>1, <2>1
  <2> QED BY <1>6, <2>2 DEF NotedReg, NotedMem, RegLeave
<1>7. CASE /\ Unleave \/ (Skips /\ Step.do = "Unleave")
           /\ reg' \in {reg, mem'} /\ RegLeave /\ mem'.leaving = None
  <2>1. mem.leaving # s
    <3>1. SUFFICES ASSUME mem.leaving = s PROVE FALSE OBVIOUS
    <3>2. PICK e \in left : e[1] = s OBVIOUS
    <3>3. e[1] = op.space BY <1>7, <3>1, <3>2, UnleaveIs
    <3> QED BY <1>7, <3>2, <3>3, UnleaveIs
  <2> QED BY <1>7, <2>1 DEF NotedReg, NotedMem, RegLeave
<1>8. CASE reg' \in {reg, mem'} /\ RegGone /\ mem.entries = {mem.main, Step.at} /\ Step.at # mem.main
  BY <1>8 DEF NotedReg, NotedMem, RegGone
<1>9. CASE Register /\ reg' = mem' /\ RegNew /\ mem.entries = {mem.main} /\ Step.at = pending
  BY <1>9 DEF NotedReg, NotedMem, RegNew, Filed
<1>10. CASE Opens /\ reg' = reg /\ RegOpen BY <1>10 DEF NotedReg, NotedMem, RegOpen
<1>11. CASE RegHand /\ TornSwap BY <1>11 DEF NotedReg, NotedMem, RegHand, TornSwap
<1>12. CASE Errs /\ Step.do = "Leave" /\ RegLeave /\ mem'.leaving = None /\ (reg' = reg \/ TornLeave)
  <2>1. unnoted' = unnoted \cup ({mem.leaving} \ {None}) BY <1>12, LeaveErrs
  <2>2. mem.leaving # s BY <1>1, <2>1
  <2>3. s \notin mem.entries BY <2>2 DEF NotedMem
  <2> QED BY <1>12, <2>3 DEF NotedReg, NotedMem, RegLeave, TornLeave
<1>13. CASE UNCHANGED mem /\ TornNew /\ mem.entries = {mem.main} /\ Step.at = pending
  BY <1>13 DEF NotedReg, NotedMem, TornNew, Filed
<1> QED BY <1>2, <1>3, <1>4, <1>5, <1>6, <1>7, <1>8, <1>9, <1>10, <1>11, <1>12, <1>13, RegIs

\* The program comes up only when it has been opened.
LEMMA UpIs ==
  ASSUME Inv, Next, up'
  PROVE  up \/ Ready
BY OpFrame, RemoveFrames, Asked DEF Crash

\* A server that has left the registry does not come back: only one just set up is adopted.
LEMMA StaysOut ==
  ASSUME Inv, Next, NEW s \in Space, Filed(s), up', s \notin mem.entries
  PROVE  s \notin mem'.entries
<1>1. CASE UNCHANGED mem BY <1>1
<1>2. CASE mem'.entries = mem.entries BY <1>2
<1>3. CASE RegGone /\ mem.entries = {mem.main, Step.at} BY <1>3 DEF RegGone
<1>4. CASE Register /\ RegNew /\ mem.entries = {mem.main} /\ Step.at = pending /\ pending # None
  BY <1>4 DEF RegNew, Filed
<1>5. CASE Opens
  <2>1. ~up /\ up' = up BY <1>5, OpenIs, OtherFrames
  <2> QED BY <2>1
<1> QED BY <1>1, <1>2, <1>3, <1>4, <1>5, RegIs DEF RegNote, RegHand, RegSwap, RegLeave

\* A removal that fails once its server has left the registry has its passes stopped.
LEMMA FailedQuiet ==
  ASSUME Inv, Failed, op.kind = "remove", op.space \notin mem.entries
  PROVE  running[op.space] = "op"
<1>1. StepOf("Failed") BY StepIs DEF Inv
<1>2. \A x \in Todo : x = Step BY <1>1, OpenAlone DEF Ending
<1>3. ~Within({"TakeRunning"}) BY <1>1, <1>2 DEF Within, StepOf
<1> QED BY <1>3, RemovingNow DEF RunsIt

\* A server hosts have left stays held, or without a pass.
LEMMA QuietStays ==
  ASSUME Inv, Next, NEW s \in Space, Filed(s), NotedMem(s), Quiet(s)
  PROVE  Quiet(s)'
<1>1. running \in [Space -> {"no", "pass", "going", "op"}] BY DEF Inv, Types, TypeOK
<1>2. up' => up \/ Ready BY UpIs
<1>3. up' /\ s \notin mem.entries => s \notin mem'.entries BY StaysOut
<1>4. s # None BY SpacesAssumption
<1>5. CASE UNCHANGED <<held, gone, running>> /\ ~Ready BY <1>2, <1>3, <1>5 DEF Quiet
<1>6. CASE Hold
  <2>1. held' = held \cup {Step.at} /\ UNCHANGED <<gone, running, up>> BY <1>6, RemoveFrames DEF Hold
  <2> QED BY <1>3, <2>1 DEF Quiet
<1>7. CASE TakeRunning
  <2>1. running' = [running EXCEPT ![Step.at] = "op"] /\ UNCHANGED <<held, gone, up>>
    BY <1>7, RemoveFrames DEF TakeRunning
  <2>2. running'[s] \in {running[s], "op"} BY <1>1, <2>1
  <2> QED BY <1>3, <2>1, <2>2 DEF Quiet
<1>8. CASE Retire
  <2>1. gone' = gone \cup {Step.at} /\ UNCHANGED <<held, running, up>> BY <1>8, RemoveFrames DEF Retire
  <2> QED BY <1>3, <2>1 DEF Quiet
<1>9. CASE Failed \/ Done
  <2>1. running' = Released /\ UNCHANGED <<gone, up, mem>> BY <1>9, RemoveFrames DEF Failed, Done
  <2>2. running'[s] \in {running[s], "no"} /\ (running[s] = "op" => running'[s] = "no") BY <1>1, <2>1 DEF Released
  <2>3. CASE s \in held' \/ s \notin held BY <2>1, <2>2, <2>3 DEF Quiet
  <2>4. CASE s \in held /\ s \notin held'
    <3>1. Failed BY <1>9, <2>4, RemoveFrames
    <3>2. op.kind = "remove" /\ mem.leaving # op.space /\ s = op.space BY <2>4, <3>1 DEF Failed
    <3>3. s \notin mem.entries BY <3>2 DEF NotedMem
    <3>4. running[s] = "op" BY <3>1, <3>2, <3>3, FailedQuiet
    <3> QED BY <2>1, <2>2, <3>3, <3>4 DEF Quiet
  <2> QED BY <2>3, <2>4
<1>10. CASE Ready
  <2>1. held' = HeldAtStart /\ UNCHANGED <<running, mem>> BY <1>10, OtherFrames DEF Ready
  <2>2. StepOf("Ready") BY <1>10, StepIs DEF Inv
  <2>3. op.kind = "none" /\ todo # <<>> BY <2>2, KindsOf, Basics DEF StepOf
  <2>4. ~up BY <2>3 DEF Inv, KindOK
  <2>5. running[s] = "no" BY <2>4 DEF Inv, KindOK
  <2>6. mem.leaving = s => s \in held' BY <1>4, <2>1 DEF HeldAtStart
  <2> QED BY <2>1, <2>5, <2>6 DEF Quiet, NotedMem
<1>11. CASE Crash BY <1>11 DEF Crash, Quiet
<1>12. CASE \E t \in Space : PassBegin(t)
  <2>1. PICK t \in Space : PassBegin(t) BY <1>12
  <2>2. /\ t \in mem.entries /\ running' = [running EXCEPT ![t] = "pass"] /\ UNCHANGED <<held, gone, mem, up>>
    BY <2>1, OtherFrames DEF PassBegin
  <2>3. running'[s] \in {running[s], "pass"} /\ (s # t => running'[s] = running[s]) BY <1>1, <2>2
  <2> QED BY <2>2, <2>3 DEF Quiet
<1>13. CASE \E t \in Space : PassCheck(t)
  <2>1. PICK t \in Space : PassCheck(t) BY <1>13
  <2>2. /\ running' = [running EXCEPT ![t] = IF t \in gone \cup held THEN "no" ELSE "going"]
        /\ UNCHANGED <<held, gone, mem, up>> /\ up /\ running[t] = "pass"
    BY <2>1, OtherFrames DEF PassCheck
  <2>3. running'[s] = IF s = t THEN (IF s \in gone \cup held THEN "no" ELSE "going") ELSE running[s] BY <1>1, <2>2
  <2> QED BY <2>2, <2>3 DEF Quiet
<1>14. CASE \E t \in Space : PassEnd(t)
  <2>1. PICK t \in Space : PassEnd(t) BY <1>14
  <2>2. running' = [running EXCEPT ![t] = "no"] /\ UNCHANGED <<held, gone, mem, up>>
    BY <2>1, OtherFrames DEF PassEnd
  <2>3. running'[s] \in {running[s], "no"} BY <1>1, <2>2
  <2> QED BY <2>2, <2>3 DEF Quiet
<1> QED BY <1>5, <1>6, <1>7, <1>8, <1>9, <1>10, <1>11, <1>12, <1>13, <1>14, FlagFrame

\* A host leaves only a server that is noted, held and not syncing.
LEMMA LeftNow ==
  ASSUME Inv, Drop, StepOf("DropHost"), op.kind = "remove", op.space = Step.at
  PROVE  Filed(op.space) /\ NotedReg(op.space) /\ NotedMem(op.space) /\ Quiet(op.space)
<1>1. Shape BY DEF Inv
<1>2. HoldsIt /\ RunsIt /\ NotedIt BY RemovingNow
<1>3. \A x \in Todo : x = Step \/ Precedes("DropHost", x.do) BY <1>1, Behind
<1>4. \A x \in Todo : x.do \in Names BY <1>1, StepFields DEF StepOf
<1>5. \A x \in Todo : x.do \notin {"Hold", "TakeRunning", "Leave"}
  <2> SUFFICES ASSUME NEW x \in Todo, x.do \in {"Hold", "TakeRunning", "Leave"} PROVE FALSE OBVIOUS
  <2>1. x # Step BY DEF StepOf
  <2>2. Precedes("DropHost", x.do) /\ x.do \in Names BY <1>3, <1>4, <2>1
  <2> QED BY <2>2, Before DEF Names, Dropped
<1>6. op.space \in held /\ mem.leaving = op.space BY <1>2, <1>5 DEF HoldsIt, NotedIt, Within, Takers, StepOf
<1>7. running[op.space] = "op" BY <1>2, <1>5 DEF RunsIt, Within, AtFirst, StepOf
<1>8. mem.leaving # None /\ reg.leaving = mem.leaving
  <2>1. op.space \in Space BY DEF Inv, KindOK
  <2> QED BY <1>6, <2>1, SpacesAssumption DEF Inv, Registered
<1>9. op.space \in mem.entries
  <2>1. mem.journal # NoJournal /\ Step.at = mem.journal.from
    BY DEF Inv, MoveOK, Dropped, AtFirst, StepOf
  <2> QED BY <2>1, JournalIn
<1>10. op.space \in files BY <1>9 DEF Inv, Registered
<1>11. op.space # pending
  <2>1. op.space \in Space BY DEF Inv, KindOK
  <2> QED BY <1>9, <2>1, SpacesAssumption DEF Inv, Setup
<1> QED BY <1>6, <1>7, <1>8, <1>10, <1>11 DEF Filed, NotedReg, NotedMem, Quiet

\* Every step keeps the servers hosts have left noted and held.
LEMMA LeavingStep ==
  ASSUME Inv, Next
  PROVE  Leaving'
<1>1. unnoted \subseteq unnoted'
  <2>1. UNCHANGED unnoted \/ Leave \/ Unleave \/ (Errs /\ Step.do = "Leave") \/ (Skips /\ Step.do = "Unleave")
    BY GhostFrame, MoveFrames, RemoveFrames, OtherFrames
  <2>2. Leave => unnoted \subseteq unnoted' BY DEF Leave
  <2>3. Errs /\ Step.do = "Leave" => unnoted \subseteq unnoted' BY LeaveErrs
  <2> QED BY <2>1, <2>2, <2>3, UnleaveIs
<1>2. HeldWhileLeaving'
  <2>1. UNCHANGED wiped \/ \E s \in Space : PassEnd(s) BY GhostFrame, MoveFrames, RemoveFrames, OtherFrames
  <2>2. CASE UNCHANGED wiped BY <1>1, <2>2 DEF Inv, Leaving, HeldWhileLeaving
  <2>3. CASE \E s \in Space : PassEnd(s)
    <3>1. PICK s \in Space : PassEnd(s) BY <2>3
    <3>2. running[s] = "going" /\ wiped' \subseteq wiped \cup {e \in left : e[1] = s} BY <3>1 DEF PassEnd
    <3>3. \A e \in left : e[1] = s => e[1] \in unnoted BY <3>2, LeavingNow DEF Quiet
    <3> QED BY <1>1, <3>2, <3>3 DEF Inv, Leaving, HeldWhileLeaving
  <2> QED BY <2>1, <2>2, <2>3
<1>3. ASSUME NEW e \in left'
      PROVE  Filed(e[1])' /\ (e[1] \notin unnoted' => NotedReg(e[1])' /\ NotedMem(e[1])' /\ Quiet(e[1])')
  <2>1. CASE e \in left
    <3>1. e[1] \in Space /\ Filed(e[1]) BY <2>1, LeavingNow
    <3>2. PICK s \in Space : s = e[1] BY <3>1
    <3>3. ~(RemoveFiles /\ Step.at = s) BY <1>3, <3>2 DEF RemoveFiles
    <3>8. ~Opens \/ s \in files'
      <4>1. SUFFICES ASSUME Opens PROVE s \in files' OBVIOUS
      <4>2. PICK W \in SUBSET Swept : files' = (files \cup reg.entries) \ W /\ left' = {d \in left : d[1] \notin W}
        BY <4>1, OpenIs
      <4> QED BY <1>3, <3>1, <3>2, <4>2 DEF Filed
    <3>4. Filed(s)' BY <3>1, <3>2, <3>3, <3>8, FiledNext
    <3>5. ASSUME s \notin unnoted' PROVE NotedReg(s)' /\ NotedMem(s)' /\ Quiet(s)'
      <4>1. NotedReg(s) /\ NotedMem(s) /\ Quiet(s) BY <1>1, <2>1, <3>2, <3>5, LeavingNow
      <4> QED BY <2>1, <3>1, <3>2, <3>5, <4>1, NotedStays, QuietStays
    <3>6. e[1] = s BY <3>2
    <3> HIDE <3>2
    <3> QED BY <3>4, <3>5, <3>6 DEF Filed, NotedReg, NotedMem, Quiet
  <2>2. CASE e \notin left
    <3>1. Drop
      <4>1. Opens => left' \subseteq left
        <5>1. SUFFICES ASSUME Opens PROVE left' \subseteq left OBVIOUS
        <5>2. PICK W \in SUBSET Swept : left' = {d \in left : d[1] \notin W} BY <5>1, OpenIs
        <5> QED BY <5>2
      <4> QED BY <1>3, <2>2, <4>1, GhostFrame, RemoveFrames, OtherFrames DEF RemoveFiles
    <3>2. StepOf("DropHost") /\ op.kind = "remove" /\ op.space = Step.at /\ e[1] = op.space
      <4>1. \E a \in Dropped : StepOf(a) BY <3>1, StepIs DEF Inv
      <4>2. Doing("DropHost") BY <1>3, <2>2, <3>1 DEF Drop
      <4>3. StepOf("DropHost") BY <4>1, <4>2 DEF StepOf, Doing, Step
      <4>4. left' = IF op.kind = "remove" /\ op.space = Step.at /\ Live(Step.at, Step.id)
                    THEN left \cup {<<Step.at, Step.id>>} ELSE left
        BY <3>1, <4>2 DEF Drop, Doing
      <4> QED BY <1>3, <2>2, <4>3, <4>4
    <3>3. PICK s \in Space : s = op.space BY <3>2 DEF Inv, KindOK
    <3>4. Filed(s) /\ NotedReg(s) /\ NotedMem(s) /\ Quiet(s) BY <3>1, <3>2, <3>3, LeftNow
    <3>5. UNCHANGED <<files, pending, reg, mem, running, up, held, gone>> BY <3>1, MoveFrames
    <3>6. Filed(s)' /\ NotedReg(s)' /\ NotedMem(s)' /\ Quiet(s)'
      BY <3>4, <3>5 DEF Filed, NotedReg, NotedMem, Quiet
    <3>7. e[1] = s BY <3>2, <3>3
    <3> HIDE <3>3
    <3> QED BY <3>6, <3>7 DEF Filed, NotedReg, NotedMem, Quiet
  <2> QED BY <2>1, <2>2
<1> QED BY <1>2, <1>3, LeavingThen

------------------------------------------------------------------------------
(* The personal records                                                     *)

SameDocs     == \A s \in Space : store'[s].doc = store[s].doc
SameSealings == \A s \in Space : SameSeals(store[s], store'[s])

\* Steps about rows leave documents and keys of keys alone.
LEMMA RowsOnly ==
  ASSUME Inv, Next, \/ UNCHANGED store \/ Import \/ Drop \/ TakeKeys \/ (\E i \in Id : DeleteHost(i))
                    \/ (\E s \in Space, i \in Id : PassPull(s, i))
  PROVE  SameDocs /\ SameSealings
<1>1. CASE UNCHANGED store BY <1>1 DEF SameDocs, SameSealings, SameSeals
<1>2. CASE Import
  <2>1. /\ \A s \in Space : s # Step.j.to => store'[s] = store[s]
        /\ store'[Step.j.to].doc = store[Step.j.to].doc /\ SameSeals(store[Step.j.to], store'[Step.j.to])
    BY <1>1, <1>2, ImportIs DEF SameSeals
  <2> QED BY <2>1 DEF SameDocs, SameSealings, SameSeals
<1>3. CASE Drop
  <2>1. /\ \A s \in Space : s # Step.at => store'[s] = store[s]
        /\ store'[Step.at].doc = store[Step.at].doc /\ SameSeals(store[Step.at], store'[Step.at])
    BY <1>3, DropIs
  <2> QED BY <2>1 DEF SameDocs, SameSealings, SameSeals
<1>4. CASE TakeKeys
  <2>1. \/ UNCHANGED store
        \/ /\ \A s \in Space : s # Other(Step.at) => store'[s] = store[s]
           /\ store'[Other(Step.at)].doc = store[Other(Step.at)].doc
           /\ SameSeals(store[Other(Step.at)], store'[Other(Step.at)])
    BY <1>4, TakeKeysIs
  <2> QED BY <1>1, <2>1 DEF SameDocs, SameSealings, SameSeals
<1>5. CASE (\E i \in Id : DeleteHost(i)) \/ (\E s \in Space, i \in Id : PassPull(s, i))
  <2>1. PICK s \in Space, i \in Id : Deleting(s, i) BY <1>5, DeleteCases
  <2>2. /\ \A t \in Space : t # s => store'[t] = store[t]
        /\ store'[s].doc = store[s].doc /\ SameSeals(store[s], store'[s])
    BY <2>1, DeletingIs
  <2> QED BY <2>2 DEF SameDocs, SameSealings, SameSeals
<1> QED BY <1>1, <1>2, <1>3, <1>4, <1>5

\* A rechain and the opening of a vault leave the records alone.
LEMMA ChainDocs ==
  ASSUME Inv, Reseal \/ Unlock \/ Rechaining
  PROVE  SameDocs
<1>1. CASE Rechaining
  <2>1. PICK m \in Space, s \in Space : RechainUnlock(m, s) \/ RechainSeal(m, s) BY <1>1 DEF Rechaining
  <2> QED BY <2>1, RechainIs DEF SameDocs
<1> QED BY <1>1, ResealIs, UnlockIs DEF SameDocs

\* Who writes the personal records.
LEMMA DocsFrame ==
  ASSUME Inv, Next
  PROVE  \/ SameDocs \/ Personal \/ SettleStep \/ RemoveFiles \/ Discard \/ Opens
         \/ \E v \in 0 .. MaxOps : EditDoc(v)
<1>1. StageMain => SameDocs BY StageMainIs DEF SameDocs
<1>2. StageOther => SameDocs BY StageOtherIs DEF SameDocs
<1>3. Unstage => SameDocs BY UnstageIs DEF SameDocs
<1> QED BY <1>1, <1>2, <1>3, RowsOnly, ChainDocs, StoreFrame

\* Who writes how a store's key is kept.
LEMMA SealsFrame ==
  ASSUME Inv, Next
  PROVE  \/ SameSealings \/ StageMain \/ StageOther \/ Unstage \/ SettleStep \/ RemoveFiles \/ Discard \/ Opens
         \/ Reseal \/ Unlock \/ Rechaining
<1>1. Personal => SameSealings BY PersonalIs DEF SameSealings
<1>2. (\E v \in 0 .. MaxOps : EditDoc(v)) => SameSealings BY EditDocIs DEF SameSealings
<1> QED BY <1>1, <1>2, RowsOnly, StoreFrame

\* What another server than main server m may have.
Later(m, s) == store[s].doc.val \in {0, doc} \/ store[s].doc.at < store[m].doc.at
Leads(m)    == store[m].doc.val = doc /\ \A s \in reg.entries : Later(m, s)
MainDoc ==
  /\ doc = 0 => \A s \in reg.entries : store[s].doc.val = 0
  /\ doc \notin {0, None} => Leads(mem.main) /\ Leads(reg.main)
SwapDoc(x) ==
  x.do = "Swap" => doc \in {0, None} \/ store[x.at].doc.val = doc \/ Within({"Personal"})

\* Where the personal records are, part by part.
LEMMA DocsNow ==
  ASSUME Inv
  PROVE  MainDoc /\ (\A x \in Todo : SwapDoc(x)) /\ (\A s \in reg.entries : store[s].doc.at < now)
         /\ now \in Nat /\ (\A s \in Space : store[s].doc.val \in 0 .. MaxOps /\ store[s].doc.at \in Nat)
<1>1. MainDoc /\ \A x \in Todo : SwapDoc(x) BY DEF Inv, Docs, MainDoc, SwapDoc, Later, Leads
<1>2. /\ reg.entries \subseteq Space /\ now \in Nat /\ \A s \in Space : store[s].doc.at < now
  BY Basics DEF StoresOK
<1>3. \A s \in Space : store[s].doc.val \in 0 .. MaxOps /\ store[s].doc.at \in Nat
  BY Basics, StoreFields
<1> QED BY <1>1, <1>2, <1>3

\* The docs of the stores the registry names, and what the user left, stay.
LEMMA MainDocKept ==
  ASSUME Inv, doc' = doc, mem'.main \in {mem.main, reg.main}, reg'.main \in {mem.main, reg.main},
         \A s \in reg.entries : store'[s].doc = store[s].doc \/ (store'[s].doc.val = 0 /\ store[s].doc.val = 0),
         \A s \in reg'.entries : s \in reg.entries \/ store'[s].doc.val = 0
  PROVE  MainDoc'
<1>1. MainDoc BY DocsNow
<1>2. mem.main \in reg.entries /\ reg.main \in reg.entries BY Basics
<1>3. ASSUME doc = 0, NEW s \in reg'.entries PROVE store'[s].doc.val = 0
  <2>1. s \in reg.entries => store[s].doc.val = 0 BY <1>1, <1>3 DEF MainDoc
  <2> QED BY <1>3, <2>1
<1>4. ASSUME doc \notin {0, None}, NEW m \in {mem.main, reg.main} PROVE Leads(m)'
  <2>1. store[m].doc.val = doc /\ \A s \in reg.entries : Later(m, s) BY <1>1, <1>4 DEF MainDoc, Leads
  <2>2. store'[m].doc = store[m].doc BY <1>2, <1>4, <2>1
  <2>3. ASSUME NEW s \in reg'.entries PROVE Later(m, s)'
    <3>1. CASE s \in reg.entries /\ store'[s].doc = store[s].doc BY <2>1, <2>2, <3>1 DEF Later
    <3>2. CASE store'[s].doc.val = 0 BY <3>2 DEF Later
    <3> QED BY <2>3, <3>1, <3>2
  <2> QED BY <2>1, <2>2, <2>3 DEF Leads
<1>5. doc' # 0 \/ \A s \in reg'.entries : store'[s].doc.val = 0 BY <1>3
<1>6. ASSUME doc' \notin {0, None} PROVE Leads(mem.main)' /\ Leads(reg.main)'
  <2>1. PICK a \in {mem.main, reg.main}, b \in {mem.main, reg.main} : a = mem'.main /\ b = reg'.main OBVIOUS
  <2>2. Leads(a)' /\ Leads(b)' BY <1>4, <1>6
  <2> QED BY <2>1, <2>2 DEF Leads, Later
<1> QED BY <1>5, <1>6 DEF MainDoc

\* Every store the registry names has the records, as has the next main server.
LEMMA AllHave ==
  ASSUME Inv, doc' = doc, mem'.main \in reg'.entries, reg'.main \in reg'.entries,
         doc = 0 => \A s \in reg'.entries : store'[s].doc.val = 0,
         doc \notin {0, None} => \A s \in reg'.entries : store'[s].doc.val = doc
  PROVE  MainDoc'
BY DEF MainDoc, Leads, Later

\* The main server changes with a swap only, and a server that is new has no records.
LEMMA EntriesNext ==
  ASSUME Inv, Next
  PROVE  /\ \/ mem'.main \in {mem.main, reg.main} /\ reg'.main \in {mem.main, reg.main}
            \/ Swap \/ (Errs /\ Step.do = "Swap")
         /\ \A s \in reg'.entries : s \in reg.entries
              \/ (s = pending /\ store[s].doc.val = 0 /\ (Register \/ (Errs /\ Step.do = "Register")))
<1>1. mem.entries \subseteq reg.entries /\ mem.main \in mem.entries BY Basics
<1>2. pending # None => store[pending].doc.val = 0 BY DEF Inv, Setup, Unused
<1>3. CASE UNCHANGED <<mem, reg>> BY <1>3
<1>4. CASE reg' \in {reg, mem'} /\ (RegNote \/ RegHand \/ RegLeave) BY <1>1, <1>4 DEF RegNote, RegHand, RegLeave
<1>5. CASE Swap /\ reg' = mem' /\ RegSwap BY <1>1, <1>5 DEF RegSwap
<1>6. CASE RegGone /\ reg' \in {reg, mem'} BY <1>1, <1>6 DEF RegGone
<1>7. CASE Register /\ reg' = mem' /\ RegNew /\ Step.at = pending /\ pending # None
  BY <1>1, <1>2, <1>7 DEF RegNew
<1>8. CASE Opens /\ reg' = reg /\ RegOpen BY <1>1, <1>8 DEF RegOpen
<1>9. CASE Errs /\ Step.do = "Swap" /\ TornSwap BY <1>1, <1>9 DEF TornSwap
<1>10. CASE RegLeave /\ TornLeave BY <1>1, <1>10 DEF RegLeave, TornLeave
<1>11. CASE Errs /\ Step.do = "Register" /\ UNCHANGED mem /\ TornNew /\ Step.at = pending /\ pending # None
  BY <1>1, <1>2, <1>11 DEF TornNew
<1> QED BY <1>3, <1>4, <1>5, <1>6, <1>7, <1>8, <1>9, <1>10, <1>11, RegIs

\* The new main server has the personal records when it becomes main.
LEMMA SwapIs ==
  ASSUME Inv, Swap \/ (Errs /\ Step.do = "Swap")
  PROVE  /\ StepOf("Swap") /\ Step.at \in mem.entries \ {mem.main} /\ mem.entries = {mem.main, Step.at}
         /\ Swap => reg' = mem' /\ RegSwap
         /\ doc \in {0, None} \/ store[Step.at].doc.val = doc
<1>1. StepOf("Swap") BY StepIs, FailStep DEF Inv
<1>2. Step.at \in mem.entries \ {mem.main} BY <1>1 DEF StepOf, Inv, SwapOK
<1>3. mem.entries = {mem.main, Step.at} BY <1>2, Basics
<1>4. Swap => mem' = [mem EXCEPT !.main = Step.at, !.handover = mem.main] /\ reg' = mem' BY DEF Swap, Swapped, Persist
<1>5. Swap => RegSwap BY <1>2, <1>4, Basics DEF RegSwap, Registry
<1>6. ~Within({"Personal"})
  <2> SUFFICES ASSUME NEW x \in Todo, x.do = "Personal" PROVE FALSE BY DEF Within
  <2>1. Precedes("Swap", "Personal") BY <1>1, Behind DEF StepOf, Inv
  <2> QED BY <2>1, BeforeSettled DEF Names, Placed
<1>7. doc \in {0, None} \/ store[Step.at].doc.val = doc BY <1>1, <1>6, DocsNow DEF StepOf, SwapDoc
<1> QED BY <1>1, <1>2, <1>3, <1>4, <1>5, <1>7

\* What the personal records of another store are after those of main came.
LEMMA PersonalBrings ==
  ASSUME Inv, Personal, ~(UNCHANGED store /\ Fallen({}))
  PROVE  /\ Step.at \in mem.entries \ {mem.main} /\ StepOf("Personal")
         /\ \A s \in Space : s # Step.at => store'[s] = store[s]
         /\ doc # None => store'[Step.at].doc.val = doc
<1>1. StepOf("Personal") BY StepIs DEF Inv
<1>2. Step.at \in mem.entries \ {mem.main} BY <1>1 DEF StepOf, Inv, SwapOK
<1>3. /\ \A s \in Space : s # Step.at => store'[s] = store[s]
      /\ LET d == store[mem.main].doc
             e == store[Step.at].doc
         IN store'[Step.at].doc =
              IF d.val # 0 /\ (e.val = 0 \/ d.at > e.at) THEN [val |-> d.val, at |-> now] ELSE e
  BY PersonalIs
<1>4. mem.main \in reg.entries /\ Step.at \in reg.entries BY <1>2, Basics
<1>5. doc \notin {0, None} => store'[Step.at].doc.val = doc
  <2> SUFFICES ASSUME doc \notin {0, None} PROVE store'[Step.at].doc.val = doc OBVIOUS
  <2>1. store[mem.main].doc.val = doc /\ Later(mem.main, Step.at) BY <1>4, DocsNow DEF MainDoc, Leads
  <2>2. store[mem.main].doc.at \in Nat /\ store[Step.at].doc.at \in Nat BY <1>2, Basics, DocsNow
  <2> QED BY <1>3, <2>1, <2>2 DEF Later
<1>6. doc = 0 => store'[Step.at].doc.val = 0
  <2>1. doc = 0 => store[mem.main].doc.val = 0 /\ store[Step.at].doc.val = 0 BY <1>4, DocsNow DEF MainDoc
  <2> QED BY <1>3, <2>1
<1> QED BY <1>1, <1>2, <1>3, <1>5, <1>6

\* The main store has the latest personal records.
LEMMA MainDocStep ==
  ASSUME Inv, Next
  PROVE  MainDoc'
<1>1. /\ mem.entries \subseteq reg.entries /\ mem.main \in mem.entries /\ reg.entries \subseteq Space
      /\ mem.entries \subseteq Space /\ reg.main \in reg.entries
  BY Basics
<1>2. /\ \/ mem'.main \in {mem.main, reg.main} /\ reg'.main \in {mem.main, reg.main}
         \/ Swap \/ (Errs /\ Step.do = "Swap")
      /\ \A s \in reg'.entries : s \in reg.entries
           \/ (s = pending /\ store[s].doc.val = 0 /\ (Register \/ (Errs /\ Step.do = "Register")))
  BY EntriesNext
<1>0. MainDoc BY DocsNow
<1>3. CASE SameDocs /\ doc' = doc /\ ~Swap /\ ~(Errs /\ Step.do = "Swap")
  <2>1. \A s \in reg.entries : store'[s].doc = store[s].doc BY <1>1, <1>3 DEF SameDocs
  <2>2. Register \/ Errs => UNCHANGED store BY OtherFrames
  <2> QED BY <1>2, <1>3, <2>1, <2>2, MainDocKept
<1>4. CASE Swap \/ (Errs /\ Step.do = "Swap")
  <2>1. UNCHANGED <<store, doc>> BY <1>4, MoveFrames, OtherFrames
  <2>2. /\ Step.at \in mem.entries /\ mem.entries = {mem.main, Step.at}
        /\ Swap => reg' = mem' /\ RegSwap
        /\ doc \in {0, None} \/ store[Step.at].doc.val = doc
    BY <1>4, SwapIs
  <2>3. CASE /\ mem'.main \in mem.entries /\ reg'.main \in mem.entries /\ reg'.entries = mem.entries
    <3>1. doc = 0 => \A s \in reg'.entries : store'[s].doc.val = 0 BY <1>0, <1>1, <2>1, <2>3 DEF MainDoc
    <3>2. doc \notin {0, None} => \A s \in reg'.entries : store'[s].doc.val = doc
      BY <1>0, <2>1, <2>2, <2>3 DEF MainDoc, Leads
    <3> QED BY <2>1, <2>3, <3>1, <3>2, AllHave
  <2>4. CASE Swap BY <1>1, <2>2, <2>3, <2>4 DEF RegSwap
  <2>5. CASE Errs /\ Step.do = "Swap" /\ RegHand /\ TornSwap
    BY <1>1, <2>2, <2>3, <2>5 DEF RegHand, TornSwap
  <2>6. CASE reg' = reg /\ mem'.main = mem.main
    <3>1. reg'.main = reg.main /\ reg'.entries = reg.entries BY <2>6
    <3> QED BY <2>1, <2>6, <3>1, MainDocKept
  <2>7. Errs /\ Step.do = "Swap" => RegHand /\ (reg' = reg \/ TornSwap)
    <3>1. SUFFICES ASSUME Errs, Step.do = "Swap" PROVE RegHand /\ (reg' = reg \/ TornSwap) OBVIOUS
    <3>2. mem' = [mem EXCEPT !.handover = None] /\ reg' \in {reg, Swapped(Step.at)} BY <3>1, ErrIs DEF Dropped
    <3> QED BY <3>2, Basics, <1>1, <2>2 DEF RegHand, TornSwap, Swapped, Registry
  <2> QED BY <1>4, <2>4, <2>5, <2>6, <2>7 DEF RegHand
<1>5. CASE \E v \in 0 .. MaxOps : EditDoc(v)
  <2>1. PICK v \in 0 .. MaxOps : EditDoc(v) BY <1>5
  <2>2. /\ \A s \in Space : s # mem.main => store'[s] = store[s]
        /\ store'[mem.main].doc = [val |-> v, at |-> now]
    BY <2>1, EditDocIs
  <2>3. /\ doc' \in {None, v} /\ UNCHANGED <<reg, mem>>
        /\ doc' # None => reg.main = mem.main
        /\ doc' = 0 => \A s \in reg.entries \ {mem.main} : store[s].doc.val = 0
    <3>1. doc' = (IF \/ op.kind \in {"main", "remove"} \/ reg.main # mem.main
                     \/ v = 0 /\ \E s \in reg.entries \ {mem.main} : store[s].doc.val # 0
                  THEN None ELSE v)
      BY <2>1 DEF EditDoc
    <3>2. None # 0 BY SpacesAssumption
    <3> QED BY <2>1, <3>1, <3>2, OtherFrames
  <2>4. \A s \in reg.entries : store[s].doc.at < now BY DocsNow
  <2>5. store'[mem.main].doc.val = v /\ store'[mem.main].doc.at = now BY <2>2
  <2>6. ASSUME doc' = 0, NEW s \in reg.entries PROVE store'[s].doc.val = 0
    <3>1. CASE s = mem.main BY <2>3, <2>5, <2>6, <3>1, SpacesAssumption
    <3>2. CASE s # mem.main
      <4>1. store'[s] = store[s] BY <1>1, <2>2, <3>2
      <4> QED BY <2>3, <2>6, <3>2, <4>1
    <3> QED BY <3>1, <3>2
  <2>7. ASSUME doc' \notin {0, None} PROVE Leads(mem.main)' /\ Leads(reg.main)'
    <3>1. mem'.main = mem.main /\ reg'.main = mem.main /\ reg'.entries = reg.entries /\ doc' = v BY <2>3, <2>7
    <3>2. ASSUME NEW s \in reg.entries PROVE store'[s].doc.val = v \/ store'[s].doc.at < now
      <4>1. CASE s = mem.main BY <2>5, <4>1
      <4>2. CASE s # mem.main
        <5>1. store'[s] = store[s] BY <1>1, <2>2, <4>2
        <5> QED BY <2>4, <5>1
      <4> QED BY <4>1, <4>2
    <3> QED BY <2>5, <3>1, <3>2 DEF Leads, Later
  <2> QED BY <2>3, <2>6, <2>7 DEF MainDoc
<1>6. CASE Personal
  <2>0. UNCHANGED <<mem, reg, doc>> BY <1>6, MoveFrames
  <2>1. CASE UNCHANGED store
    <3>1. \A s \in reg.entries : store'[s].doc = store[s].doc BY <2>1
    <3> QED BY <2>0, <3>1, MainDocKept
  <2>2. CASE ~UNCHANGED store
    <3>1. /\ Step.at \in mem.entries \ {mem.main}
          /\ \A s \in Space : s # Step.at => store'[s] = store[s]
          /\ doc # None => store'[Step.at].doc.val = doc
      BY <1>6, <2>2, PersonalBrings
    <3>2. \A s \in reg.entries : s = mem.main \/ s = Step.at BY <1>1, <3>1, Basics
    <3>3. store'[mem.main] = store[mem.main] BY <1>1, <3>1
    <3>4. doc # None => store[mem.main].doc.val = doc BY <1>0, <1>1 DEF MainDoc, Leads
    <3>5. doc # None => \A s \in reg'.entries : store'[s].doc.val = doc BY <2>0, <3>1, <3>2, <3>3, <3>4
    <3> QED BY <1>1, <2>0, <3>5, AllHave, SpacesAssumption
  <2> QED BY <2>1, <2>2
<1>7. CASE SettleStep
  <2>0. UNCHANGED <<mem, reg, doc>> BY <1>7, MoveFrames
  <2>1. /\ Step.at \in Space /\ \A s \in Space : s # Step.at => store'[s] = store[s]
        /\ Step \in Todo /\ Step.do \in {"Promote", "ClearDoc"}
        /\ Step.do = "Promote" => store'[Step.at].doc = store[Step.at].doc
        /\ Step.do = "ClearDoc" => store'[Step.at].doc.val = 0
    BY <1>7, SettleStepIs
  <2>2. Step.do = "ClearDoc" => Step.at # mem.main /\ mem.main = reg.main
    <3>1. Step.do = "ClearDoc" => Step.at = mem.handover BY <2>1 DEF Inv, SwapOK
    <3>2. Step.at # None BY <2>1, SpacesAssumption
    <3> QED BY <3>1, <3>2, Basics DEF RegOK, Inv, Registered
  <2>3. CASE Step.do = "Promote"
    <3>1. \A s \in reg.entries : store'[s].doc = store[s].doc BY <1>1, <2>1, <2>3
    <3> QED BY <2>0, <3>1, MainDocKept
  <2>4. CASE Step.do = "ClearDoc"
    <3>1. store'[mem.main].doc = store[mem.main].doc BY <1>1, <2>1, <2>2, <2>4
    <3>2. \A s \in reg.entries : store'[s].doc = store[s].doc \/ store'[s].doc.val = 0 BY <1>1, <2>1, <2>4
    <3>3. doc = 0 => \A s \in reg.entries : store'[s].doc.val = 0 BY <1>0, <3>2 DEF MainDoc
    <3>4. ASSUME doc \notin {0, None} PROVE Leads(mem.main)'
      <4>1. Leads(mem.main) BY <1>0, <3>4 DEF MainDoc
      <4> QED BY <2>0, <3>1, <3>2, <4>1 DEF Leads, Later
    <3>5. mem'.main = reg'.main BY <2>0, <2>2, <2>4
    <3>6. doc \notin {0, None} => Leads(reg.main)' BY <3>4, <3>5 DEF Leads, Later
    <3> QED BY <2>0, <3>3, <3>4, <3>6 DEF MainDoc
  <2> QED BY <2>1, <2>3, <2>4
<1>8. CASE RemoveFiles \/ Discard \/ Opens
  <2>0. UNCHANGED <<reg, doc>> /\ mem'.main \in {mem.main, reg.main}
    <3>1. Swap => Step.do = "Swap" BY StepIs DEF StepOf, Inv
    <3>2. Step.do \in {"RemoveFiles", "Discard", "Open"} BY <1>8, StepIs DEF StepOf, Inv
    <3> QED BY <1>2, <1>8, <3>1, <3>2, RemoveFrames, OtherFrames
  <2>1. \A s \in reg.entries : store'[s].doc = store[s].doc \/ (store'[s].doc.val = 0 /\ store[s].doc.val = 0)
    <3>1. CASE RemoveFiles \/ Discard
      <4>1. /\ \A s \in Space : s # Step.at => store'[s] = store[s]
            /\ store'[Step.at].doc.val = 0
        BY <3>1, EmptiedIs DEF EmptyStore
      <4>2. Step.at \notin reg.entries \/ store[Step.at].doc.val = 0
        <5>1. CASE RemoveFiles BY <5>1, GoneFirst
        <5>2. CASE Discard
          <6>1. StepOf("Discard") BY <5>2, StepIs DEF Inv
          <6>2. Step.at = pending /\ Step.at \in Space
            BY <6>1, StepFields DEF StepOf, Inv, Setup, Placed
          <6> QED BY <6>2, SpacesAssumption DEF Inv, Setup, Unused
        <5> QED BY <3>1, <5>1, <5>2
      <4> QED BY <1>1, <4>1, <4>2
    <3>2. CASE Opens
      <4>1. PICK W \in SUBSET Swept : \A s \in Space : store'[s] = IF s \in W THEN EmptyStore ELSE store[s]
        BY <3>2, OpenIs
      <4> QED BY <1>1, <4>1 DEF Swept
    <3> QED BY <1>8, <3>1, <3>2
  <2>2. \A s \in reg'.entries : s \in reg.entries BY <2>0
  <2> QED BY <2>0, <2>1, <2>2, MainDocKept
<1>9. doc' = doc \/ \E v \in 0 .. MaxOps : EditDoc(v) BY DocFrame, MoveFrames
<1> QED BY <1>3, <1>4, <1>5, <1>6, <1>7, <1>8, <1>9, DocsFrame

\* A swap that is to come has its records still to come, or has them.
LEMMA SwapDocOld ==
  ASSUME Inv, Next, ~Errs, ~Crash, Acts, Goes, NEW y \in Todo', Old(y), y.do = "Swap"
  PROVE  SwapDoc(y)'
<1>1. Shape /\ StepOf(Step.do) BY OldStep DEF Inv
<1>2. y \in Todo /\ Step.do \in {"TakeRunning", "Personal", "StageMain", "Stage"} BY OldStep, BeforeSettled
<1>3. Within({"Personal"}) => Within({"Personal"})' \/ Step.do = "Personal" BY DEF Goes, Within
<1>4. y.at \in mem.entries \ {mem.main} /\ y.at \in Space BY <1>2, Basics DEF Inv, SwapOK
<1>5. SwapDoc(y) BY <1>2, DocsNow
<1>6. doc' = doc BY <1>2, MoveFrames, RemoveFrames DEF Acts
<1>7. CASE Step.do # "Personal"
  <2>1. SameDocs
    <3>1. CASE Step.do = "TakeRunning"
      <4>1. store' = store BY <1>2, <3>1, RemoveFrames DEF Acts
      <4> QED BY <4>1 DEF SameDocs
    <3>2. CASE Step.do = "StageMain" BY <3>2, StageMainIs DEF Acts, SameDocs
    <3>3. CASE Step.do = "Stage" BY <3>3, StageOtherIs DEF Acts, SameDocs
    <3> QED BY <1>2, <1>7, <3>1, <3>2, <3>3
  <2>2. store'[y.at].doc = store[y.at].doc BY <1>4, <2>1 DEF SameDocs
  <2> QED BY <1>3, <1>5, <1>6, <1>7, <2>2 DEF SwapDoc
<1>8. CASE Step.do = "Personal"
  <2>1. Personal BY <1>8 DEF Acts
  <2>2. ~Fallen({}) BY DEF Fallen
  <2>3. Step.at \in mem.entries \ {mem.main} /\ (doc \notin {0, None} => store'[Step.at].doc.val = doc)
    BY <2>1, <2>2, PersonalBrings
  <2>4. y.at = Step.at BY <1>4, <2>3, Basics
  <2> QED BY <1>6, <2>3, <2>4 DEF SwapDoc
<1> QED BY <1>2, <1>7, <1>8

\* Steps of a swap come with the copying of the records in front of them.
LEMMA SwapDocPut ==
  ASSUME NEW new, SwapSteps(new) \subseteq Todo'
  PROVE  Within({"Personal"})'
BY DEF SwapSteps, DoIn, Within

\* The same, for every swap in the list.
LEMMA SwapDocStep ==
  ASSUME Inv, Next, NEW y \in Todo'
  PROVE  SwapDoc(y)'
<1> SUFFICES ASSUME y.do = "Swap" PROVE SwapDoc(y)' BY DEF SwapDoc
<1>1. CASE Aside
  <2>1. Todo' = Todo /\ UNCHANGED <<mem, op>> /\ (Within({"Personal"})' = Within({"Personal"})) BY <1>1, AsideIs
  <2>2. SwapDoc(y) /\ y \in Todo BY <2>1, DocsNow
  <2>3. y.at \in mem.entries BY <2>2 DEF Inv, SwapOK
  <2>4. y.at \in Space BY <2>3, Basics
  <2>5. CASE \E v \in 0 .. MaxOps : EditDoc(v)
    <3>1. op.kind \in {"main", "remove"} BY <2>2, KindsOf, Basics
    <3>2. doc' = None BY <2>5, <3>1 DEF EditDoc
    <3> QED BY <3>2 DEF SwapDoc
  <2>6. CASE ~\E v \in 0 .. MaxOps : EditDoc(v)
    <3>1. SameDocs
      <4>1. Unlock => SameDocs BY UnlockIs DEF SameDocs
      <4>2. Lock \/ (\E s \in Space : PassBegin(s)) \/ (\E s \in Space : PassCheck(s)) \/ (\E s \in Space : PassEnd(s))
            => UNCHANGED store
        BY OtherFrames
      <4>3. (\E s \in Space : UnlockSpace(s)) \/ (\E m \in Space : RechainEnds(m)) => UNCHANGED store BY OtherFrames
      <4> QED BY <1>1, <2>6, <4>1, <4>2, <4>3, RowsOnly, ChainDocs DEF Aside
    <3>2. doc' = doc BY <1>1, <2>6, OtherFrames DEF Aside
    <3>3. store'[y.at].doc = store[y.at].doc BY <2>4, <3>1 DEF SameDocs
    <3> QED BY <2>1, <2>2, <3>2, <3>3 DEF SwapDoc
  <2> QED BY <2>5, <2>6
<1>2. CASE Asking
  <2>1. ASSUME NEW i \in Id, NEW s \in mem.entries, NEW to \in mem.entries, MoveAsked(i, s, to) PROVE FALSE
    BY <2>1 DEF MoveAsked, Fresh, Do, BeginStep
  <2>2. ASSUME NEW s \in mem.entries \ {mem.main}, MainAsked(s) PROVE SwapDoc(y)'
    <3>1. SwapSteps(s) \subseteq Todo' BY <2>2 DEF MainAsked, Fresh
    <3> QED BY <3>1, SwapDocPut DEF SwapDoc
  <2>3. ASSUME NEW s \in mem.entries, NEW keep \in BOOLEAN, RemoveAsked(s, keep) PROVE FALSE
    BY <2>3 DEF RemoveAsked, Fresh, RemoveSteps, Do, DoIn
  <2>4. ASSUME NEW s \in Space, AddAsked(s) PROVE FALSE BY <2>4 DEF AddAsked, Fresh, Do, DoIn
  <2>5. ASSUME AdoptAsked \/ DiscardAsked PROVE FALSE BY <2>5 DEF AdoptAsked, DiscardAsked, Fresh, Do, DoIn
  <2> QED BY <1>2, <2>1, <2>2, <2>3, <2>4, <2>5, Asked
<1>3. CASE Todo' = {Do("Open")} \/ Todo' = {} BY <1>3 DEF Do
<1>4. CASE GivesUp BY <1>4 DEF GivesUp, Fresh, Do, DoIn
<1>5. CASE Falls BY <1>5, FallenNames DEF Falls
<1>6. CASE Goes /\ Acts /\ ~Crash /\ ~Errs /\ ~Asking
  <2>1. CASE Old(y) BY <1>6, <2>1, SwapDocOld
  <2>2. CASE Put(y)
    <3>1. HandOn BY <2>2, PutNames
    <3>2. StepOf("HandOn") BY <3>1, StepIs DEF Inv
    <3>3. ~Recover /\ ~Begin /\ ~Settle /\ ~TakeHosts /\ ~Opens BY <3>2, StepIs DEF StepOf, Inv
    <3>4. mem.main = Step.at BY <2>2, <3>3 DEF Put
    <3>5. Other(Step.at) \in mem.entries /\ Other(Step.at) # Step.at BY <3>2, RemovalOf DEF StepOf
    <3>6. Spliced(SwapSteps(Other(Step.at)), DoIn("Personal", Other(Step.at)))
      BY <3>1, <3>4, <3>5, HandOnList, Basics
    <3> QED BY <3>6, SwapDocPut DEF Spliced, SwapDoc
  <2> QED BY <1>6, <2>1, <2>2 DEF Goes
<1> QED BY <1>1, <1>2, <1>3, <1>4, <1>5, <1>6, Cases

\* Every step keeps the personal records with the main server.
LEMMA DocsStep ==
  ASSUME Inv, Next
  PROVE  Docs'
<1>1. MainDoc' BY MainDocStep
<1>2. \A x \in Todo' : SwapDoc(x)' BY SwapDocStep
<1> QED BY <1>1, <1>2 DEF Docs, MainDoc, SwapDoc, Later, Leads

------------------------------------------------------------------------------
(* The chain of keys                                                        *)

Handers == {"Open", "Settle", "Promote", "ClearDoc", "EndHandover"}

SameHands == mem.entries = reg.entries /\ mem.handover = reg.handover

Handing ==
  mem.handover # None =>
    /\ mem.handover \in mem.entries
    /\ AtFirst(Handers)
    /\ Within({"Open", "Settle", "EndHandover"})
    /\ up => chained = {} \/ mem.main \in open

Promoting == Within({"Promote"}) => mem.handover # None

Kept1(s) == Kept(s) /\ (mem.handover = None \/ store[s].staged = "nothing")
Staged1(s) ==
  /\ mem.handover # None /\ store[s].staged = mem.main
  /\ Within({"Open", "Settle"}) \/ Coming("Promote", s)
SealedIn(s) == Kept1(s) \/ Staged1(s)

SwapSealed(x) ==
  x.do = "Swap" /\ chained # {} =>
    /\ store[mem.main].staged = x.at \/ Within({"Stage"})
    /\ {mem.main, x.at} \subseteq open \/ Within({"Personal"})

\* A step after which no write has failed yet.
Unfailing == Inv /\ Next /\ spent'.errors = 0

\* Nothing counts as chained while a rechain may still write under an old main server.
Rechains == stale # {} => chained = {}

\* How the keys are chained, part by part.
LEMMA SealedNow ==
  ASSUME Unfailing
  PROVE  /\ ~Errs /\ ~Skips /\ ~Sweeps
         /\ SameHands /\ Rechains /\ Handing /\ Promoting /\ chained \subseteq mem.entries
         /\ \A s \in chained \ {mem.main} : SealedIn(s)
         /\ \A x \in Todo : SwapSealed(x)
         /\ mem.main = reg.main
<1>1. Inv /\ Next /\ spent.errors = 0 /\ ~Errs /\ ~Skips /\ ~Sweeps BY SpentIn DEF Unfailing
<1>2. Sealed /\ Registered BY <1>1 DEF Inv
<1> QED BY <1>1, <1>2
        DEF Sealed, Registered, SameHands, Rechains, Handing, Handers, Promoting, SealedIn, Kept1, Staged1, SwapSealed

\* The parts together.
LEMMA SealedThen ==
  ASSUME spent'.errors = 0 =>
           /\ SameHands' /\ Rechains' /\ Handing' /\ Promoting' /\ (chained \subseteq mem.entries)'
           /\ \A s \in chained' \ {mem'.main} : SealedIn(s)'
           /\ \A x \in Todo' : SwapSealed(x)'
  PROVE  Sealed'
BY DEF Sealed, SameHands, Rechains, Handing, Handers, Promoting, SealedIn, Kept1, Staged1, SwapSealed

\* Nobody joins the chain while a rechain may still write under an old main server.
LEMMA ChainNext ==
  ASSUME Inv, Next
  PROVE  /\ chained' \subseteq chained \/ Done
         /\ Done => \/ chained' = chained
                    \/ chained' = chained \cup {mem.main} \cup {s \in mem.entries : store[s].kept = mem.main}
         /\ Unregister => Step.at \notin chained'
         /\ Rechains => Rechains'
<1>1. CASE UNCHANGED <<chained, stale>> /\ ~Unregister /\ ~Done BY <1>1 DEF Rechains
<1>2. CASE Unregister
  <2>1. chained' = chained \ {Step.at} /\ stale' = stale /\ ~Done
    BY <1>2, StepIs, RemoveFrames DEF Unregister, StepOf, Inv
  <2> QED BY <1>2, <2>1 DEF Rechains
<1>3. CASE Done
  <2>1. stale' = stale /\ ~Unregister BY <1>3, StepIs, RemoveFrames DEF StepOf, Inv
  <2>2. chained' = IF stale # {} THEN chained
                   ELSE chained \cup {mem.main} \cup {s \in mem.entries : store[s].kept = mem.main}
    BY <1>3 DEF Done
  <2> QED BY <1>3, <2>1, <2>2 DEF Rechains
<1>4. CASE Swap
  <2>1. /\ chained' = IF stale' = {} THEN chained ELSE {}
        /\ ~Done /\ ~Unregister
    BY <1>4, StepIs DEF Swap, StepOf, Inv
  <2> QED BY <2>1 DEF Rechains
<1>5. CASE Lock /\ ~Unregister /\ ~Done
  <2>1. chained' \in {chained, {}} /\ stale' = stale BY <1>5, OtherFrames DEF Lock
  <2> QED BY <1>5, <2>1 DEF Rechains
<1>6. CASE Crash /\ ~Unregister /\ ~Done
  <2>1. stale' = {} /\ chained' = chained BY <1>6, OtherFrames DEF Crash
  <2> QED BY <1>6, <2>1 DEF Rechains
<1>7. CASE (\E m \in Space : RechainEnds(m)) /\ ~Unregister /\ ~Done
  <2>1. stale' \subseteq stale /\ chained' = chained BY <1>7, OtherFrames DEF RechainEnds
  <2> QED BY <1>7, <2>1 DEF Rechains
<1>8. MakeFile \/ Discard \/ Unlock \/ (\E s \in Space : UnlockSpace(s)) \/ (Skips /\ Step.do = "Discard")
      \/ (\E m, s \in Space : RechainUnlock(m, s)) => UNCHANGED <<chained, stale>>
  BY OtherFrames DEF Rechaining
<1> QED BY <1>1, <1>2, <1>3, <1>4, <1>5, <1>6, <1>7, <1>8, ChainFrame

\* A rechain keeps what is in the chain, as nobody may write under an old main server then.
LEMMA RechainKeeps ==
  ASSUME Unfailing, Rechaining, chained # {}
  PROVE  \A s \in Space : /\ store'[s].staged = store[s].staged
                          /\ s # mem.main /\ Kept(s) => store'[s].kept = mem.main
<1>1. Inv /\ Rechains BY SealedNow DEF Unfailing
<1>2. PICK m \in Space, t \in Space : RechainUnlock(m, t) \/ RechainSeal(m, t) BY DEF Rechaining
<1>3. m = mem.main BY <1>1, <1>2, RechainIs DEF Rechains
<1> QED BY <1>1, <1>2, <1>3, RechainIs DEF Kept

\* The next step comes before the others.
LEMMA BehindNext ==
  ASSUME Shape', todo' # <<>>
  PROVE  /\ Step' \in Todo' /\ Step' \in StepSet /\ Todo' \subseteq StepSet
         /\ \A x \in Todo' : x = Step' \/ Precedes(Step'.do, x.do)
<1>1. PICK t : t = todo' OBVIOUS
<1>2. ShapeOf(t) /\ t # <<>> /\ Elems(t) = Todo' /\ t[1] = Step' BY <1>1 DEF Shape, Todo, Step
<1>3. /\ t[1] \in Elems(t) /\ t[1] \in StepSet /\ Elems(t) \subseteq StepSet
      /\ \A x \in Elems(t) : x = t[1] \/ x \in Elems(Tail(t))
      /\ \A y \in Elems(Tail(t)) : Precedes(t[1].do, y.do)
  BY <1>2, Pop
<1> QED BY <1>2, <1>3

\* Without a failed write, memory and disk say the same.
LEMMA HandsStep ==
  ASSUME Unfailing
  PROVE  /\ SameHands' /\ (chained \subseteq mem.entries)'
         /\ mem'.handover \in {mem.handover, None} \/ Swap
         /\ mem'.entries = mem.entries \/ Unregister \/ Register
         /\ mem'.main = mem.main \/ Swap
<1>1. Inv /\ Next /\ ~Errs /\ ~Skips /\ SameHands /\ Handing /\ chained \subseteq mem.entries /\ mem.main = reg.main
  BY SealedNow DEF Unfailing
<1>2. /\ SameHands' /\ (mem'.handover \in {mem.handover, None} \/ Swap)
      /\ mem'.entries = mem.entries \/ (Unregister /\ mem'.entries = mem.entries \ {Step.at})
         \/ (Register /\ mem.entries \subseteq mem'.entries)
  <2>1. CASE UNCHANGED <<mem, reg>> BY <1>1, <2>1 DEF SameHands
  <2>2. CASE reg' = mem' /\ (RegNote \/ RegLeave \/ (RegHand /\ mem'.handover = None) \/ (Swap /\ RegSwap))
    BY <2>2 DEF SameHands, RegNote, RegLeave, RegHand, RegSwap
  <2>3. CASE Unregister /\ reg' = mem' /\ RegGone /\ mem.entries = {mem.main, Step.at} /\ Step.at # mem.main
    BY <2>3 DEF SameHands, RegGone
  <2>4. CASE Register /\ reg' = mem' /\ RegNew /\ mem.entries = {mem.main} BY <2>4 DEF SameHands, RegNew
  <2>5. CASE reg' = reg /\ RegOpen
    <3>1. mem.handover = None \/ mem.handover \in mem.entries BY <1>1 DEF Handing
    <3> QED BY <1>1, <2>5, <3>1 DEF SameHands, RegOpen
  <2> QED BY <1>1, <2>1, <2>2, <2>3, <2>4, <2>5, RegIs
<1>3. (chained \subseteq mem.entries)'
  <2>1. \/ chained' \subseteq chained /\ (Unregister => Step.at \notin chained')
        \/ (Done /\ chained' \subseteq mem.entries)
    BY <1>1, Basics, ChainNext
  <2>2. Done => mem' = mem BY RemoveFrames
  <2> QED BY <1>1, <1>2, <2>1, <2>2
<1>4. mem'.main = mem.main \/ Swap BY <1>1, EntriesNext
<1> QED BY <1>2, <1>3, <1>4

\* While a handover lasts, only its own steps are taken.
LEMMA HandedOver ==
  ASSUME Unfailing, Goes, Acts, ~Crash, ~Asking, ~Swap, mem.handover # None
  PROVE  /\ StepOf(Step.do) /\ Step.do \in Handers
         /\ UNCHANGED <<open, chained, op, up>>
         /\ Step.do # "Open" /\ Step.do # "EndHandover" => UNCHANGED mem
         /\ Step.do = "Open" => mem' = mem \/ RegOpen
<1>1. Inv /\ Next /\ Handing /\ ~Errs /\ ~Skips BY SealedNow DEF Unfailing
<1>2. AtFirst(Handers) /\ Shape BY <1>1 DEF Handing, Inv
<1>3. todo # <<>> /\ Step \in Todo /\ Step.do \in Handers BY <1>2 DEF AtFirst, Acts
<1>4. StepOf(Step.do) BY <1>2, <1>3, AtStep DEF Doing, Step, StepOf
<1>5. Opens \/ Settle \/ SettleStep \/ EndHandover BY <1>3 DEF Acts, Handers
<1>6. UNCHANGED <<open, chained, op, up>> BY <1>5, MoveFrames, OtherFrames
<1>7. Step.do # "Open" /\ Step.do # "EndHandover" => UNCHANGED mem BY <1>3, MoveFrames DEF Acts, Handers
<1>8. Step.do = "Open" => mem' = mem \/ RegOpen
  <2> SUFFICES ASSUME Step.do = "Open" PROVE mem' = mem \/ RegOpen OBVIOUS
  <2>1. ~Note /\ ~Clear /\ ~Swap /\ ~EndHandover /\ ~Leave /\ ~Unleave /\ ~Unregister /\ ~Register
    BY <1>1, StepIs DEF StepOf, Inv
  <2> QED BY <1>1, <2>1, RegIs
<1> QED BY <1>3, <1>4, <1>6, <1>7, <1>8

\* Staged keys are promoted only while a handover is noted.
LEMMA PromotingStep ==
  ASSUME Unfailing
  PROVE  Promoting'
<1>0. Inv /\ Next /\ ~Errs /\ Handing /\ Promoting BY SealedNow DEF Unfailing
<1> SUFFICES ASSUME NEW y \in Todo', y.do = "Promote" PROVE mem'.handover # None
  BY DEF Promoting, Within
<1>1. CASE Aside
  <2>1. Todo' = Todo /\ UNCHANGED mem BY <1>0, <1>1, AsideIs
  <2> QED BY <1>0, <2>1 DEF Promoting, Within
<1>2. CASE Asking
  <2>1. op'.kind \notin {"none", "main", "remove"} => FALSE
    <3>1. KindOK' /\ op'.kind \in Kinds BY <1>0, <1>2, KindStep, AskAllowed
    <3> QED BY <3>1 DEF KindOK, Allowed, Kinds, MoveNames
  <2>2. ASSUME NEW s \in mem.entries \ {mem.main}, MainAsked(s) PROVE FALSE
    BY <2>2 DEF MainAsked, Fresh, SwapSteps, StageStep, Do, DoIn
  <2>3. ASSUME NEW s \in mem.entries, NEW keep \in BOOLEAN, RemoveAsked(s, keep) PROVE FALSE
    BY <2>3 DEF RemoveAsked, Fresh, RemoveSteps, Do, DoIn
  <2> QED BY <1>0, <1>2, <2>1, <2>2, <2>3, AskedKind
<1>3. CASE Todo' = {Do("Open")} \/ Todo' = {} BY <1>3 DEF Do
<1>4. CASE GivesUp BY <1>0, <1>4 DEF GivesUp
<1>5. CASE Falls BY <1>5, FallenNames DEF Falls
<1>6. CASE Goes /\ Acts /\ ~Crash /\ ~Errs /\ ~Asking
  <2>1. ASSUME y \in Todo, Precedes(Step.do, y.do), StepOf(Step.do) PROVE mem'.handover # None
    <3>1. Step.do = "Promote"
      <4>1. Step.do \in Names BY <2>1, StepFields DEF StepOf
      <4> QED BY <2>1, <4>1, BeforeSettled DEF Names, Placed
    <3>2. UNCHANGED mem BY <1>6, <3>1, MoveFrames DEF Acts
    <3> QED BY <1>0, <2>1, <3>2 DEF Promoting, Within
  <2>2. CASE Old(y)
    <3>1. y \in Todo /\ Precedes(Step.do, y.do) /\ StepOf(Step.do) BY <1>0, <1>6, <2>2, OldStep
    <3> QED BY <2>1, <3>1
  <2>3. CASE Put(y)
    <3>1. Settle BY <1>0, <2>3, PutNames
    <3>2. StepOf("Settle") /\ UNCHANGED mem BY <1>0, <3>1, StepIs, MoveFrames DEF Inv
    <3>3. PICK M, f : /\ Spliced(M, f)
                      /\ mem.handover = None => \A x \in M : x.do = "Unstage" /\ x.at \in mem.entries
      BY <1>0, <3>1, SettleList, Basics
    <3>4. y \in M \/ (y \in Todo /\ Precedes(Step.do, y.do)) BY <3>3 DEF Spliced
    <3> QED BY <2>1, <3>2, <3>3, <3>4 DEF StepOf
  <2> QED BY <1>6, <2>2, <2>3 DEF Goes
<1> QED BY <1>0, <1>1, <1>2, <1>3, <1>4, <1>5, <1>6, Cases

\* The steps that fail without a failed write.
LEMMA FallsNames ==
  ASSUME Inv, Falls, ~Errs
  PROVE  Step.do \in {"Begin", "Import", "Personal", "StageMain", "Stage", "TakeKeys", "TakeRunning"}
BY StepIs DEF Falls, StepOf, Inv

\* A swap is followed at once by settling it.
LEMMA SwapStarts ==
  ASSUME Unfailing, Swap
  PROVE  /\ AtFirst({"Settle"})' /\ Within({"Open", "Settle"})'
         /\ mem'.main = Step.at /\ mem'.handover = mem.main /\ mem'.handover # None
         /\ mem'.entries = mem.entries /\ mem.entries = {mem.main, Step.at} /\ Step.at # mem.main
         /\ UNCHANGED <<store, open>> /\ chained' \in {{}, chained}
         /\ chained # {} => store[mem.main].staged = Step.at /\ {mem.main, Step.at} \subseteq open
<1>1. Inv /\ Next /\ \A x \in Todo : SwapSealed(x) BY SealedNow DEF Unfailing
<1>2. /\ StepOf("Swap") /\ Step.at \in mem.entries \ {mem.main} /\ mem.entries = {mem.main, Step.at}
      /\ RegSwap
  BY <1>1, SwapIs
<1>3. Shape' /\ Popped BY <1>1, PopIs DEF Passing, Inv
<1>4. todo' # <<>> /\ Step' \in Todo' /\ Step'.do = "Settle"
  <2>1. todo' # <<>> BY <1>2, <1>3 DEF Popped, StepOf, Ending
  <2>2. Follows(Step, Step') /\ Step' \in Todo' BY <1>3, <2>1 DEF Popped
  <2>3. Step'.do = "Settle" BY <1>2, <2>2 DEF Follows, StepOf
  <2> QED BY <2>1, <2>2, <2>3
<1>5. mem.main # None /\ mem.main \in mem.entries BY <1>1, Basics, SpacesAssumption
<1>6. ASSUME NEW x \in Todo, x.do \in {"Stage", "Personal"} PROVE FALSE
  <2>1. Precedes("Swap", x.do) BY <1>1, <1>2, <1>6, Behind DEF StepOf, Inv
  <2> QED BY <1>6, <2>1, BeforeSettled DEF Names, Placed
<1>7. SwapSealed(Step) /\ Step.do = "Swap" BY <1>1, <1>2 DEF StepOf
<1>8. chained # {} => store[mem.main].staged = Step.at /\ {mem.main, Step.at} \subseteq open
  BY <1>6, <1>7 DEF SwapSealed, Within
<1>9. AtFirst({"Settle"})' BY <1>4 DEF AtFirst
<1>10. Within({"Open", "Settle"})' BY <1>4 DEF Within
<1>11. chained' \in {{}, chained} BY DEF Swap
<1> QED BY <1>2, <1>5, <1>8, <1>9, <1>10, <1>11, MoveFrames DEF RegSwap

\* The steps of a handover follow one another until it is over.
LEMMA HandGoes ==
  ASSUME Unfailing, Goes, Acts, ~Crash, ~Errs, ~Asking, ~Swap, mem.handover # None, Step.do # "EndHandover"
  PROVE  AtFirst(Handers)' /\ Within({"Open", "Settle", "EndHandover"})'
<1>1. Inv /\ Next /\ Handing /\ Shape' BY SealedNow, TodoIs DEF Unfailing
<1>2. StepOf(Step.do) /\ Step.do \in Handers BY HandedOver
<1>3. CASE Step.do = "Open"
  <2>1. Fresh({Do("Settle"), Do("Recover"), Do("Ready")}, Do("Settle")) BY <1>1, <1>3, OpenIs DEF Acts
  <2>2. todo' # <<>> /\ Step' \in Todo' /\ Step'.do = "Settle" BY <2>1 DEF Fresh, Do
  <2> QED BY <2>2 DEF AtFirst, Within, Handers
<1>4. CASE Step.do = "Settle"
  <2>1. Settle BY <1>4 DEF Acts
  <2>2. PICK M, f : Spliced(M, f) /\ f.do = "Promote" /\ \E x \in M : x.do = "EndHandover"
    BY <1>1, <2>1, SettleList, Basics
  <2>3. todo' # <<>> /\ Step'.do = "Promote" /\ \E x \in Todo' : x.do = "EndHandover" BY <2>2 DEF Spliced
  <2> QED BY <2>3 DEF AtFirst, Within, Handers
<1>5. CASE Step.do \in {"Promote", "ClearDoc"}
  <2>1. PICK x \in Todo : x.do \in {"Open", "Settle", "EndHandover"} BY <1>1 DEF Handing, Within
  <2>2. x \in Todo' /\ x \in StepSet BY <1>2, <1>5, <2>1 DEF Goes, StepOf
  <2>3. Precedes(Step.do, x.do) BY <1>1, <1>2, <1>5, <2>1, Behind DEF Inv
  <2>4. x.do = "EndHandover"
    <3>1. x.do \in Names /\ Step.do \in Names BY <1>2, <2>2, StepFields DEF StepOf
    <3> QED BY <1>5, <2>1, <2>3, <3>1, Before
  <2>5. todo' # <<>> BY <1>2, <1>5 DEF Goes, Ending
  <2>6. Step' \in Todo' /\ Step' \in StepSet /\ (x = Step' \/ Precedes(Step'.do, x.do)) BY <1>1, <2>2, <2>5, BehindNext
  <2>7. Step'.do \in Handers
    <3>1. x.do \in Names /\ Step'.do \in Names BY <2>2, <2>6, StepFields
    <3> QED BY <2>4, <2>6, <3>1, BeforeSettled DEF Handers
  <2> QED BY <2>2, <2>4, <2>5, <2>7 DEF AtFirst, Within
<1> QED BY <1>2, <1>3, <1>4, <1>5 DEF Handers

\* A handover that is noted is being settled.
LEMMA HandingStep ==
  ASSUME Unfailing
  PROVE  Handing'
<1>0. Inv /\ Next /\ ~Errs /\ Handing /\ SameHands BY SealedNow DEF Unfailing
<1>a. /\ mem'.handover \in {mem.handover, None} \/ Swap
      /\ mem'.entries = mem.entries \/ Unregister \/ Register
  BY HandsStep
<1> SUFFICES ASSUME mem'.handover # None PROVE Handing' BY DEF Handing
<1>b. CASE Swap
  <2>1. AtFirst({"Settle"})' /\ Within({"Open", "Settle"})' BY <1>b, SwapStarts
  <2>2. AtFirst(Handers)' /\ Within({"Open", "Settle", "EndHandover"})'
    <3>1. AtFirst(Handers)' BY <2>1 DEF AtFirst, Handers
    <3>2. Within({"Open", "Settle", "EndHandover"})' BY <2>1 DEF Within
    <3> QED BY <3>1, <3>2
  <2>3. mem'.handover \in mem'.entries /\ (chained' = {} \/ mem'.main \in open')
    BY <1>0, <1>b, SwapStarts, Basics
  <2> QED BY <2>2, <2>3 DEF Handing
<1>c. CASE ~Swap
  <2>0. /\ mem'.handover = mem.handover /\ mem.handover # None /\ mem.handover \in mem.entries
        /\ AtFirst(Handers) /\ (up => chained = {} \/ mem.main \in open) /\ Within({"Open", "Settle", "EndHandover"})
    BY <1>0, <1>a, <1>c DEF Handing
  <2>1. todo # <<>> /\ Step.do \in Handers BY <2>0 DEF AtFirst
  <2>2. ~Unregister /\ ~Register BY <1>0, <2>1, StepIs DEF StepOf, Inv, Handers
  <2>3. mem'.handover \in mem'.entries BY <1>a, <2>0, <2>2
  <2>4. mem'.main = mem.main BY <1>c, HandsStep
  <2>5. CASE Aside
    <3>1. AtFirst(Handers)' /\ Within({"Open", "Settle", "EndHandover"})' /\ up' = up
      BY <1>0, <2>0, <2>5, AsideIs
    <3>2. up => chained' = {} \/ mem.main \in open'
      <4> SUFFICES ASSUME up PROVE chained' = {} \/ mem.main \in open' OBVIOUS
      <4>1. CASE Lock
        <5>1. Step \in Todo BY <1>0, <2>1, AtStep DEF Doing, Step, Inv
        <5>2. op.kind \in {"none", "main", "remove"} BY <1>0, <2>1, <5>1, KindsOf, Basics DEF Handers
        <5>3. op.kind # "none" BY <1>0, <2>1 DEF Inv, KindOK
        <5> QED BY <4>1, <5>2, <5>3 DEF Lock
      <4>2. CASE Unlock BY <4>2 DEF Unlock
      <4>3. CASE (\E s \in Space : UnlockSpace(s)) \/ Rechaining
        <5>1. chained' = chained BY <4>3, OtherFrames
        <5>2. open \subseteq open' BY <1>0, <4>3, RechainIs DEF UnlockSpace, Rechaining
        <5> QED BY <2>0, <5>1, <5>2
      <4>4. CASE UNCHANGED <<open, chained>> BY <2>0, <4>4
      <4> QED BY <2>5, <4>1, <4>2, <4>3, <4>4, OtherFrames DEF Aside
    <3> QED BY <2>3, <2>4, <3>1, <3>2 DEF Handing
  <2>6. CASE Crash /\ Todo' = {Do("Open")} /\ todo' # <<>> /\ Step' = Do("Open")
    <3>1. Step'.do = "Open" /\ \E x \in Todo' : x.do = "Open" BY <2>6 DEF Do
    <3>2. ~up' BY <2>6 DEF Crash
    <3>3. AtFirst(Handers)' BY <2>6, <3>1 DEF AtFirst, Handers
    <3>4. Within({"Open", "Settle", "EndHandover"})' BY <3>1 DEF Within
    <3> QED BY <2>3, <3>2, <3>3, <3>4 DEF Handing
  <2>7. CASE Goes /\ Acts /\ ~Crash /\ ~Errs /\ ~Asking
    <3>1. UNCHANGED <<open, chained, op, up>> BY <1>c, <2>0, <2>7, HandedOver
    <3>2. Step.do # "EndHandover"
      <4> SUFFICES ASSUME Step.do = "EndHandover" PROVE FALSE OBVIOUS
      <4>1. EndHandover BY <2>7 DEF Acts
      <4>2. mem' = [mem EXCEPT !.handover = None] BY <4>1 DEF EndHandover, Persist
      <4>3. mem'.handover = None BY <1>0, <4>2, Basics DEF Registry
      <4> QED BY <4>3
    <3>3. AtFirst(Handers)' /\ Within({"Open", "Settle", "EndHandover"})' BY <1>c, <2>0, <2>7, <3>2, HandGoes
    <3> QED BY <2>0, <2>3, <2>4, <3>1, <3>3 DEF Handing
  <2>8. CASE Falls BY <1>0, <2>1, <2>8, FallsNames DEF Handers
  <2>9. CASE Failed BY <1>0, <2>1, <2>9, StepIs DEF StepOf, Inv, Handers
  <2>10. CASE GivesUp BY <1>0, <2>10 DEF GivesUp
  <2> QED BY <1>0, <2>1, <2>5, <2>6, <2>7, <2>8, <2>9, <2>10, Cases
<1> QED BY <1>b, <1>c

\* Outside a handover nothing is taken from under the main server's key.
LEMMA KeptStays ==
  ASSUME Unfailing, ~Swap, mem.handover = None, NEW s \in chained \ {mem.main}, Kept(s)
  PROVE  Kept(s)'
<1>0. Inv /\ Next /\ SameHands /\ Promoting /\ chained \subseteq mem.entries BY SealedNow DEF Unfailing
<1>1. s \in mem.entries /\ s \in Space /\ s \in reg.entries /\ mem'.main = mem.main
  BY <1>0, Basics, HandsStep DEF SameHands
<1>2. SUFFICES store'[s].kept = store[s].kept \/ store'[s].kept = mem.main BY <1>1 DEF Kept
<1>3. CASE SameSealings BY <1>1, <1>3 DEF SameSealings, SameSeals
<1>4. CASE StageMain \/ StageOther \/ Unstage BY <1>0, <1>1, <1>4, StageMainIs, StageOtherIs, UnstageIs
<1>5. CASE SettleStep
  <2>1. /\ Step \in Todo /\ Step.at \in Space /\ Step.do \in {"Promote", "ClearDoc"}
        /\ \A t \in Space : t # Step.at => store'[t] = store[t]
        /\ Step.do = "ClearDoc" => SameSeals(store[Step.at], store'[Step.at])
    BY <1>0, <1>5, SettleStepIs
  <2>2. Step.do = "ClearDoc" BY <1>0, <2>1 DEF Promoting, Within
  <2> QED BY <1>1, <2>1, <2>2 DEF SameSeals
<1>6. CASE RemoveFiles \/ Discard
  <2>1. \A t \in Space : t # Step.at => store'[t] = store[t] BY <1>0, <1>6, EmptiedIs
  <2>2. Step.at \notin files' BY <1>6 DEF RemoveFiles, Discard
  <2>3. s # Step.at BY <1>0, <1>1, <2>2, FilesAre
  <2> QED BY <1>1, <2>1, <2>3
<1>7. CASE Opens
  <2>1. \A t \in Space : t \notin Swept => store'[t] = store[t] BY <1>0, <1>7, OpenIs
  <2> QED BY <1>1, <2>1 DEF Swept
<1>8. CASE Reseal BY <1>0, <1>1, <1>8, ResealIs
<1>9. CASE Unlock BY <1>0, <1>1, <1>9, UnlockIs
<1>10. CASE Rechaining BY <1>1, <1>10, RechainKeeps
<1> QED BY <1>0, <1>3, <1>4, <1>5, <1>6, <1>7, <1>8, <1>9, <1>10, SealsFrame

\* A handover gives every server's key to the new main server.
LEMMA StagedStays ==
  ASSUME Unfailing, Goes, Acts, ~Crash, ~Errs, ~Asking, ~Swap, mem.handover # None,
         NEW s \in mem.entries \ {mem.main}, SealedIn(s)
  PROVE  SealedIn(s)'
<1>0. Inv /\ Next /\ SameHands /\ Handing /\ Shape BY SealedNow DEF Unfailing, Inv
<1>1. s \in Space /\ s \in reg.entries /\ mem'.main = mem.main /\ mem.main \in Space
  BY <1>0, Basics, HandsStep DEF SameHands
<1>2. StepOf(Step.do) /\ Step.do \in Handers BY HandedOver
<1>3. CASE Step.do = "Open"
  <2>1. Fresh({Do("Settle"), Do("Recover"), Do("Ready")}, Do("Settle"))
        /\ \A t \in Space : t \notin Swept => store'[t] = store[t]
    BY <1>0, <1>3, OpenIs DEF Acts
  <2>2. store'[s] = store[s] BY <1>1, <2>1 DEF Swept
  <2>3. mem'.handover = mem.handover
    <3>1. mem.handover \in mem.entries BY <1>0 DEF Handing
    <3>2. mem' = mem \/ RegOpen BY <1>3, HandedOver
    <3> QED BY <1>0, <3>1, <3>2 DEF RegOpen, SameHands
  <2>4. Within({"Open", "Settle"})' BY <2>1 DEF Fresh, Within, Do
  <2> QED BY <1>1, <2>2, <2>3, <2>4 DEF SealedIn, Kept1, Staged1, Kept
<1>4. CASE Step.do = "Settle"
  <2>1. Settle BY <1>4 DEF Acts
  <2>2. PICK M, f : Spliced(M, f) /\ \A t \in mem.entries : \E x \in M : x.do = "Promote" /\ x.at = t
    BY <1>0, <2>1, SettleList, Basics
  <2>3. Coming("Promote", s)' BY <2>2 DEF Spliced, Coming
  <2>4. UNCHANGED <<store, mem>> BY <2>1, MoveFrames
  <2> QED BY <2>3, <2>4 DEF SealedIn, Kept1, Staged1, Kept
<1>5. CASE Step.do \in {"Promote", "ClearDoc"}
  <2>1. /\ Step.at \in Space /\ \A t \in Space : t # Step.at => store'[t] = store[t]
        /\ Step.do = "Promote" =>
             /\ store'[Step.at].staged = "nothing"
             /\ store[Step.at].staged = "nothing" => store'[Step.at].kept = store[Step.at].kept
             /\ store[Step.at].staged \in Space => store'[Step.at].kept = store[Step.at].staged
        /\ Step.do = "ClearDoc" => SameSeals(store[Step.at], store'[Step.at])
    BY <1>0, <1>5, SettleStepIs DEF Acts
  <2>2. UNCHANGED mem BY <1>5, HandedOver
  <2>3. \A x \in Todo : x = Step \/ x \in Todo' BY DEF Goes
  <2>4. CASE Step.do = "Promote" /\ Step.at = s
    <3>1. store'[s].staged = "nothing" /\ store'[s].kept = mem.main
      BY <1>1, <2>1, <2>4 DEF SealedIn, Kept1, Staged1, Kept
    <3> QED BY <2>2, <3>1 DEF SealedIn, Kept1, Kept
  <2>5. CASE ~(Step.do = "Promote" /\ Step.at = s)
    <3>1. store'[s].kept = store[s].kept /\ store'[s].staged = store[s].staged
      BY <1>1, <1>5, <2>1, <2>5 DEF SameSeals
    <3>2. Within({"Open", "Settle"}) => Within({"Open", "Settle"})' BY <1>5, <2>3 DEF Within
    <3>3. Coming("Promote", s) => Coming("Promote", s)' BY <2>3, <2>5 DEF Coming
    <3> QED BY <2>2, <3>1, <3>2, <3>3 DEF SealedIn, Kept1, Staged1, Kept
  <2> QED BY <2>4, <2>5
<1>6. CASE Step.do = "EndHandover"
  <2>1. EndHandover BY <1>6 DEF Acts
  <2>2. mem' = [mem EXCEPT !.handover = None] /\ UNCHANGED store BY <2>1 DEF EndHandover, Persist
  <2>3. mem'.handover = None BY <1>0, <2>2, Basics DEF Registry
  <2>4. ASSUME NEW x \in Todo, x.do \in {"Open", "Settle", "Promote"} PROVE FALSE
    <3>1. Precedes("EndHandover", x.do) BY <1>0, <1>2, <1>6, <2>4, Behind DEF Inv
    <3> QED BY <2>4, <3>1, Before, BeforeSettled DEF Names, Plain, Placed
  <2>5. Kept(s) BY <2>4 DEF SealedIn, Kept1, Staged1, Within, Coming
  <2> QED BY <1>1, <2>2, <2>3, <2>5 DEF SealedIn, Kept1, Kept
<1> QED BY <1>2, <1>3, <1>4, <1>5, <1>6 DEF Handers

\* What happens beside the settling leaves the chain.
LEMMA SealedAside ==
  ASSUME Unfailing, Aside, NEW s \in chained \ {mem.main}, chained' = chained, mem.handover # None, SealedIn(s)
  PROVE  SealedIn(s)'
<1>0. Inv /\ Next /\ Handing /\ chained \subseteq mem.entries BY SealedNow DEF Unfailing
<1>1. s \in Space /\ s \in mem.entries BY <1>0, Basics
<1>2. /\ UNCHANGED mem /\ up' = up /\ Within({"Open", "Settle"})' = Within({"Open", "Settle"})
      /\ Coming("Promote", s)' = Coming("Promote", s)
  BY <1>0, AsideIs
<1>3. store'[s].staged = store[s].staged /\ (Kept(s) => store'[s].kept = mem.main)
  <2>1. CASE Unlock BY <1>0, <1>1, <2>1, UnlockIs DEF Kept
  <2>2. CASE Rechaining BY <1>1, <2>2, RechainKeeps
  <2>3. CASE \E v \in 0 .. MaxOps : EditDoc(v)
    <3>1. SameSeals(store[s], store'[s]) BY <1>0, <1>1, <2>3, EditDocIs
    <3> QED BY <3>1 DEF SameSeals, Kept
  <2>4. CASE UNCHANGED store BY <2>4 DEF Kept
  <2>5. CASE (\E i \in Id : DeleteHost(i)) \/ (\E t \in Space, i \in Id : PassPull(t, i))
    <3>1. SameSealings BY <1>0, <2>5, RowsOnly
    <3> QED BY <1>1, <3>1 DEF SameSealings, SameSeals, Kept
  <2> QED BY <2>1, <2>2, <2>3, <2>4, <2>5, OtherFrames DEF Aside
<1> QED BY <1>2, <1>3 DEF SealedIn, Kept1, Staged1, Kept

\* Every step keeps each key in the chain.
LEMMA SealedInStep ==
  ASSUME Unfailing, NEW s \in chained' \ {mem'.main}
  PROVE  SealedIn(s)'
<1>0. /\ Inv /\ Next /\ ~Errs /\ SameHands /\ Handing /\ chained \subseteq mem.entries
      /\ \A t \in chained \ {mem.main} : SealedIn(t)
  BY SealedNow DEF Unfailing
<1>a. (mem'.handover \in {mem.handover, None} /\ mem'.main = mem.main) \/ Swap BY HandsStep
<1>b. CASE Swap
  <2>1. /\ Within({"Open", "Settle"})' /\ mem'.main = Step.at /\ mem'.handover # None
        /\ mem.entries = {mem.main, Step.at} /\ UNCHANGED store /\ chained' \in {{}, chained}
        /\ chained # {} => store[mem.main].staged = Step.at
    BY <1>b, SwapStarts
  <2>2. s = mem.main /\ chained # {} BY <1>0, <2>1
  <2> QED BY <2>1, <2>2 DEF SealedIn, Staged1
<1>c. CASE ~Swap
  <2>0. mem'.main = mem.main BY <1>a, <1>c
  <2>1. CASE Done
    <3>1. mem.handover = None BY <1>0, <2>1, StepIs DEF Handing, AtFirst, Handers, StepOf, Inv
    <3>2. UNCHANGED <<store, mem>> BY <2>1, RemoveFrames
    <3>3. Kept(s)
      <4>1. CASE s \in chained BY <1>0, <2>0, <3>1, <4>1 DEF SealedIn, Kept1, Staged1
      <4>2. CASE s \notin chained BY <1>0, <2>0, <2>1, <4>2, ChainNext DEF Kept
      <4> QED BY <4>1, <4>2
    <3> QED BY <3>1, <3>2, <3>3 DEF SealedIn, Kept1, Kept
  <2>2. CASE ~Done
    <3>1. s \in chained \ {mem.main} BY <1>0, <2>0, <2>2, ChainNext
    <3>2. SealedIn(s) /\ s \in mem.entries \ {mem.main} BY <1>0, <3>1
    <3>3. CASE mem.handover = None
      <4>1. Kept(s) BY <3>2, <3>3 DEF SealedIn, Kept1, Staged1
      <4>2. Kept(s)' BY <1>c, <3>1, <3>3, <4>1, KeptStays
      <4>3. mem'.handover = None BY <1>a, <1>c, <3>3
      <4> QED BY <4>2, <4>3 DEF SealedIn, Kept1
    <3>4. CASE mem.handover # None
      <4>0. todo # <<>> /\ Step.do \in Handers BY <1>0, <3>4 DEF Handing, AtFirst
      <4>1. CASE Aside
        <5>1. CASE Lock /\ chained' = {} BY <5>1
        <5>2. CASE chained' = chained BY <3>1, <3>2, <3>4, <4>1, <5>2, SealedAside
        <5>3. Lock => chained' \in {{}, chained} BY DEF Lock
        <5>4. CASE Lock BY <5>1, <5>2, <5>3, <5>4
        <5>5. CASE ~Lock
          <6>1. chained' = chained BY <4>1, <5>5, OtherFrames DEF Aside
          <6> QED BY <5>2, <6>1
        <5> QED BY <5>4, <5>5
      <4>2. CASE Crash /\ Todo' = {Do("Open")}
        <5>1. Within({"Open", "Settle"})' BY <4>2 DEF Within, Do
        <5>2. UNCHANGED <<store, mem>> BY <4>2, OtherFrames
        <5> QED BY <3>2, <3>4, <5>1, <5>2 DEF SealedIn, Kept1, Staged1, Kept
      <4>3. CASE Goes /\ Acts /\ ~Crash /\ ~Errs /\ ~Asking BY <1>c, <3>2, <3>4, <4>3, StagedStays
      <4>4. CASE Falls BY <1>0, <4>0, <4>4, FallsNames DEF Handers
      <4>5. CASE Failed BY <1>0, <4>0, <4>5, StepIs DEF StepOf, Inv, Handers
      <4>6. CASE GivesUp BY <1>0, <4>6 DEF GivesUp
      <4> QED BY <1>0, <4>0, <4>1, <4>2, <4>3, <4>4, <4>5, <4>6, Cases
    <3> QED BY <3>3, <3>4
  <2> QED BY <2>1, <2>2
<1> QED BY <1>b, <1>c

\* make_main stages before it swaps.
LEMMA SwapSealedPut ==
  ASSUME NEW new, SwapSteps(new) \subseteq Todo'
  PROVE  Within({"Stage"})' /\ Within({"Personal"})'
BY DEF SwapSteps, StageStep, DoIn, Within

\* A swap that is to come has its key staged, or to be staged.
LEMMA SwapSealedOld ==
  ASSUME Unfailing, ~Errs, ~Crash, ~Asking, Acts, Goes, NEW y \in Todo', Old(y), y.do = "Swap"
  PROVE  SwapSealed(y)'
<1>0. Inv /\ Next /\ \A x \in Todo : SwapSealed(x) BY SealedNow DEF Unfailing
<1>1. StepOf(Step.do) BY <1>0, OldStep DEF Inv
<1>2. y \in Todo /\ Step.do \in {"TakeRunning", "Personal", "StageMain", "Stage"} BY <1>0, OldStep, BeforeSettled
<1>3. \A x \in Todo : x = Step \/ x \in Todo' BY DEF Goes
<1>4. y.at \in mem.entries \ {mem.main} /\ y.at \in Space /\ mem.main \in Space BY <1>0, <1>2, Basics DEF Inv, SwapOK
<1>5. SwapSealed(y) BY <1>0, <1>2
<1>6. UNCHANGED <<mem, open, chained>> BY <1>2, MoveFrames, RemoveFrames DEF Acts
<1>7. (Within({"Stage"}) => Within({"Stage"})' \/ Step.do = "Stage")
      /\ (Within({"Personal"}) => Within({"Personal"})' \/ Step.do = "Personal")
  BY <1>3 DEF Within
<1>8. CASE Step.do = "TakeRunning"
  <2>1. store' = store BY <1>8, RemoveFrames DEF Acts
  <2> QED BY <1>5, <1>6, <1>7, <1>8, <2>1 DEF SwapSealed
<1>9. CASE Step.do = "Personal"
  <2>1. Personal BY <1>9 DEF Acts
  <2>2. ~Fallen({}) BY DEF Fallen
  <2>3. {mem.main, Step.at} \subseteq open /\ \A s \in Space : SameSeals(store[s], store'[s])
    BY <1>0, <2>1, <2>2, PersonalIs
  <2>4. Step.at \in mem.entries \ {mem.main} BY <1>0, <1>1, <1>9 DEF Inv, SwapOK, StepOf
  <2>5. y.at = Step.at BY <1>0, <1>4, <2>4, Basics
  <2>6. store'[mem.main].staged = store[mem.main].staged BY <1>4, <2>3 DEF SameSeals
  <2> QED BY <1>5, <1>6, <1>7, <1>9, <2>3, <2>5, <2>6 DEF SwapSealed
<1>10. CASE Step.do = "StageMain"
  <2>1. StageMain BY <1>10 DEF Acts
  <2>2. ~Fallen({"Unstage"}) BY DEF Fallen
  <2>3. \A s \in Space : s # Step.at => store'[s] = store[s] BY <1>0, <2>1, <2>2, StageMainIs
  <2>4. Step.at \in mem.entries \ {mem.main} BY <1>0, <1>1, <1>10 DEF Inv, SwapOK, StepOf
  <2>5. store'[mem.main] = store[mem.main] BY <1>4, <2>3, <2>4
  <2> QED BY <1>5, <1>6, <1>7, <1>10, <2>5 DEF SwapSealed
<1>11. CASE Step.do = "Stage"
  <2>1. StageOther BY <1>11 DEF Acts
  <2>2. ~Fallen({"Unstage"}) BY DEF Fallen
  <2>3. Step.at = mem.main /\ Step.main \in mem.entries \ {mem.main} BY <1>0, <1>1, <1>11 DEF Inv, SwapOK, StepOf
  <2>4. y.at = Step.main BY <1>0, <1>4, <2>3, Basics
  <2>5. ~Within({"Personal"})
    <3> SUFFICES ASSUME NEW x \in Todo, x.do = "Personal" PROVE FALSE BY DEF Within
    <3>1. Precedes("Stage", "Personal") BY <1>0, <1>1, <1>11, Behind DEF Inv
    <3> QED BY <3>1, BeforeSettled DEF Names, Placed
  <2>6. chained # {} => {mem.main, y.at} \subseteq open BY <1>2, <1>5, <2>5 DEF SwapSealed
  <2>7. chained # {} => store'[Step.at].staged = Step.main BY <1>0, <2>1, <2>2, <2>3, <2>6, StageOtherIs
  <2> QED BY <1>6, <2>3, <2>4, <2>6, <2>7 DEF SwapSealed
<1> QED BY <1>2, <1>8, <1>9, <1>10, <1>11

\* What happens beside a swap leaves what is staged.
LEMMA SwapSealedAside ==
  ASSUME Unfailing, Aside, NEW y \in Todo', y.do = "Swap"
  PROVE  SwapSealed(y)'
<1>0. Inv /\ Next /\ \A x \in Todo : SwapSealed(x) BY SealedNow DEF Unfailing
<1>1. /\ Todo' = Todo /\ UNCHANGED <<mem, op>> /\ (Within({"Stage"})' = Within({"Stage"}))
      /\ (Within({"Personal"})' = Within({"Personal"}))
  BY <1>0, AsideIs
<1>2. y \in Todo /\ SwapSealed(y) /\ op.kind \in {"main", "remove"} /\ mem.main \in Space
  BY <1>0, <1>1, KindsOf, Basics
<1>3. CASE Lock
  <2>1. chained' = {} BY <1>2, <1>3 DEF Lock
  <2> QED BY <2>1 DEF SwapSealed
<1>4. CASE ~Lock
  <2>1. chained' = chained /\ open \subseteq open'
    <3>1. chained' = chained BY <1>4, OtherFrames DEF Aside
    <3>2. Rechaining => open \subseteq open' BY <1>0, RechainIs DEF Rechaining
    <3>3. Rechaining \/ Unlock \/ (\E s \in Space : UnlockSpace(s)) \/ open' = open BY <1>4, OtherFrames DEF Aside
    <3> QED BY <3>1, <3>2, <3>3 DEF Unlock, UnlockSpace
  <2>2. store'[mem.main].staged = store[mem.main].staged
    <3>1. CASE Unlock BY <1>0, <1>2, <3>1, UnlockIs
    <3>2. CASE Rechaining BY <1>0, <1>2, <3>2, RechainIs DEF Rechaining
    <3>3. CASE \E v \in 0 .. MaxOps : EditDoc(v)
      <4>1. SameSeals(store[mem.main], store'[mem.main]) BY <1>0, <1>2, <3>3, EditDocIs
      <4> QED BY <4>1 DEF SameSeals
    <3>4. CASE UNCHANGED store BY <3>4
    <3>5. CASE (\E i \in Id : DeleteHost(i)) \/ (\E t \in Space, i \in Id : PassPull(t, i))
      <4>1. SameSealings BY <1>0, <3>5, RowsOnly
      <4> QED BY <1>2, <4>1 DEF SameSealings, SameSeals
    <3> QED BY <1>4, <3>1, <3>2, <3>3, <3>4, <3>5, OtherFrames DEF Aside
  <2> QED BY <1>1, <1>2, <2>1, <2>2 DEF SwapSealed
<1> QED BY <1>3, <1>4

\* The same, for every swap in the list.
LEMMA SwapSealedStep ==
  ASSUME Unfailing, NEW y \in Todo'
  PROVE  SwapSealed(y)'
<1>0. Inv /\ Next /\ ~Errs BY SealedNow DEF Unfailing
<1> SUFFICES ASSUME y.do = "Swap" PROVE SwapSealed(y)' BY DEF SwapSealed
<1>1. CASE Aside BY <1>1, SwapSealedAside
<1>2. CASE Asking
  <2>1. ASSUME NEW i \in Id, NEW s \in mem.entries, NEW to \in mem.entries, MoveAsked(i, s, to) PROVE FALSE
    BY <2>1 DEF MoveAsked, Fresh, Do, BeginStep
  <2>2. ASSUME NEW s \in mem.entries \ {mem.main}, MainAsked(s) PROVE SwapSealed(y)'
    <3>1. SwapSteps(s) \subseteq Todo' BY <2>2 DEF MainAsked, Fresh
    <3> QED BY <3>1, SwapSealedPut DEF SwapSealed
  <2>3. ASSUME NEW s \in mem.entries, NEW keep \in BOOLEAN, RemoveAsked(s, keep) PROVE FALSE
    BY <2>3 DEF RemoveAsked, Fresh, RemoveSteps, Do, DoIn
  <2>4. ASSUME NEW s \in Space, AddAsked(s) PROVE FALSE BY <2>4 DEF AddAsked, Fresh, Do, DoIn
  <2>5. ASSUME AdoptAsked \/ DiscardAsked PROVE FALSE BY <2>5 DEF AdoptAsked, DiscardAsked, Fresh, Do, DoIn
  <2> QED BY <1>0, <1>2, <2>1, <2>2, <2>3, <2>4, <2>5, Asked
<1>3. CASE Todo' = {Do("Open")} \/ Todo' = {} BY <1>3 DEF Do
<1>4. CASE GivesUp BY <1>0, <1>4 DEF GivesUp
<1>5. CASE Falls BY <1>5, FallenNames DEF Falls
<1>6. CASE Goes /\ Acts /\ ~Crash /\ ~Errs /\ ~Asking
  <2>1. CASE Old(y) BY <1>6, <2>1, SwapSealedOld
  <2>2. CASE Put(y)
    <3>1. HandOn BY <1>0, <2>2, PutNames
    <3>2. StepOf("HandOn") BY <1>0, <3>1, StepIs DEF Inv
    <3>3. ~Recover /\ ~Begin /\ ~Settle /\ ~TakeHosts /\ ~Opens BY <1>0, <3>2, StepIs DEF StepOf, Inv
    <3>4. mem.main = Step.at BY <2>2, <3>3 DEF Put
    <3>5. Other(Step.at) \in mem.entries /\ Other(Step.at) # Step.at BY <1>0, <3>2, RemovalOf DEF StepOf
    <3>6. Spliced(SwapSteps(Other(Step.at)), DoIn("Personal", Other(Step.at)))
      BY <1>0, <3>1, <3>4, <3>5, HandOnList, Basics
    <3> QED BY <3>6, SwapSealedPut DEF Spliced, SwapSealed
  <2> QED BY <1>6, <2>1, <2>2 DEF Goes
<1> QED BY <1>0, <1>1, <1>2, <1>3, <1>4, <1>5, <1>6, Cases

\* Every step keeps the chain of keys.
LEMMA SealedStep ==
  ASSUME Inv, Next
  PROVE  Sealed'
<1> SUFFICES ASSUME spent'.errors = 0
             PROVE  /\ SameHands' /\ Rechains' /\ Handing' /\ Promoting' /\ (chained \subseteq mem.entries)'
                    /\ \A s \in chained' \ {mem'.main} : SealedIn(s)'
                    /\ \A x \in Todo' : SwapSealed(x)'
  BY SealedThen
<1>1. Unfailing BY DEF Unfailing
<1>2. Rechains' BY <1>1, SealedNow, ChainNext
<1> QED BY <1>1, <1>2, HandsStep, HandingStep, PromotingStep, SealedInStep, SwapSealedStep

------------------------------------------------------------------------------
(* The invariant                                                            *)

\* What the program starts with.
FirstStore(seal) ==
  [EmptyStore EXCEPT
     !.host  = [i \in Id |-> IF i[2] = 1 THEN "live" ELSE "none"],
     !.uses  = [i \in Id |-> IF i[2] = 1 /\ i[1] \in Keyed THEN 1 ELSE 0],
     !.key   = [g \in Gen |-> IF g = 1 /\ Keyed # {} THEN "live" ELSE "none"],
     !.known = TRUE,
     !.kept  = seal]

StartReg(entries) ==
  [main |-> First, entries |-> entries, journal |-> NoJournal, handover |-> None, leaving |-> None]

Starts0(entries, seal) ==
  /\ reg = StartReg(entries) /\ mem = reg
  /\ files = entries /\ marker = {}
  /\ store \in [Space -> StoreSet]
  /\ store[First] = FirstStore(seal)
  /\ \A s \in Space : s # First =>
       store[s] = [EmptyStore EXCEPT !.kept = IF s \in entries THEN First ELSE "none"]
  /\ up = TRUE /\ open = entries /\ pending = None
  /\ op = Idle /\ todo = <<>>
  /\ held = {} /\ gone = {} /\ running = [s \in Space |-> "no"] /\ stale = {}
  /\ left = {} /\ wiped = {} /\ unnoted = {} /\ deleted = {} /\ doc = 0 /\ chained = entries
  /\ now = 1
  /\ spent = [ops |-> 0, crashes |-> 0, errors |-> 0]

\* The first row of each host.
LEMMA GenOne == 1 \in Gen /\ 0 \notin Gen /\ \A h \in Host : <<h, 1>> \in Id /\ <<h, 1>>[1] = h /\ <<h, 1>>[2] = 1
BY SpacesAssumption DEF Gen, Id

\* The first database, and another one.
StartedFirst(st) ==
  /\ st.known = TRUE
  /\ \A i \in Id : /\ st.host[i] = IF i[2] = 1 THEN "live" ELSE "none"
                   /\ st.uses[i] = IF i[2] = 1 /\ i[1] \in Keyed THEN 1 ELSE 0
  /\ \A g \in Gen : st.key[g] = IF g = 1 /\ Keyed # {} THEN "live" ELSE "none"
StartedOther(st, k) ==
  /\ st.kept = k /\ st.uses = [i \in Id |-> 0]
  /\ \A i \in Id : st.host[i] = "none" /\ st.uses[i] = 0
  /\ \A g \in Gen : st.key[g] = "none"
Undocumented(st) == st.doc.val = 0 /\ st.doc.at = 0

\* The store of the first server at the start.
LEMMA FirstStoreIs ==
  ASSUME NEW seal \in {"os", "none"}
  PROVE  FirstStore(seal) \in StoreSet /\ StartedFirst(FirstStore(seal)) /\ Undocumented(FirstStore(seal))
<1>1. PICK hs : hs = [i \in Id |-> IF i[2] = 1 THEN "live" ELSE "none"] OBVIOUS
<1>2. PICK us : us = [i \in Id |-> IF i[2] = 1 /\ i[1] \in Keyed THEN 1 ELSE 0] OBVIOUS
<1>3. PICK ks : ks = [g \in Gen |-> IF g = 1 /\ Keyed # {} THEN "live" ELSE "none"] OBVIOUS
<1>4. PICK e : e = EmptyStore OBVIOUS
<1>5. FirstStore(seal) = [e EXCEPT !.host = hs, !.uses = us, !.key = ks, !.known = TRUE, !.kept = seal]
  BY <1>1, <1>2, <1>3, <1>4 DEF FirstStore
<1>6. e \in StoreSet /\ e.doc.val = 0 /\ e.doc.at = 0 BY <1>4, EmptyIs
<1>7. hs \in [Id -> State] BY <1>1 DEF State
<1>8. us \in [Id -> {0} \cup Gen] BY <1>2, GenOne
<1>9. ks \in [Gen -> State] BY <1>3 DEF State
<1>10. seal \in Seal BY DEF Seal
<1>11. PICK st : st = FirstStore(seal) OBVIOUS
<1>12. st \in StoreSet /\ st.host = hs /\ st.uses = us /\ st.key = ks /\ st.known = TRUE /\ st.doc = e.doc
  BY <1>5, <1>6, <1>7, <1>8, <1>9, <1>10, <1>11 DEF StoreSet
<1>13. StartedFirst(st) BY <1>1, <1>2, <1>3, <1>12 DEF StartedFirst
<1> QED BY <1>6, <1>11, <1>12, <1>13 DEF Undocumented

\* The start, field by field.
LEMMA StartIs ==
  ASSUME Init
  PROVE  \E entries \in {{First, s} : s \in Space}, seal \in {"os", "none"} : Starts0(entries, seal)
<1>1. PICK entries \in {{First, s} : s \in Space}, seal \in {"os", "none"} :
        /\ reg = StartReg(entries) /\ mem = reg
        /\ files = entries /\ marker = {}
        /\ store = [s \in Space |->
             IF s # First THEN [EmptyStore EXCEPT !.kept = IF s \in entries THEN First ELSE "none"]
             ELSE FirstStore(seal)]
        /\ up = TRUE /\ open = entries /\ pending = None
        /\ op = Idle /\ todo = <<>>
        /\ held = {} /\ gone = {} /\ running = [s \in Space |-> "no"] /\ stale = {}
        /\ left = {} /\ wiped = {} /\ unnoted = {} /\ deleted = {} /\ doc = 0 /\ chained = entries
        /\ now = 1
        /\ spent = [ops |-> 0, crashes |-> 0, errors |-> 0]
  BY ZenonT(30) DEF Init, StartReg, FirstStore
<1>2. First \in Space BY SpacesAssumption
<1>3. FirstStore(seal) \in StoreSet BY FirstStoreIs
<1>4. ASSUME NEW k \in Seal PROVE [EmptyStore EXCEPT !.kept = k] \in StoreSet BY EmptyIs, OtherFields
<1>5. First \in Seal /\ "none" \in Seal BY <1>2 DEF Seal
<1>6. store \in [Space -> StoreSet] /\ store[First] = FirstStore(seal)
  BY <1>1, <1>2, <1>3, <1>4, <1>5
<1>7. Starts0(entries, seal) BY <1>1, <1>2, <1>6 DEF Starts0
<1> QED BY <1>7, SMTT(30)

\* The store of the second server at the start.
LEMMA OtherStart ==
  ASSUME NEW k \in Seal
  PROVE  LET st == [EmptyStore EXCEPT !.kept = k]
         IN st \in StoreSet /\ StartedOther(st, k) /\ Undocumented(st)
<1>1. SameRows(EmptyStore, [EmptyStore EXCEPT !.kept = k]) BY EmptyIs, OtherFields
<1> QED BY <1>1, EmptyIs, OtherFields DEF SameRows, StartedOther, Undocumented

\* The invariant holds at the start.
LEMMA InitInv == Init => Inv
<1> SUFFICES ASSUME Init PROVE Inv OBVIOUS
<1>1. PICK x \in Space, seal \in {"os", "none"} : Starts0({First, x}, seal) BY StartIs
<1>2. PICK E : E = {First, x} OBVIOUS
<1>3. Starts0(E, seal) /\ First \in E /\ E \subseteq Space /\ First \in Space /\ None \notin Space
  BY <1>1, <1>2, SpacesAssumption
<1>4. /\ reg.main = First /\ reg.entries = E /\ reg.journal = NoJournal /\ reg.handover = None /\ reg.leaving = None
      /\ mem = reg /\ reg \in Registry
  BY <1>3 DEF Starts0, StartReg, Registry
<1>5. Todo = {} /\ todo = <<>> /\ todo \in Seq(StepSet) /\ Len(todo) = 0
  BY <1>3 DEF Starts0, Todo, Elems
<1>6. Shape BY <1>5 DEF Shape, ShapeOf, Ordered
<1>7. ASSUME NEW s \in Space
      PROVE  /\ s # First => StartedOther(store[s], IF s \in E THEN First ELSE "none")
             /\ s = First => StartedFirst(store[s])
             /\ Undocumented(store[s])
  <2>1. CASE s # First
    <3>1. PICK k : k = IF s \in E THEN First ELSE "none" OBVIOUS
    <3>2. k \in Seal /\ store[s] = [EmptyStore EXCEPT !.kept = k] BY <1>3, <2>1, <3>1 DEF Starts0, Seal
    <3> QED BY <2>1, <3>1, <3>2, OtherStart
  <2>2. CASE s = First
    <3>1. store[s] = FirstStore(seal) BY <1>3, <2>2 DEF Starts0
    <3> QED BY <2>2, <3>1, FirstStoreIs
  <2> QED BY <2>1, <2>2
<1>8. Types
  <2>1. store \in [Space -> StoreSet] BY <1>3 DEF Starts0
  <2>2. op \in [kind : Kinds, space : Space \cup {None}, taking : BOOLEAN, moved : BOOLEAN]
    BY <1>3 DEF Starts0, Idle, Kinds
  <2>3. spent \in [ops : Nat, crashes : Nat, errors : Nat] /\ now = 1 BY <1>3 DEF Starts0
  <2>4. ASSUME NEW s \in Space
        PROVE  /\ store[s].host \in [Id -> State] /\ store[s].uses \in [Id -> {0} \cup Gen]
               /\ store[s].key \in [Gen -> State] /\ store[s].known \in BOOLEAN
               /\ store[s].doc \in [val : 0 .. MaxOps, at : Nat]
               /\ store[s].kept \in Seal /\ store[s].staged \in Seal \cup {"nothing", "forget"}
    <3>1. store[s] \in StoreSet BY <2>1
    <3> QED BY <3>1, StoreFields
  <2>5. TypeOK BY <1>3, <1>4, <2>4 DEF TypeOK, Starts0
  <2>6. \A s \in Space : store[s].doc.at = 0 BY <1>7 DEF Undocumented
  <2> QED BY <2>1, <2>2, <2>3, <2>5, <2>6 DEF Types
<1>9. KindOK BY <1>3, <1>5 DEF KindOK, Starts0, Idle
<1>10. RegOK(reg) /\ RegOK(mem) BY <1>1, <1>2, <1>3, <1>4 DEF RegOK
<1>11. Registered BY <1>3, <1>4, <1>10 DEF Registered, Starts0
<1>12. Setup
  <2>1. \A s \in Space \ files : Unused(s)
    <3> SUFFICES ASSUME NEW s \in Space \ files PROVE Unused(s) OBVIOUS
    <3>1. s # First BY <1>3 DEF Starts0
    <3> QED BY <1>7, <3>1 DEF Unused, StartedOther, Undocumented
  <2>2. pending = None /\ marker = {} BY <1>3 DEF Starts0
  <2> QED BY <1>5, <2>1, <2>2 DEF Setup
<1>13. Removing BY <1>3 DEF Removing, Starts0, Idle
<1>14. Leaving BY <1>3 DEF Leaving, HeldWhileLeaving, Starts0
<1>15. ASSUME NEW s \in Space, NEW i \in Id PROVE Live(s, i) <=> (s = First /\ i[2] = 1)
  BY <1>7 DEF Live, StartedFirst, StartedOther
<1>16. Copied
  <2>1. \A h \in Host : Live(First, <<h, 1>>) BY <1>3, <1>15, GenOne
  <2> QED BY <1>3, <1>4, <1>15, <2>1, GenOne DEF Copied
<1>17. ASSUME NEW s \in Space, NEW t \in Space, NEW i \in Id, NEW k \in Id PROVE ~Twice(s, i, t, k)
  <2> SUFFICES ASSUME Twice(s, i, t, k) PROVE FALSE OBVIOUS
  <2>1. s = First /\ t = First /\ i[2] = 1 /\ k[2] = 1 /\ i[1] = k[1] /\ <<s, i>> # <<t, k>>
    BY <1>15 DEF Twice
  <2>2. i = k BY <2>1 DEF Id
  <2> QED BY <2>1, <2>2
<1>18. OnceOrMoving BY <1>17 DEF OnceOrMoving
<1>19. Journaled BY <1>4 DEF Journaled, JournalOK
<1>20. Whole
  <2> SUFFICES ASSUME NEW s \in Space PROVE WholeIn(store[s]) BY DEF Whole
  <2>1. CASE s = First 
    <3>1. StartedFirst(store[s]) BY <1>7, <2>1
    <3> QED BY <3>1, GenOne DEF WholeIn, StartedFirst
  <2>2. CASE s # First BY <1>7, <2>2 DEF WholeIn, StartedOther
  <2> QED BY <2>1, <2>2
<1>21. ASSUME NEW s \in Space, NEW g \in Gen PROVE ~Orphan(s, g)
  <2> SUFFICES ASSUME Orphan(s, g) PROVE FALSE OBVIOUS
  <2>1. g # 0 /\ s = First BY <1>7, GenOne DEF Orphan, StartedOther
  <2>2. PICK i \in Id : store[s].uses[i] = g /\ store[s].host[i] = "dead" BY DEF Orphan
  <2> QED BY <1>7, <2>1, <2>2 DEF StartedFirst
<1>22. Neat(mem) /\ Neat(reg) BY <1>3, <1>4, <1>21 DEF Neat
<1>23. MoveOK /\ SwapOK BY <1>5 DEF MoveOK, SwapOK, AtFirst
<1>24. Docs BY <1>3, <1>4, <1>5, <1>7 DEF Docs, Starts0, Undocumented
<1>25. Sealed
  <2>1. \A s \in E \ {First} : Kept(s) BY <1>3, <1>4, <1>7 DEF Kept, StartedOther
  <2>2. chained = E /\ stale = {} BY <1>3 DEF Starts0
  <2>3. ~Within({"Promote"}) BY <1>5 DEF Within
  <2> QED BY <1>4, <1>5, <2>1, <2>2, <2>3 DEF Sealed
<1> QED BY <1>6, <1>8, <1>9, <1>11, <1>12, <1>13, <1>14, <1>16, <1>18, <1>19, <1>20, <1>22, <1>23, <1>24, <1>25 DEF Inv

\* A step of nobody keeps it.
LEMMA StutterInv == ASSUME Inv, UNCHANGED vars PROVE Inv'
<1>1. UNCHANGED <<reg, files, marker, store, mem, up, open, pending, op, todo, held, gone, running,
                  stale, left, wiped, unnoted, deleted, doc, chained, now, spent>>
  BY DEF vars, disk, flags, ghost
<1>2. Todo' = Todo /\ Step' = Step /\ (Shape' <=> Shape) BY <1>1 DEF Todo, Step, Shape
<1>3. \A a : (Within(a)' <=> Within(a)) /\ (AtFirst(a)' <=> AtFirst(a)) BY <1>1, <1>2 DEF Within, AtFirst
<1>4. \A a, s : Coming(a, s)' <=> Coming(a, s) BY <1>2 DEF Coming
<1>5. \A s, i : Live(s, i)' <=> Live(s, i) BY <1>1 DEF Live
<1>6. \A s, g : Orphan(s, g)' <=> Orphan(s, g) BY <1>1 DEF Orphan
<1>7. \A s, i, t, k : /\ Twice(s, i, t, k)' <=> Twice(s, i, t, k)
                      /\ Pair(s, i, t, k)' <=> Pair(s, i, t, k)
  BY <1>1, <1>5 DEF Twice, Pair
<1>8. Types' BY <1>1 DEF Inv, Types, TypeOK
<1>9. KindOK' BY <1>1, <1>2 DEF Inv, KindOK
<1>10. Registered' BY <1>1 DEF Inv, Registered, RegOK
<1>11. Setup'
  <2>1. Setup BY DEF Inv
  <2> QED BY <1>1, <1>2, <1>3, <1>4, <2>1 DEF Setup, Unused
<1>12. Removing'
  <2>1. op.kind = "remove" => HoldsIt /\ RunsIt /\ NotedIt /\ TakingIt /\ (\A x \in Todo : AboutIt(x)) /\ Emptied
    BY RemovingNow
  <2>2. (HoldsIt' <=> HoldsIt) /\ (RunsIt' <=> RunsIt) /\ (NotedIt' <=> NotedIt) /\ (TakingIt' <=> TakingIt)
    BY <1>1, <1>3 DEF HoldsIt, RunsIt, NotedIt, TakingIt
  <2>3. \A x : AboutIt(x)' <=> AboutIt(x) BY <1>1, <1>3 DEF AboutIt
  <2>4. \A i : OnItsWay(i)' <=> OnItsWay(i) BY <1>1, <1>2, <1>3 DEF OnItsWay
  <2>5. \A i : Live(op.space, i)' <=> Live(op.space, i) BY <1>1 DEF Live
  <2>6. Emptied' <=> Emptied BY <1>1, <1>3, <2>4, <2>5 DEF Emptied
  <2> QED BY <1>1, <1>2, <2>1, <2>2, <2>3, <2>6, RemovingThen
<1>13. Leaving' BY <1>1 DEF Inv, Leaving, HeldWhileLeaving
<1>14. Copied' BY <1>1, <1>5 DEF Inv, Copied
<1>15. OnceOrMoving' BY <1>7 DEF Inv, OnceOrMoving
<1>16. Journaled' BY <1>1 DEF Inv, Journaled, JournalOK, Live
<1>17. Whole' BY <1>1 DEF Inv, Whole, WholeIn
<1>18. Neat(mem)' /\ Neat(reg)' BY <1>1, <1>6 DEF Inv, Neat
<1>19. MoveOK'
  <2>1. MoveOK BY DEF Inv
  <2>2. \A j : Fits(j)' <=> Fits(j) BY <1>1 DEF Fits, Live
  <2>3. \A j, m : Carries(j, m)' <=> Carries(j, m) BY <1>1 DEF Carries, FreshKeys
  <2>4. (Once' <=> Once) /\ (Clean' <=> Clean) BY <1>1, <1>6, <1>7 DEF Once, Clean
  <2>5. Live(mem.journal.to, mem.journal.target)' <=> Live(mem.journal.to, mem.journal.target) BY <1>1 DEF Live
  <2> QED BY <1>1, <1>2, <1>3, <2>1, <2>2, <2>3, <2>4, <2>5 DEF MoveOK
<1>20. SwapOK' BY <1>1, <1>2 DEF Inv, SwapOK
<1>21. Docs' BY <1>1, <1>2, <1>3 DEF Inv, Docs
<1>22. Sealed'
  <2>1. Sealed BY DEF Inv
  <2>2. \A s : Kept(s)' <=> Kept(s) BY <1>1 DEF Kept
  <2> QED BY <1>1, <1>2, <1>3, <1>4, <2>1, <2>2 DEF Sealed
<1> QED BY <1>2, <1>8, <1>9, <1>10, <1>11, <1>12, <1>13, <1>14, <1>15, <1>16, <1>17, <1>18, <1>19, <1>20, <1>21,
           <1>22 DEF Inv

\* Every step keeps the invariant.
LEMMA NextInv == ASSUME Inv, [Next]_vars PROVE Inv'
<1>1. CASE Next
  <2>1. Types' /\ Shape' /\ KindOK' /\ Registered' BY <1>1, TypesStep, TodoIs, KindStep, RegisteredStep
  <2>2. Setup' /\ Removing' /\ Leaving' BY <1>1, SetupStep, RemovingStep, LeavingStep
  <2>3. Hosts' BY <1>1, HostsStep
  <2>4. MoveOK' /\ SwapOK' /\ Docs' /\ Sealed' BY <1>1, MoveStep, SwapStep, DocsStep, SealedStep
  <2> QED BY <2>1, <2>2, <2>3, <2>4 DEF Inv, Hosts
<1> QED BY <1>1, StutterInv

\* For any servers, hosts and bounds: wherever a move, a change of the main server or
\* a removal is cut short, the invariant holds (spaces.rs; the flags of sync.rs).
THEOREM Invariance == Spec => []Inv
<1>1. Init => Inv BY InitInv
<1>2. Inv /\ [Next]_vars => Inv' BY NextInv
<1> QED BY <1>1, <1>2, PTL DEF Spec

------------------------------------------------------------------------------
(* What follows from it                                                     *)

\* The rows of a host nobody deleted: one, or the two its journal entry names, and
\* then the target's is the one that is listed.
LEMMA OneRow ==
  ASSUME Inv, NEW h \in Host \ deleted
  PROVE  \E s \in mem.entries, i \in Id :
           /\ i[1] = h /\ Here(h) = {<<s, i>>} /\ HostSpace(i) = s
<1> DEFINE j == mem.journal
           row(s, i) == s \in mem.entries /\ i \in Id /\ i[1] = h /\ Live(s, i)
<1>1. mem.entries \subseteq Space /\ (j # NoJournal => j \in Entry) BY Basics, JournalIn
<1>2. \E s \in mem.entries, i \in Id : row(s, i)
  <2>1. PICK s \in mem.entries, g \in Gen : Live(s, <<h, g>>) BY DEF Inv, Copied
  <2> QED BY <2>1 DEF Id
<1>3. \A s, i, t, k : row(s, i) /\ row(t, k) /\ <<s, i>> # <<t, k>> =>
        \/ j = [host |-> i, target |-> k, from |-> s, to |-> t]
        \/ j = [host |-> k, target |-> i, from |-> t, to |-> s]
  BY <1>1 DEF Inv, OnceOrMoving, Twice, Pair
<1>4. Arrived(j) => j \in Entry /\ j.from # j.to /\ j.target[1] = j.host[1] /\ j.target \in Id /\ j.host \in Id
  <2>1. Arrived(j) => j \in Entry BY <1>1 DEF Arrived
  <2> QED BY <2>1 DEF Entry, Journal, Arrived
<1>5. Here(h) \subseteq {e \in mem.entries \X Id : row(e[1], e[2])} BY DEF Here, Listed
<1>6. ASSUME NEW s, NEW i, row(s, i),
             \A t, k : row(t, k) => <<t, k>> = <<s, i>>
      PROVE  Here(h) = {<<s, i>>} /\ HostSpace(i) = s
  <2>1. ~(Arrived(j) /\ j.from = s /\ j.host = i)
    <3> SUFFICES ASSUME Arrived(j), j.from = s, j.host = i PROVE FALSE OBVIOUS
    <3>1. row(j.to, j.target) BY <1>4, <1>6 DEF Arrived
    <3> QED BY <1>4, <1>6, <3>1
  <2>2. <<s, i>> \in Here(h)
    <3> DEFINE all == {e \in mem.entries \X Id : Live(e[1], e[2])}
               shown == IF Arrived(j) THEN all \ {<<j.from, j.host>>} ELSE all
    <3>1. <<s, i>> \in all BY <1>6
    <3>2. <<s, i>> \in shown BY <2>1, <3>1
    <3>3. \A f \in shown : f[2] = i => f[1] = s
      <4> SUFFICES ASSUME NEW f \in shown, f[2] = i PROVE f[1] = s OBVIOUS
      <4>1. f \in all OBVIOUS
      <4>2. row(f[1], f[2]) BY <1>6, <4>1
      <4> QED BY <1>6, <4>2
    <3>4. Listed = {e \in shown : ~\E f \in shown : f[2] = e[2] /\ f[1] # e[1] /\ f[1] = mem.main} BY DEF Listed
    <3> HIDE DEF shown
    <3> QED BY <1>6, <3>2, <3>3, <3>4 DEF Here
  <2>3. Here(h) = {<<s, i>>}
    <3>1. ASSUME NEW e \in Here(h) PROVE e = <<s, i>>
      <4>1. e \in mem.entries \X Id /\ row(e[1], e[2]) BY <1>5
      <4>2. e = <<e[1], e[2]>> BY <4>1
      <4> QED BY <1>6, <4>1, <4>2
    <3> QED BY <2>2, <3>1
  <2>4. HostSpace(i) = s
    <3> DEFINE found == {t \in mem.entries : Live(t, i)}
    <3>1. found = {s} BY <1>6
    <3>2. (IF mem.main \in found THEN mem.main ELSE CHOOSE t \in found : TRUE) = s BY <3>1
    <3> QED BY <2>1, <3>1, <3>2 DEF HostSpace
  <2> QED BY <2>3, <2>4
<1>7. ASSUME NEW s, NEW i, NEW t, NEW k, row(s, i), row(t, k), <<s, i>> # <<t, k>>,
             j = [host |-> i, target |-> k, from |-> s, to |-> t]
      PROVE  Here(h) = {<<t, k>>} /\ HostSpace(k) = t
  <2>1. j.host = i /\ j.target = k /\ j.from = s /\ j.to = t BY <1>7
  <2>2. j # NoJournal
    <3>1. NoJournal.from = None /\ s # None BY <1>1, <1>7, SpacesAssumption DEF NoJournal
    <3> QED BY <2>1, <3>1
  <2>3. s # t
    <3>1. j \in Entry BY <1>1, <2>2
    <3> QED BY <2>1, <3>1 DEF Entry
  <2>4. Arrived(j) BY <1>7, <2>1, <2>2, <2>3 DEF Arrived
  <2>5. ASSUME NEW u, NEW m, row(u, m) PROVE (u = s /\ m = i) \/ (u = t /\ m = k)
    <3> SUFFICES ASSUME ~(u = s /\ m = i) PROVE u = t /\ m = k OBVIOUS
    <3>1. <<s, i>> # <<u, m>> OBVIOUS
    <3>2. \/ j = [host |-> i, target |-> m, from |-> s, to |-> u]
          \/ j = [host |-> m, target |-> i, from |-> u, to |-> s]
      BY <1>3, <1>7, <2>5, <3>1
    <3>3. (j.target = m /\ j.to = u) \/ (j.from = u /\ j.to = s) BY <3>2
    <3> QED BY <2>1, <2>3, <3>3
  <2>6. <<t, k>> \in Here(h)
    <3> DEFINE all == {e \in mem.entries \X Id : Live(e[1], e[2])}
               shown == IF Arrived(j) THEN all \ {<<j.from, j.host>>} ELSE all
    <3>1. shown = all \ {<<s, i>>} BY <2>1, <2>4
    <3>2. <<t, k>> \in shown BY <1>7, <3>1
    <3>3. \A f \in shown : f[2] = k => f[1] = t
      <4> SUFFICES ASSUME NEW f \in shown, f[2] = k PROVE f[1] = t OBVIOUS
      <4>1. f \in all /\ f # <<s, i>> BY <3>1
      <4>2. row(f[1], f[2]) /\ f = <<f[1], f[2]>> BY <1>7, <4>1
      <4> QED BY <2>5, <4>1, <4>2
    <3>4. Listed = {e \in shown : ~\E f \in shown : f[2] = e[2] /\ f[1] # e[1] /\ f[1] = mem.main} BY DEF Listed
    <3> HIDE DEF shown
    <3> QED BY <1>7, <3>2, <3>3, <3>4 DEF Here
  <2>7. <<s, i>> \notin Here(h) BY <2>1, <2>4 DEF Here, Listed
  <2>8. Here(h) = {<<t, k>>}
    <3>1. ASSUME NEW e \in Here(h) PROVE e = <<t, k>>
      <4>1. e \in mem.entries \X Id /\ row(e[1], e[2]) BY <1>5
      <4>2. e = <<e[1], e[2]>> BY <4>1
      <4> QED BY <2>5, <2>7, <4>1, <4>2
    <3> QED BY <2>6, <3>1
  <2>9. HostSpace(k) = t
    <3> DEFINE found == {u \in mem.entries : Live(u, k)}
               foremost == IF mem.main \in found THEN mem.main ELSE CHOOSE u \in found : TRUE
    <3>1. t \in found BY <1>7
    <3>2. foremost \in found BY <3>1
    <3>3. foremost = t \/ (foremost = s /\ k = i)
      <4>1. row(foremost, k) BY <1>7, <3>2
      <4> QED BY <2>5, <4>1
    <3>4. HostSpace(k) = IF Arrived(j) /\ j.host = k /\ j.target = k /\ foremost = j.from THEN j.to ELSE foremost
      BY <3>1 DEF HostSpace
    <3> HIDE DEF foremost
    <3> QED BY <2>1, <2>4, <3>3, <3>4
  <2> QED BY <2>8, <2>9
<1>8. PICK s \in mem.entries, i \in Id : row(s, i) BY <1>2
<1>9. CASE \A t, k : row(t, k) => <<t, k>> = <<s, i>>
  <2>1. Here(h) = {<<s, i>>} /\ HostSpace(i) = s BY <1>6, <1>8, <1>9
  <2> QED BY <1>8, <2>1
<1>10. CASE ~\A t, k : row(t, k) => <<t, k>> = <<s, i>>
  <2>1. PICK t, k : row(t, k) /\ <<t, k>> # <<s, i>> BY <1>10
  <2>2. \/ j = [host |-> i, target |-> k, from |-> s, to |-> t]
        \/ j = [host |-> k, target |-> i, from |-> t, to |-> s]
    BY <1>3, <1>8, <2>1
  <2>3. \/ Here(h) = {<<t, k>>} /\ HostSpace(k) = t
        \/ Here(h) = {<<s, i>>} /\ HostSpace(i) = s
    BY <1>7, <1>8, <2>1, <2>2
  <2> QED BY <1>8, <2>1, <2>3
<1> QED BY <1>9, <1>10

\* The registry, the stores and the markers hold what their files can hold (Registry, the
\* rows of a store and its meta keys in spaces.rs).
THEOREM TypeCorrect == Spec => []TypeOK
<1>1. Inv => TypeOK BY DEF Inv, Types
<1> QED BY <1>1, Invariance, PTL

\* A host nobody deleted is in the list once, in the store it is opened from, wherever its
\* move was cut short (list_hosts, host_space, move_between, recover).
THEOREM HostListedOnce == Spec => []ListedOnce
<1>1. Inv => ListedOnce
  <2> SUFFICES ASSUME Inv, NEW h \in Host \ deleted
               PROVE  Cardinality(Here(h)) = 1 /\ \A e \in Here(h) : HostSpace(e[2]) = e[1]
    BY DEF ListedOnce
  <2>1. PICK s \in mem.entries, i \in Id : Here(h) = {<<s, i>>} /\ HostSpace(i) = s BY OneRow
  <2>2. Cardinality({<<s, i>>}) = 1 BY FS_Singleton
  <2>3. \A e \in Here(h) : HostSpace(e[2]) = e[1] BY <2>1
  <2> QED BY <2>1, <2>2, <2>3
<1> QED BY <1>1, Invariance, PTL

\* A listed host has its key and its host key where it is listed: they came along and were
\* not taken from under it (import_moved_host, drop_moved_host).
THEOREM ListedHostIsWhole == Spec => []HostIsWhole
<1>1. Inv => HostIsWhole
  <2> SUFFICES ASSUME Inv, NEW e \in Listed
               PROVE  /\ e[2][1] \in Keyed => store[e[1]].uses[e[2]] # 0
                                              /\ store[e[1]].key[store[e[1]].uses[e[2]]] = "live"
                      /\ store[e[1]].known
    BY DEF HostIsWhole
  <2>1. e[1] \in Space /\ e[2] \in Id /\ store[e[1]].host[e[2]] = "live"
    <3>1. e \in mem.entries \X Id /\ Live(e[1], e[2]) BY DEF Listed
    <3> QED BY <3>1, Basics DEF Live
  <2>2. WholeIn(store[e[1]]) BY <2>1 DEF Inv, Whole
  <2> QED BY <2>1, <2>2 DEF WholeIn
<1> QED BY <1>1, Invariance, PTL

\* Between any two writes some store the registry on disk names has a host nobody deleted
\* (move_between imports before it drops; remove moves before it unregisters).
THEOREM HostOnDisk == Spec => []OnDiskSomewhere
<1>1. Inv => OnDiskSomewhere
  <2> SUFFICES ASSUME Inv, NEW h \in Host \ deleted
               PROVE  \E s \in reg.entries \cap files : \E g \in Gen : Live(s, <<h, g>>)
    BY DEF OnDiskSomewhere
  <2>1. PICK s \in mem.entries, g \in Gen : Live(s, <<h, g>>) BY DEF Inv, Copied
  <2>2. s \in reg.entries \cap files BY DEF Inv, Registered
  <2> QED BY <2>1, <2>2
<1> QED BY <1>1, Invariance, PTL

\* A move that is over, resumed or not, leaves no key behind that only a host used that has
\* left (drop_moved_host, recover).
THEOREM KeysLeaveToo == Spec => []NothingLeftBehind
<1>1. Inv => NothingLeftBehind
  <2> SUFFICES ASSUME Inv, mem.journal = NoJournal, NEW s \in mem.entries, NEW g \in Gen,
                      {i \in Id : store[s].uses[i] = g} # {},
                      {i[1] : i \in {k \in Id : store[s].uses[k] = g}} \cap deleted = {},
                      \A i \in {k \in Id : store[s].uses[k] = g} : store[s].host[i] = "dead"
               PROVE  store[s].key[g] # "live"
    BY DEF NothingLeftBehind
  <2>1. ~Orphan(s, g) BY DEF Inv, Neat
  <2>2. \E i \in Id : store[s].uses[i] = g OBVIOUS
  <2>3. \A i \in Id : store[s].uses[i] = g => store[s].host[i] = "dead" /\ i[1] \notin deleted OBVIOUS
  <2> QED BY <2>1, <2>2, <2>3 DEF Orphan
<1> QED BY <1>1, Invariance, PTL

\* A pass never deletes on the server what left a store only because the server is taken
\* from this device, while the registry notes it (held, gone and leaving; pass, start_space).
THEOREM HeldWhileNoted == Spec => []HeldWhileLeaving
<1>1. Inv => HeldWhileLeaving BY DEF Inv, Leaving
<1> QED BY <1>1, Invariance, PTL

\* A server the main password has opened is still opened by it after a change of the main
\* server, wherever a crash cut that short, unless a rechain crossed it or a write failed
\* (make_main, settle_handover, unlock_chain, reseal_chain).
THEOREM OnePasswordStays == Spec => []OnePassword
<1>1. Inv => OnePassword
  <2> SUFFICES ASSUME Inv, mem.handover = None, spent.errors = 0, NEW s \in (chained \cap mem.entries) \ {mem.main}
               PROVE  store[s].kept = mem.main
    BY DEF OnePassword
  <2>1. Sealed BY DEF Inv
  <2> QED BY <2>1 DEF Sealed, Kept
<1> QED BY <1>1, Invariance, PTL

\* The main server has the key bindings the user last left, or none when the user last took
\* them back, whichever server was main when they were written (import_personal before the
\* swap, clear_personal after it), except where EditDoc says that nothing is said.
THEOREM PersonalStays == Spec => []PersonalIsKept
<1>1. Inv => PersonalIsKept
  <2> SUFFICES ASSUME Inv, doc # None PROVE doc = store[mem.main].doc.val BY DEF PersonalIsKept
  <2>1. mem.main \in reg.entries BY Basics
  <2> QED BY <2>1, DocsNow DEF MainDoc, Leads
<1> QED BY <1>1, Invariance, PTL

\* No sweep, removal or discard takes the store of a server in use, whichever write failed,
\* nor one the registry on disk names while none did (sweep_leftovers, remove, discard,
\* begin_store, adopt_new).
THEOREM FilesStay == Spec => []FilesMatch
<1>1. Inv => FilesMatch BY DEF Inv, Registered, FilesMatch
<1> QED BY <1>1, Invariance, PTL
=============================================================================
