----------------------------- MODULE SyncProofs ------------------------------
(***************************************************************************)
(* Proofs about Sync, for any number of devices and records and any bounds:*)
(* what the clock and the conflict rule guarantee, the type invariant,      *)
(* SettledDevicesAgree, NoEditIsLost, and that the server and the devices   *)
(* together implement LwwMap.                                               *)
(***************************************************************************)
EXTENDS Sync, FiniteSetTheorems, TLAPS

------------------------------------------------------------------------------
(* The clock and the conflict rule                                          *)

(***************************************************************************)
(* Step (the carry of a full counter included) moves strictly forward.      *)
(***************************************************************************)
LEMMA StepAdvances ==
  ASSUME NEW w \in Nat, NEW c \in 0 .. MaxCounter
  PROVE  /\ Step(w, c) \in Time
         /\ Before([wall |-> w, counter |-> c], Step(w, c))
         /\ Step(w, c).wall >= w
  BY ClockAssumption DEF Step, Time, Before

(***************************************************************************)
(* Hlc::tick is strictly after the clock it started from, whatever the      *)
(* system clock reads: a clock set back never makes a later edit sort       *)
(* before an earlier one of the same device (clock.rs:42-45).               *)
(***************************************************************************)
THEOREM TickAdvances ==
  ASSUME NEW t \in Time, NEW now \in Nat
  PROVE  Tick(t, now) \in Time /\ Before(t, Tick(t, now))
<1>1. t.wall \in Nat /\ t.counter \in 0 .. MaxCounter
  BY DEF Time
<1>2. CASE now > t.wall
  BY <1>1, <1>2, ClockAssumption DEF Tick, Time, Before
<1>3. CASE ~(now > t.wall)
  BY <1>1, <1>3, StepAdvances DEF Tick, Before
<1> QED
  BY <1>2, <1>3

(***************************************************************************)
(* Hlc::merge is strictly after the local clock, and strictly after the     *)
(* timestamp that arrived as long as that one is within MaxDrift of what    *)
(* the system clock reads (clock.rs:63-94).                                 *)
(***************************************************************************)
THEOREM MergeAdvances ==
  ASSUME NEW t \in Time, NEW h \in Hlc(Nat), NEW now \in Nat
  PROVE  /\ MergeTime(t, h, now) \in Time
         /\ Before(t, MergeTime(t, h, now))
         /\ h.wall <= now + MaxDrift => Before(h, MergeTime(t, h, now))
<1>1. /\ t.wall \in Nat /\ t.counter \in 0 .. MaxCounter
      /\ h.wall \in Nat /\ h.counter \in 0 .. MaxCounter
      /\ MaxDrift \in Nat /\ MaxCounter \in Nat
  BY ClockAssumption DEF Time, Hlc
<1> DEFINE heard == Smaller(h.wall, now + MaxDrift)
           top == Larger(Larger(now, t.wall), heard)
           m == MergeTime(t, h, now)
<1>2. /\ heard \in Nat /\ heard <= h.wall
      /\ h.wall <= now + MaxDrift => heard = h.wall
      /\ top \in Nat /\ top >= t.wall /\ top >= heard
  BY <1>1 DEF Smaller, Larger
<1>3. /\ Larger(t.counter, h.counter) \in 0 .. MaxCounter
      /\ Larger(t.counter, h.counter) >= t.counter
      /\ Larger(t.counter, h.counter) >= h.counter
  BY <1>1 DEF Larger
<1>4. m = CASE top = t.wall /\ top = heard -> Step(top, Larger(t.counter, h.counter))
            [] top = t.wall /\ top # heard -> Step(top, t.counter)
            [] top # t.wall /\ top = heard -> Step(top, h.counter)
            [] OTHER                       -> [wall |-> top, counter |-> 0]
  BY DEF MergeTime
<1> SUFFICES /\ m \in Time
             /\ Before(t, m)
             /\ h.wall <= now + MaxDrift => Before(h, m)
  OBVIOUS
<1> HIDE DEF heard, top, m
<1>5. CASE top = t.wall /\ top = heard
  <2>1. m = Step(top, Larger(t.counter, h.counter))
    BY <1>4, <1>5
  <2>2. m \in Time /\ Before([wall |-> top, counter |-> Larger(t.counter, h.counter)], m)
    BY <2>1, <1>1, <1>2, <1>3, StepAdvances
  <2>3. m.wall \in Nat /\ m.counter \in Nat
    BY <2>2, <1>1 DEF Time
  <2> QED
    BY <2>2, <2>3, <1>1, <1>2, <1>3, <1>5 DEF Before
<1>6. CASE top = t.wall /\ top # heard
  <2>1. m = Step(top, t.counter)
    BY <1>4, <1>6
  <2>2. m \in Time /\ Before([wall |-> top, counter |-> t.counter], m)
    BY <2>1, <1>1, <1>2, StepAdvances
  <2>3. m.wall \in Nat /\ m.counter \in Nat
    BY <2>2, <1>1 DEF Time
  <2> QED
    BY <2>2, <2>3, <1>1, <1>2, <1>6 DEF Before
<1>7. CASE top # t.wall /\ top = heard
  <2>1. m = Step(top, h.counter)
    BY <1>4, <1>7
  <2>2. m \in Time /\ Before([wall |-> top, counter |-> h.counter], m)
    BY <2>1, <1>1, <1>2, StepAdvances
  <2>3. m.wall \in Nat /\ m.counter \in Nat
    BY <2>2, <1>1 DEF Time
  <2> QED
    BY <2>2, <2>3, <1>1, <1>2, <1>7 DEF Before
<1>8. CASE top # t.wall /\ top # heard
  <2>1. m = [wall |-> top, counter |-> 0]
    BY <1>4, <1>8
  <2> QED
    BY <2>1, <1>1, <1>2, <1>8 DEF Before, Time
<1> QED
  BY <1>5, <1>6, <1>7, <1>8

(***************************************************************************)
(* The conflict rule is a total order on the versions of a record, so that  *)
(* every device that has seen the same versions keeps the same one          *)
(* (merge.rs:49-66).                                                        *)
(***************************************************************************)
THEOREM MergeOrder ==
  ASSUME NEW u \in Version(Nat), NEW v \in Version(Nat), NEW w \in Version(Nat)
  PROVE  /\ AtMost(v, v)
         /\ AtMost(u, v) /\ AtMost(v, u) => u = v
         /\ AtMost(u, v) /\ AtMost(v, w) => AtMost(u, w)
         /\ AtMost(u, v) \/ AtMost(v, u)
         /\ Resolve(u, v) = "Local" <=> AtMost(v, u) /\ u # v
<1>1. \A a, b \in Version(Nat) :
        AtMost(a, b) <=> \/ a = b
                         \/ ~a.deleted /\ b.deleted
                         \/ a.deleted = b.deleted /\ ~HlcLess(b.hlc, a.hlc)
  BY DEF AtMost, Resolve, Version
<1>2. \A a, b \in Version(Nat) :
        Resolve(a, b) = "Local" <=> \/ a.deleted /\ ~b.deleted
                                    \/ /\ a # b
                                       /\ a.deleted = b.deleted
                                       /\ HlcLess(b.hlc, a.hlc)
  BY DEF Resolve, Version
<1>3. \A a, b \in Version(Nat) : a.hlc = b.hlc /\ a.deleted = b.deleted => a = b
  BY DEF Version
<1>4. \A a \in Version(Nat) : a.hlc \in Hlc(Nat) /\ a.deleted \in BOOLEAN
  BY DEF Version
<1>5. \A x, y, z \in Hlc(Nat) :
        /\ ~HlcLess(x, x)
        /\ ~HlcLess(x, y) /\ ~HlcLess(y, x) => x = y
        /\ ~HlcLess(y, x) /\ ~HlcLess(z, y) => ~HlcLess(z, x)
        /\ ~(HlcLess(x, y) /\ HlcLess(y, x))
  BY DEF Hlc, HlcLess, Before
<1> QED
  BY <1>1, <1>2, <1>3, <1>4, <1>5

------------------------------------------------------------------------------
(* The inductive invariant                                                  *)

RowOK(d, r) ==
  LET x == row[d][r]
      s == server[r]
  IN  /\ x.hlc = HlcZero => x = NoRow
      /\ ~Before(clock[d], x.hlc)
      /\ x.base <= serverSeq
      /\ x.base = s.seq => AtMost(Ver(s), Ver(x))
      /\ ~x.dirty => AtMost(Ver(x), Ver(s))
      /\ r \in Fixed => ~x.deleted

ServerOK(r) ==
  LET s == server[r]
  IN  /\ s.seq <= serverSeq
      /\ s.seq = 0 => s = NoRecord
      /\ s.hlc = HlcZero => s.seq = 0
      /\ s.seq # 0 => \E d \in Device : row[d][r] # NoRow
      /\ r \in Fixed => ~s.deleted

\* A request of device d, still to be handled.
RequestOK(d, b) ==
  \A r \in DOMAIN b :
    /\ b[r].hlc # HlcZero
    /\ b[r].base <= serverSeq
    /\ b[r].base = server[r].seq => AtMost(Ver(server[r]), Ver(b[r]))
    /\ AtMost(Ver(b[r]), Ver(row[d][r]))
    /\ r \in Fixed => ~b[r].deleted

OutOK(d) ==
  \A r \in DOMAIN out[d] :
    /\ ~Before(clock[d], out[d][r].hlc)
    /\ row[d][r].hlc = out[d][r].hlc => Ver(row[d][r]) = Ver(out[d][r])

TakenOK(d) ==
  \A r \in DOMAIN got[d].taken :
    LET n == got[d].taken[r]
        s == server[r]
    IN  /\ r \in DOMAIN out[d]
        /\ n # 0
        /\ n <= s.seq
        /\ n # s.seq => s.seq > cursor[d]
        /\ n = s.seq => Ver(s) = Ver(out[d][r])
        /\ AtMost(Ver(out[d][r]), Ver(s))

HeldOK(d) ==
  \A r \in DOMAIN got[d].held :
    LET h == got[d].held[r]
        s == server[r]
    IN  /\ h.hlc # HlcZero
        /\ h.seq # 0
        /\ h.seq <= s.seq
        /\ h.seq # s.seq => s.seq > cursor[d]
        /\ h.seq = s.seq => Ver(s) = Ver(h)
        /\ AtMost(Ver(h), Ver(s))
        /\ r \in Fixed => ~h.deleted

\* Device d has merged whatever the server holds of r up to place c.
Seen(d, r, c) ==
  0 < server[r].seq /\ server[r].seq <= c =>
    \/ row[d][r] # NoRow /\ row[d][r].base = server[r].seq
    \/ row[d][r] = NoRow /\ server[r].deleted

PassOK(d) ==
  /\ cursor[d] <= serverSeq
  /\ got[d].upto <= serverSeq
  /\ pass[d].pc # "answered" => got[d].taken = Nothing
  /\ pass[d].pc \notin {"sent", "answered"} => out[d] = Nothing
  /\ \A r \in Record : Seen(d, r, cursor[d])
  /\ pass[d].pc = "cursor" => \A r \in Record : Seen(d, r, got[d].upto)
  /\ pass[d].pc = "page" =>
       \A r \in Record : server[r].seq > cursor[d] /\ server[r].seq <= got[d].upto =>
         r \in DOMAIN got[d].held /\ got[d].held[r].seq = server[r].seq

Inv ==
  /\ TypeOK
  /\ \A d \in Device : \A r \in Record : RowOK(d, r)
  /\ \A r \in Record : ServerOK(r)
  /\ \A d \in Device : RequestOK(d, out[d]) /\ OutOK(d)
  /\ \A m \in late : RequestOK(m.from, m.batch)
  /\ \A d \in Device : TakenOK(d) /\ HeldOK(d) /\ PassOK(d)

------------------------------------------------------------------------------
(* Types                                                                    *)

LEMMA NothingIsSome ==
  ASSUME NEW S
  PROVE  IsSome(Nothing, S) /\ DOMAIN Nothing = {}
<1>1. Nothing \in [{} -> S]
  BY DEF Nothing
<1> QED
  BY <1>1 DEF IsSome, Nothing

LEMMA NoAnswerType == IsAnswer(NoAnswer)
  BY NothingIsSome DEF IsAnswer, NoAnswer

LEMMA SomeDomain ==
  ASSUME NEW f, NEW S, IsSome(f, S)
  PROVE  /\ DOMAIN f \subseteq Record
         /\ f = [r \in DOMAIN f |-> f[r]]
         /\ \A r \in DOMAIN f : f[r] \in S
  BY DEF IsSome

LEMMA SomeBuild ==
  ASSUME NEW S, NEW R \in SUBSET Record, NEW f \in [R -> S]
  PROVE  IsSome(f, S)
  BY DEF IsSome

\* What one transaction makes of a row and a record that arrives for it.
LEMMA AppliedType ==
  ASSUME NEW x \in Row, NEW e \in Held
  PROVE  Applied(x, e) \in Row
<1>1. Ver(x) \in Version(Nat) /\ Ver(e) \in Version(Nat)
  BY DEF Ver, Row, Held, Version
<1>2. Resolve(Ver(x), Ver(e)) \in {"Identical", "Local", "Remote"}
  BY <1>1 DEF Resolve, Version
<1> QED
  BY <1>2 DEF Applied, Row, Held

LEMMA HandleType ==
  ASSUME TypeOK, NEW b, IsSome(b, Envelope), NEW order, ServerPush(b, order)
  PROVE  /\ server' \in [Record -> Held]
         /\ serverSeq' \in Nat
         /\ Takes(b) \subseteq DOMAIN b
         /\ DOMAIN b \subseteq Record
         /\ \A r \in Takes(b) : order[r] \in Nat \ {0} /\ serverSeq + order[r] <= serverSeq'
<1>1. DOMAIN b \subseteq Record /\ \A r \in DOMAIN b : b[r] \in Envelope
  BY SomeDomain
<1>2. Takes(b) \subseteq DOMAIN b /\ IsFiniteSet(Takes(b))
  BY <1>1, FS_Subset, SyncAssumption DEF Takes
<1>3. Cardinality(Takes(b)) \in Nat
  BY <1>2, FS_CardinalityType
<1>4. \A r \in Takes(b) : order[r] \in Nat \ {0} /\ order[r] <= Cardinality(Takes(b))
  BY <1>3 DEF ServerPush
<1> QED
  BY <1>1, <1>2, <1>3, <1>4 DEF ServerPush, TypeOK, Held, Envelope

LEMMA LocalWriteType ==
  ASSUME TypeOK, NEW d \in Device, NEW r \in Record, NEW del \in BOOLEAN, LocalWrite(d, r, del)
  PROVE  TypeOK'
<1>1. PICK now \in Reading :
        /\ clock' = [clock EXCEPT ![d] = Tick(clock[d], now)]
        /\ row' = [row EXCEPT ![d][r] = [hlc |-> Stamp(Tick(clock[d], now), d),
                                         deleted |-> del, dirty |-> TRUE, base |-> @.base]]
  BY DEF LocalWrite
<1>2. now \in Nat /\ d \in Nat /\ clock[d] \in Time /\ row[d][r] \in Row
  BY SyncAssumption DEF TypeOK
<1>3. Tick(clock[d], now) \in Time
  BY <1>2, TickAdvances
<1>4. Stamp(Tick(clock[d], now), d) \in Hlc(Nat)
  BY <1>2, <1>3 DEF Stamp, Hlc, Time
<1>5. clock' \in [Device -> Time] /\ row' \in [Device -> [Record -> Row]]
  BY <1>1, <1>2, <1>3, <1>4 DEF TypeOK, Row
<1>6. writes' \in 0 .. MaxWrites
  BY SyncAssumption DEF LocalWrite, TypeOK
<1> QED
  BY <1>5, <1>6 DEF LocalWrite, TypeOK, engine, remote

LEMMA ApplyType ==
  ASSUME TypeOK, NEW d \in Device, ApplyEnvelopes(d, got[d].held)
  PROVE  row' \in [Device -> [Record -> Row]] /\ clock' \in [Device -> Time]
<1>1. CASE DOMAIN got[d].held = {}
  BY <1>1 DEF ApplyEnvelopes, TypeOK
<1>2. CASE DOMAIN got[d].held # {}
  <2>1. \A r \in DOMAIN got[d].held : got[d].held[r] \in Held
    BY SomeDomain DEF TypeOK, IsAnswer
  <2>2. \A r \in Record : row[d][r] \in Row
    BY DEF TypeOK
  <2>3. \A r \in DOMAIN got[d].held \cap Record : Applied(row[d][r], got[d].held[r]) \in Row
    BY <2>1, <2>2, AppliedType
  <2>4. row' = [row EXCEPT ![d] = [r \in Record |-> IF r \in DOMAIN got[d].held
                                      THEN Applied(row[d][r], got[d].held[r])
                                      ELSE row[d][r]]]
    BY <1>2 DEF ApplyEnvelopes
  <2>5. row' \in [Device -> [Record -> Row]]
    BY <2>2, <2>3, <2>4 DEF TypeOK
  <2>6. PICK newest \in DOMAIN got[d].held, now \in Reading :
          clock' = [clock EXCEPT ![d] = MergeTime(@, got[d].held[newest].hlc, now)]
    BY <1>2 DEF ApplyEnvelopes
  <2>7. got[d].held[newest].hlc \in Hlc(Nat) /\ now \in Nat /\ clock[d] \in Time
    BY <2>1, SyncAssumption DEF Held, TypeOK
  <2>8. MergeTime(clock[d], got[d].held[newest].hlc, now) \in Time
    BY <2>7, MergeAdvances
  <2> QED
    BY <2>5, <2>6, <2>8 DEF TypeOK
<1> QED
  BY <1>1, <1>2

LEMMA NextPass ==
  ASSUME NEW p \in Pass
  PROVE  AfterPush(p) \in Pass /\ RoundDone(p) \in Pass /\ Idle \in Pass
<1>1. AfterPush(p) \in Pass
  BY DEF AfterPush, Pass
<1>2. 0 \in 0 .. MaxRounds /\ (p.round < MaxRounds => p.round + 1 \in 0 .. MaxRounds)
  BY SyncAssumption DEF Pass
<1>3. Idle \in Pass
  BY <1>2 DEF Idle, Pass
<1>4. RoundDone(p) \in Pass
  BY <1>2, <1>3 DEF RoundDone, Pass
<1> QED
  BY <1>1, <1>3, <1>4

\* A pass moves on: one field at a time.
LEMMA PassFields ==
  ASSUME NEW p \in Pass, NEW b \in BOOLEAN,
         NEW c \in {"idle", "push", "sent", "answered", "merge", "pull", "page", "cursor"}
  PROVE  /\ [p EXCEPT !.pc = c] \in Pass
         /\ [p EXCEPT !.moved = b] \in Pass
         /\ [p EXCEPT !.clash = b] \in Pass
<1>1. [p EXCEPT !.pc = c] \in Pass
  BY DEF Pass
<1>2. [p EXCEPT !.moved = b] \in Pass
  BY DEF Pass
<1>3. [p EXCEPT !.clash = b] \in Pass
  BY DEF Pass
<1> QED
  BY <1>1, <1>2, <1>3

LEMMA PassMoves ==
  ASSUME pass \in [Device -> Pass], NEW d \in Device,
         NEW c \in {"idle", "push", "sent", "answered", "merge", "pull", "page", "cursor"},
         pass' = [pass EXCEPT ![d].pc = c]
  PROVE  pass' \in [Device -> Pass]
<1>1. [pass[d] EXCEPT !.pc = c] \in Pass
  BY PassFields
<1>2. pass' = [pass EXCEPT ![d] = [pass[d] EXCEPT !.pc = c]]
  OBVIOUS
<1> QED
  BY <1>1, <1>2

LEMMA AnswerBuild ==
  ASSUME NEW t, NEW h, NEW u \in Nat, NEW m \in BOOLEAN, IsSome(t, Nat), IsSome(h, Held)
  PROVE  IsAnswer([taken |-> t, held |-> h, upto |-> u, more |-> m])
  BY DEF IsAnswer

LEMMA AnswerParts ==
  ASSUME TypeOK, NEW d \in Device
  PROVE  /\ IsAnswer([got[d] EXCEPT !.taken = Nothing])
         /\ IsAnswer([got[d] EXCEPT !.held = Nothing])
<1> DEFINE a == got[d]
<1>1. IsAnswer(a)
  BY DEF TypeOK
<1> HIDE DEF a
<1>2. a = [taken |-> a.taken, held |-> a.held, upto |-> a.upto, more |-> a.more]
  BY <1>1 DEF IsAnswer
<1>3. /\ IsSome(a.taken, Nat) /\ IsSome(a.held, Held)
      /\ a.upto \in Nat /\ a.more \in BOOLEAN
  BY <1>1 DEF IsAnswer
<1>4. [a EXCEPT !.taken = Nothing]
        = [taken |-> Nothing, held |-> a.held, upto |-> a.upto, more |-> a.more]
  BY <1>2
<1>5. [a EXCEPT !.held = Nothing]
        = [taken |-> a.taken, held |-> Nothing, upto |-> a.upto, more |-> a.more]
  BY <1>2
<1>6. IsSome(Nothing, Nat) /\ IsSome(Nothing, Held)
  BY NothingIsSome
<1>7. IsAnswer([a EXCEPT !.taken = Nothing])
  BY <1>3, <1>4, <1>6, AnswerBuild
<1>8. IsAnswer([a EXCEPT !.held = Nothing])
  BY <1>3, <1>5, <1>6, AnswerBuild
<1> QED
  BY <1>7, <1>8 DEF a

LEMMA NextType == TypeOK /\ [Next]_vars => TypeOK'
<1> SUFFICES ASSUME TypeOK, [Next]_vars PROVE TypeOK'
  OBVIOUS
<1>1. ASSUME NEW d \in Device, UserStep(d) PROVE TypeOK'
  BY <1>1, LocalWriteType DEF UserStep, Create, Edit, Upsert, Delete
<1>2. ASSUME NEW d \in Device, Start(d) PROVE TypeOK'
  <2>1. [Idle EXCEPT !.round = 1, !.pc = IF d \in Reader THEN "pull" ELSE "push"] \in Pass
    <3>1. 1 \in 0 .. MaxRounds
      BY SyncAssumption
    <3> QED
      BY <3>1 DEF Idle, Pass
  <2>2. pass' \in [Device -> Pass]
    BY <1>2, <2>1 DEF Start, TypeOK
  <2> QED
    BY <1>2, <2>2 DEF Start, TypeOK, store, remote
<1>3. ASSUME NEW d \in Device, Send(d) PROVE TypeOK'
  <2>1. PICK R \in SUBSET Pending(d) :
          out' = [out EXCEPT ![d] =
                    [r \in R |-> [hlc |-> row[d][r].hlc, deleted |-> row[d][r].deleted,
                                  base |-> row[d][r].base]]]
    BY <1>3 DEF Send
  <2>2. R \in SUBSET Record /\ \A r \in R : row[d][r] \in Row
    BY DEF Pending, TypeOK
  <2>3. [r \in R |-> [hlc |-> row[d][r].hlc, deleted |-> row[d][r].deleted,
                      base |-> row[d][r].base]] \in [R -> Envelope]
    BY <2>2 DEF Row, Envelope
  <2>4. out' = [e \in Device |-> out'[e]] /\ \A e \in Device : IsSome(out'[e], Envelope)
    BY <2>1, <2>2, <2>3, SomeBuild DEF TypeOK
  <2>5. pass' \in [Device -> Pass]
    BY <1>3, PassMoves DEF Send, TypeOK
  <2> QED
    BY <1>3, <2>4, <2>5 DEF Send, TypeOK, store, remote
<1>4. ASSUME NEW d \in Device, NothingToSend(d) PROVE TypeOK'
  BY <1>4, NextPass DEF NothingToSend, TypeOK, store, remote
<1>5. ASSUME NEW d \in Device, Handle(d) PROVE TypeOK'
  <2>1. PICK order \in Orders(out[d]) :
          /\ ServerPush(out[d], order)
          /\ got' = [got EXCEPT ![d] =
                       [taken |-> [r \in Takes(out[d]) |-> serverSeq + order[r]],
                        held  |-> [r \in DOMAIN out[d] \ Takes(out[d]) |-> server[r]],
                        upto  |-> 0,
                        more  |-> FALSE]]
    BY <1>5 DEF Handle
  <2>2. IsSome(out[d], Envelope)
    BY DEF TypeOK
  <2>3. /\ server' \in [Record -> Held] /\ serverSeq' \in Nat
        /\ Takes(out[d]) \subseteq Record /\ DOMAIN out[d] \subseteq Record
        /\ \A r \in Takes(out[d]) : order[r] \in Nat
    BY <2>1, <2>2, HandleType
  <2>4. IsSome([r \in Takes(out[d]) |-> serverSeq + order[r]], Nat)
    <3>1. [r \in Takes(out[d]) |-> serverSeq + order[r]] \in [Takes(out[d]) -> Nat]
      BY <2>3 DEF TypeOK
    <3> QED
      BY <3>1, <2>3, SomeBuild
  <2>5. IsSome([r \in DOMAIN out[d] \ Takes(out[d]) |-> server[r]], Held)
    <3>1. [r \in DOMAIN out[d] \ Takes(out[d]) |-> server[r]]
            \in [DOMAIN out[d] \ Takes(out[d]) -> Held]
      BY <2>3 DEF TypeOK
    <3> QED
      BY <3>1, <2>3, SomeBuild
  <2>6. IsAnswer([taken |-> [r \in Takes(out[d]) |-> serverSeq + order[r]],
                  held  |-> [r \in DOMAIN out[d] \ Takes(out[d]) |-> server[r]],
                  upto  |-> 0,
                  more  |-> FALSE])
    BY <2>4, <2>5, AnswerBuild
  <2>7. got' = [e \in Device |-> got'[e]] /\ \A e \in Device : IsAnswer(got'[e])
    BY <2>1, <2>6 DEF TypeOK
  <2>8. pass' \in [Device -> Pass]
    BY <1>5, PassMoves DEF Handle, TypeOK
  <2> QED
    BY <1>5, <2>3, <2>7, <2>8 DEF Handle, TypeOK, store
<1>6. ASSUME NEW d \in Device, MarkPushed(d) PROVE TypeOK'
  <2> DEFINE sent == {r \in DOMAIN got[d].taken : row[d][r].hlc = out[d][r].hlc}
  <2>1. \A r \in DOMAIN got[d].taken : got[d].taken[r] \in Nat
    BY SomeDomain DEF TypeOK, IsAnswer
  <2>2. \A r \in Record : row[d][r] \in Row
    BY DEF TypeOK
  <2>3. \A r \in Record : r \in sent =>
          [row[d][r] EXCEPT !.dirty = FALSE, !.base = got[d].taken[r]] \in Row
    BY <2>1, <2>2 DEF Row
  <2>4. row' = [row EXCEPT ![d] =
                  [r \in Record |->
                     IF r \in sent
                     THEN [row[d][r] EXCEPT !.dirty = FALSE, !.base = got[d].taken[r]]
                     ELSE row[d][r]]]
    BY <1>6 DEF MarkPushed
  <2>5. pass' = [pass EXCEPT ![d].pc = "merge", ![d].moved = sent # {}]
    BY <1>6 DEF MarkPushed
  <2> HIDE DEF sent
  <2>6. row' \in [Device -> [Record -> Row]]
    BY <2>2, <2>3, <2>4 DEF TypeOK
  <2>7. pass' \in [Device -> Pass]
    <3>1. pass[d] \in Pass
      BY DEF TypeOK
    <3>2. (sent # {}) \in BOOLEAN
      OBVIOUS
    <3>3. [[pass[d] EXCEPT !.pc = "merge"] EXCEPT !.moved = sent # {}] \in Pass
      BY <3>1, <3>2, PassFields
    <3>4. pass' = [pass EXCEPT ![d] = [[pass[d] EXCEPT !.pc = "merge"] EXCEPT !.moved = sent # {}]]
      BY <2>5 DEF TypeOK
    <3> QED
      BY <3>3, <3>4 DEF TypeOK
  <2>8. out' = [e \in Device |-> out'[e]] /\ \A e \in Device : IsSome(out'[e], Envelope)
    BY <1>6, NothingIsSome DEF MarkPushed, TypeOK
  <2>9. got' = [e \in Device |-> got'[e]] /\ \A e \in Device : IsAnswer(got'[e])
    <3>1. IsAnswer([got[d] EXCEPT !.taken = Nothing])
      BY AnswerParts
    <3>2. got' = [got EXCEPT ![d] = [got[d] EXCEPT !.taken = Nothing]]
      BY <1>6 DEF MarkPushed
    <3> QED
      BY <3>1, <3>2 DEF TypeOK
  <2> QED
    BY <1>6, <2>6, <2>7, <2>8, <2>9 DEF MarkPushed, TypeOK, remote
<1>7. ASSUME NEW d \in Device, MergeConflicts(d) PROVE TypeOK'
  <2> DEFINE p == [pass[d] EXCEPT !.clash = @ \/ DOMAIN got[d].held # {}]
  <2>1. p \in Pass /\ [p EXCEPT !.pc = "push", !.moved = FALSE] \in Pass
    <3>1. pass[d] \in Pass /\ (pass[d].clash \/ DOMAIN got[d].held # {}) \in BOOLEAN
      BY DEF TypeOK
    <3>2. p \in Pass
      BY <3>1, PassFields
    <3> HIDE DEF p
    <3>3. [[p EXCEPT !.pc = "push"] EXCEPT !.moved = FALSE] \in Pass
      BY <3>2, PassFields
    <3> QED
      BY <3>2, <3>3
  <2>2. pass' = [pass EXCEPT ![d] = IF p.moved THEN [p EXCEPT !.pc = "push", !.moved = FALSE]
                                               ELSE AfterPush(p)]
    BY <1>7 DEF MergeConflicts
  <2> HIDE DEF p
  <2>3. pass' \in [Device -> Pass]
    BY <2>1, <2>2, NextPass DEF TypeOK
  <2>4. row' \in [Device -> [Record -> Row]] /\ clock' \in [Device -> Time]
    BY <1>7, ApplyType DEF MergeConflicts
  <2>5. got' = [e \in Device |-> got'[e]] /\ \A e \in Device : IsAnswer(got'[e])
    BY <1>7, NoAnswerType DEF MergeConflicts, TypeOK
  <2> QED
    BY <1>7, <2>3, <2>4, <2>5 DEF MergeConflicts, TypeOK, remote
<1>8. ASSUME NEW d \in Device, PullPage(d) PROVE TypeOK'
  <2>1. PICK last \in Record :
          got' = [got EXCEPT ![d] =
                    [taken |-> Nothing,
                     held  |-> [r \in Page(cursor[d], server[last].seq) |-> server[r]],
                     upto  |-> server[last].seq,
                     more  |-> \E r \in Record : server[r].seq > server[last].seq]]
    BY <1>8 DEF PullPage
  <2>2. IsSome([r \in Page(cursor[d], server[last].seq) |-> server[r]], Held)
    <3>1. [r \in Page(cursor[d], server[last].seq) |-> server[r]]
            \in [Page(cursor[d], server[last].seq) -> Held]
      BY DEF Page, TypeOK
    <3> QED
      BY <3>1, SomeBuild DEF Page
  <2>3. server[last].seq \in Nat
    BY DEF TypeOK, Held
  <2>4. IsAnswer([taken |-> Nothing,
                  held  |-> [r \in Page(cursor[d], server[last].seq) |-> server[r]],
                  upto  |-> server[last].seq,
                  more  |-> \E r \in Record : server[r].seq > server[last].seq])
    BY <2>2, <2>3, NothingIsSome, AnswerBuild
  <2>5. got' = [e \in Device |-> got'[e]] /\ \A e \in Device : IsAnswer(got'[e])
    BY <2>1, <2>4 DEF TypeOK
  <2>6. pass' \in [Device -> Pass]
    BY <1>8, PassMoves DEF PullPage, TypeOK
  <2> QED
    BY <1>8, <2>5, <2>6 DEF PullPage, TypeOK, store, remote
<1>9. ASSUME NEW d \in Device, PullEmpty(d) PROVE TypeOK'
  BY <1>9, NextPass DEF PullEmpty, TypeOK, store, remote
<1>10. ASSUME NEW d \in Device, ApplyPage(d) PROVE TypeOK'
  <2>1. row' \in [Device -> [Record -> Row]] /\ clock' \in [Device -> Time]
    BY <1>10, ApplyType DEF ApplyPage
  <2>2. got' = [e \in Device |-> got'[e]] /\ \A e \in Device : IsAnswer(got'[e])
    <3>1. IsAnswer([got[d] EXCEPT !.held = Nothing])
      BY AnswerParts
    <3>2. got' = [got EXCEPT ![d] = [got[d] EXCEPT !.held = Nothing]]
      BY <1>10 DEF ApplyPage
    <3> QED
      BY <3>1, <3>2 DEF TypeOK
  <2>3. pass' \in [Device -> Pass]
    BY <1>10, PassMoves DEF ApplyPage, TypeOK
  <2> QED
    BY <1>10, <2>1, <2>2, <2>3 DEF ApplyPage, TypeOK, remote
<1>11. ASSUME NEW d \in Device, MoveCursor(d) PROVE TypeOK'
  <2>1. got[d].upto \in Nat
    BY DEF TypeOK, IsAnswer
  <2>2. cursor' \in [Device -> Nat]
    BY <1>11, <2>1 DEF MoveCursor, TypeOK
  <2>3. pass[d] \in Pass /\ [pass[d] EXCEPT !.pc = "pull"] \in Pass
    BY DEF TypeOK, Pass
  <2>4. pass' \in [Device -> Pass]
    BY <1>11, <2>3, NextPass DEF MoveCursor, TypeOK
  <2>5. got' = [e \in Device |-> got'[e]] /\ \A e \in Device : IsAnswer(got'[e])
    BY <1>11, NoAnswerType DEF MoveCursor, TypeOK
  <2> QED
    BY <1>11, <2>2, <2>4, <2>5 DEF MoveCursor, TypeOK, remote
<1>12. ASSUME NEW d \in Device, RefuseApart(d) PROVE TypeOK'
  <2>1. out' = [e \in Device |-> out'[e]] /\ \A e \in Device : IsSome(out'[e], Envelope)
    BY <1>12, NothingIsSome DEF RefuseApart, TypeOK
  <2>2. faults' \in 0 .. MaxFaults
    BY <1>12, SyncAssumption DEF RefuseApart, TypeOK
  <2> QED
    BY <1>12, <2>1, <2>2, NextPass DEF RefuseApart, TypeOK, store, remote
<1>13. ASSUME NEW d \in Device, PullReset(d) PROVE TypeOK'
  <2>1. faults' \in 0 .. MaxFaults
    BY <1>13, SyncAssumption DEF PullReset, TypeOK
  <2>2. pass' \in [Device -> Pass]
    <3>1. RoundDone(pass[d]) \in Pass /\ pass \in [Device -> Pass]
      BY NextPass DEF TypeOK
    <3>2. pass' = pass \/ pass' = [pass EXCEPT ![d] = RoundDone(pass[d])]
      BY <1>13 DEF PullReset
    <3> QED
      BY <3>1, <3>2
  <2>3. cursor' \in [Device -> Nat]
    BY <1>13 DEF PullReset, TypeOK
  <2> QED
    BY <1>13, <2>1, <2>2, <2>3 DEF PullReset, TypeOK, remote
<1>14. ASSUME NEW d \in Device, Abort(d) PROVE TypeOK'
  <2>1. out' = [e \in Device |-> out'[e]] /\ \A e \in Device : IsSome(out'[e], Envelope)
    BY <1>14, NothingIsSome DEF Abort, TypeOK
  <2>2. got' = [e \in Device |-> got'[e]] /\ \A e \in Device : IsAnswer(got'[e])
    BY <1>14, NoAnswerType DEF Abort, TypeOK
  <2>3. faults' \in 0 .. MaxFaults
    BY <1>14, SyncAssumption DEF Abort, TypeOK
  <2>4. pass' \in [Device -> Pass]
    BY <1>14, NextPass DEF Abort, TypeOK
  <2>5. \A m \in late' : m \in late \/ m = [from |-> d, batch |-> out[d]]
    BY <1>14 DEF Abort
  <2>6. \A m \in late' : m.from \in Device /\ IsSome(m.batch, Envelope)
    BY <2>5 DEF TypeOK
  <2> QED
    BY <1>14, <2>1, <2>2, <2>3, <2>4, <2>6 DEF Abort, TypeOK, store
<1>15. ASSUME NEW m \in late, HandleLate(m) PROVE TypeOK'
  <2>1. PICK order \in Orders(m.batch) : ServerPush(m.batch, order)
    BY <1>15 DEF HandleLate
  <2>2. server' \in [Record -> Held] /\ serverSeq' \in Nat
    BY <2>1, HandleType DEF TypeOK
  <2> QED
    BY <1>15, <2>2 DEF HandleLate, TypeOK, store, engine
<1>16. CASE UNCHANGED vars
  BY <1>16 DEF vars, store, engine, remote, TypeOK
<1> QED
  BY <1>1, <1>2, <1>3, <1>4, <1>5, <1>6, <1>7, <1>8, <1>9, <1>10, <1>11, <1>12, <1>13,
     <1>14, <1>15, <1>16 DEF Next, PassStep

------------------------------------------------------------------------------
(* The order of versions                                                    *)

LEMMA Order ==
  \A u, v, w \in Version(Nat) :
    /\ AtMost(v, v)
    /\ AtMost(u, v) /\ AtMost(v, u) => u = v
    /\ AtMost(u, v) /\ AtMost(v, w) => AtMost(u, w)
    /\ AtMost(u, v) \/ AtMost(v, u)
    /\ Resolve(u, v) = "Local" <=> AtMost(v, u) /\ u # v
    /\ Resolve(u, v) = "Identical" <=> u = v
    /\ Resolve(u, v) = "Remote" <=> AtMost(u, v) /\ u # v
<1> TAKE u, v, w \in Version(Nat)
<1>1. Resolve(u, v) = "Identical" <=> u = v
  BY DEF Resolve, Version
<1>2. Resolve(u, v) = "Remote" <=> AtMost(u, v) /\ u # v
  BY <1>1 DEF AtMost
<1> QED
  BY <1>1, <1>2, MergeOrder

LEMMA VerTypes ==
  /\ \A x \in Row : Ver(x) \in Version(Nat) /\ Ver(x).hlc = x.hlc /\ Ver(x).deleted = x.deleted
  /\ \A x \in Held : Ver(x) \in Version(Nat) /\ Ver(x).hlc = x.hlc /\ Ver(x).deleted = x.deleted
  /\ \A x \in Envelope : Ver(x) \in Version(Nat) /\ Ver(x).hlc = x.hlc /\ Ver(x).deleted = x.deleted
  BY DEF Ver, Row, Held, Envelope, Version

\* What is absent is below every version, and nothing else is below it.
LEMMA AbsentIsLeast ==
  /\ Ver(NoRow) = Ver(NoRecord)
  /\ Ver(NoRow) \in Version(Nat)
  /\ NoRow \in Row /\ NoRecord \in Held
  /\ \A v \in Version(Nat) : AtMost(Ver(NoRow), v)
  /\ \A v \in Version(Nat) : AtMost(v, Ver(NoRow)) => v = Ver(NoRow)
<1>1. Ver(NoRow) = [hlc |-> HlcZero, deleted |-> FALSE] /\ Ver(NoRow) = Ver(NoRecord)
  BY DEF Ver, NoRow, NoRecord
<1>2. HlcZero \in Hlc(Nat)
  BY ClockAssumption DEF HlcZero, Hlc
<1>3. Ver(NoRow) \in Version(Nat) /\ NoRow \in Row /\ NoRecord \in Held
  <2>1. Ver(NoRow) \in Version(Nat)
    BY <1>1, <1>2 DEF Version
  <2>2. NoRow \in Row
    BY <1>2 DEF NoRow, Row
  <2>3. NoRecord \in Held
    BY <1>2 DEF NoRecord, Held
  <2> QED
    BY <2>1, <2>2, <2>3
<1>4. \A h \in Hlc(Nat) : ~HlcLess(h, HlcZero)
  BY DEF HlcZero, HlcLess, Before, Hlc
<1>5. \A v \in Version(Nat) : AtMost(Ver(NoRow), v)
  <2> TAKE v \in Version(Nat)
  <2>1. v.hlc \in Hlc(Nat) /\ v.deleted \in BOOLEAN
    BY DEF Version
  <2>2. Ver(NoRow).hlc = HlcZero /\ Ver(NoRow).deleted = FALSE
    BY <1>1
  <2>3. CASE v.deleted
    BY <2>1, <2>2, <2>3 DEF AtMost, Resolve
  <2>4. CASE ~v.deleted
    BY <1>4, <2>1, <2>2, <2>4 DEF AtMost, Resolve
  <2> QED
    BY <2>3, <2>4
<1> QED
  BY <1>1, <1>3, <1>5, Order

\* A local write beats the row it replaces.
LEMMA WriteRises ==
  ASSUME NEW x \in Row, NEW t \in Time, NEW now \in Nat, NEW d \in Nat, NEW del \in BOOLEAN,
         ~Before(t, x.hlc), ~x.deleted
  PROVE  LET h == Stamp(Tick(t, now), d)
         IN  /\ h \in Hlc(Nat)
             /\ h # HlcZero
             /\ Before(x.hlc, h)
             /\ Before(t, h)
             /\ ~Before(Tick(t, now), h)
             /\ Resolve(Ver(x), [hlc |-> h, deleted |-> del]) = "Remote"
<1> DEFINE u == Tick(t, now)
           h == Stamp(u, d)
<1>1. u \in Time /\ Before(t, u)
  BY TickAdvances
<1>2. x.hlc \in Hlc(Nat) /\ x.deleted \in BOOLEAN
  BY DEF Row
<1> HIDE DEF u
<1>3. /\ h.wall = u.wall /\ h.counter = u.counter /\ h.device = d
      /\ h \in Hlc(Nat)
  BY <1>1 DEF Stamp, Hlc, Time
<1> HIDE DEF h
<1>4. Before(t, h) /\ Before(x.hlc, h) /\ ~Before(u, h) /\ h # HlcZero
  BY <1>1, <1>2, <1>3, ClockAssumption DEF Before, Time, Hlc, HlcZero
<1>5. ~HlcLess(h, x.hlc) /\ h # x.hlc
  BY <1>2, <1>3, <1>4 DEF HlcLess, Before, Hlc
<1>6. Resolve(Ver(x), [hlc |-> h, deleted |-> del]) = "Remote"
  BY <1>2, <1>5 DEF Resolve, Ver
<1> QED
  BY <1>3, <1>4, <1>6 DEF u, h

\* What apply_one makes of a row.
LEMMA AppliedFacts ==
  ASSUME NEW x \in Row, NEW e \in Held, x.hlc = HlcZero => x = NoRow, e.hlc # HlcZero
  PROVE  LET y == Applied(x, e)
         IN  /\ y \in Row
             /\ AtMost(Ver(x), Ver(y))
             /\ y.hlc = HlcZero => y = NoRow
             /\ Ver(y) = Ver(x) \/ Ver(y) = Ver(e)
             /\ y = NoRow => x = NoRow /\ e.deleted
             /\ y # NoRow => y.base = e.seq /\ AtMost(Ver(e), Ver(y))
             /\ ~y.dirty => Ver(y) = Ver(e) \/ (~x.dirty /\ Ver(y) = Ver(x))
             /\ x.dirty /\ ~y.dirty => AtMost(Ver(x), Ver(e))
             /\ y.hlc = x.hlc \/ y.hlc = e.hlc
             /\ y.deleted => x.deleted \/ e.deleted
<1> DEFINE y == Applied(x, e)
<1>1. Ver(x) \in Version(Nat) /\ Ver(e) \in Version(Nat)
  BY VerTypes
<1>2. y \in Row
  BY AppliedType
<1>3. NoRow.hlc = HlcZero /\ ~NoRow.dirty /\ ~NoRow.deleted
  BY DEF NoRow
<1>4. CASE x = NoRow /\ e.deleted
  <2>1. y = x
    BY <1>4 DEF Applied
  <2> HIDE DEF y
  <2> QED
    BY <1>1, <1>2, <1>3, <1>4, <2>1, Order DEF y
<1>5. CASE x = NoRow /\ ~e.deleted
  <2>1. y = [hlc |-> e.hlc, deleted |-> FALSE, dirty |-> FALSE, base |-> e.seq]
    BY <1>5 DEF Applied
  <2>2. Ver(y) = Ver(e)
    <3>1. e.deleted = FALSE
      BY <1>5 DEF Held
    <3>2. y.hlc = e.hlc /\ y.deleted = FALSE
      BY <2>1
    <3> QED
      BY <3>1, <3>2 DEF Ver
  <2> HIDE DEF y
  <2>3. y.hlc = e.hlc /\ ~y.deleted /\ ~y.dirty /\ y.base = e.seq /\ y # NoRow
    BY <2>1, <1>3
  <2> QED
    BY <1>1, <1>2, <1>3, <1>5, <2>2, <2>3, Order, AbsentIsLeast DEF y
<1>6. CASE x # NoRow /\ Resolve(Ver(x), Ver(e)) = "Identical"
  <2>1. y = [x EXCEPT !.dirty = FALSE, !.base = e.seq]
    BY <1>6 DEF Applied
  <2>2. y.hlc = x.hlc /\ y.deleted = x.deleted /\ ~y.dirty /\ y.base = e.seq
    BY <2>1 DEF Row
  <2> HIDE DEF y
  <2>3. Ver(y) = Ver(x) /\ Ver(x) = Ver(e)
    BY <1>1, <1>6, <2>2, Order DEF Ver
  <2> QED
    BY <1>1, <1>2, <1>3, <1>6, <2>2, <2>3, Order DEF y
<1>7. CASE x # NoRow /\ Resolve(Ver(x), Ver(e)) = "Local"
  <2>1. y = [x EXCEPT !.base = e.seq]
    BY <1>7 DEF Applied
  <2>2. y.hlc = x.hlc /\ y.deleted = x.deleted /\ y.dirty = x.dirty /\ y.base = e.seq
    BY <2>1 DEF Row
  <2> HIDE DEF y
  <2>3. Ver(y) = Ver(x) /\ AtMost(Ver(e), Ver(x))
    BY <1>1, <1>7, <2>2, Order DEF Ver
  <2> QED
    BY <1>1, <1>2, <1>3, <1>7, <2>2, <2>3, Order DEF y
<1>8. CASE x # NoRow /\ Resolve(Ver(x), Ver(e)) = "Remote"
  <2>1. y = [hlc |-> e.hlc, deleted |-> e.deleted, dirty |-> FALSE, base |-> e.seq]
    BY <1>8 DEF Applied
  <2>2. y.hlc = e.hlc /\ y.deleted = e.deleted /\ ~y.dirty /\ y.base = e.seq
    BY <2>1
  <2> HIDE DEF y
  <2>3. Ver(y) = Ver(e) /\ AtMost(Ver(x), Ver(e))
    BY <1>1, <1>8, <2>2, Order DEF Ver
  <2> QED
    BY <1>1, <1>2, <1>3, <1>8, <2>2, <2>3, Order DEF y
<1>9. Resolve(Ver(x), Ver(e)) \in {"Identical", "Local", "Remote"}
  BY <1>1, Order
<1> QED
  BY <1>4, <1>5, <1>6, <1>7, <1>8, <1>9

------------------------------------------------------------------------------
(* The invariant holds at the start and every step keeps it                 *)

LEMMA InitInv == Init => Inv
<1> SUFFICES ASSUME Init PROVE Inv
  OBVIOUS
<1>1. TypeOK
  <2>1. row \in [Device -> [Record -> Row]] /\ server \in [Record -> Held]
    BY AbsentIsLeast DEF Init
  <2>2. clock \in [Device -> Time]
    BY ClockAssumption DEF Init, TimeZero, Time
  <2>3. pass \in [Device -> Pass]
    BY SyncAssumption DEF Init, Idle, Pass
  <2>4. \A d \in Device : IsSome(out[d], Envelope) /\ IsAnswer(got[d])
    BY NothingIsSome, NoAnswerType DEF Init
  <2> QED
    BY <2>1, <2>2, <2>3, <2>4, SyncAssumption DEF Init, TypeOK
<1>2. \A d \in Device : \A r \in Record :
        /\ row[d][r] = NoRow /\ clock[d] = TimeZero /\ server[r] = NoRecord
        /\ out[d] = Nothing /\ got[d] = NoAnswer /\ pass[d] = Idle /\ cursor[d] = 0
  BY DEF Init
<1>3. /\ NoRow.hlc = HlcZero /\ NoRow.base = 0 /\ ~NoRow.deleted
      /\ NoRecord.seq = 0 /\ ~NoRecord.deleted /\ serverSeq = 0
      /\ ~Before(TimeZero, HlcZero)
  BY DEF NoRow, NoRecord, Before, TimeZero, HlcZero, Init
<1>4. AtMost(Ver(NoRow), Ver(NoRecord)) /\ AtMost(Ver(NoRecord), Ver(NoRow))
  BY AbsentIsLeast
<1>5. DOMAIN Nothing = {} /\ NoAnswer.taken = Nothing /\ NoAnswer.held = Nothing
      /\ NoAnswer.upto = 0 /\ Idle.pc = "idle"
  BY NothingIsSome DEF NoAnswer, Idle
<1>6. \A d \in Device : \A r \in Record : RowOK(d, r)
  BY <1>2, <1>3, <1>4 DEF RowOK
<1>7. \A r \in Record : ServerOK(r)
  BY <1>3 DEF ServerOK, Init
<1>8. \A d \in Device : out[d] = Nothing /\ got[d] = NoAnswer /\ pass[d] = Idle /\ cursor[d] = 0
  BY DEF Init
<1>9. \A d \in Device : RequestOK(d, out[d]) /\ OutOK(d) /\ TakenOK(d) /\ HeldOK(d)
  BY <1>5, <1>8 DEF RequestOK, OutOK, TakenOK, HeldOK
<1>10. \A d \in Device : PassOK(d)
  <2> TAKE d \in Device
  <2>1. \A r \in Record : Seen(d, r, cursor[d])
    BY <1>2, <1>3 DEF Seen
  <2> QED
    BY <1>3, <1>5, <1>8, <2>1 DEF PassOK
<1>11. \A m \in late : RequestOK(m.from, m.batch)
  BY DEF Init
<1> QED
  BY <1>1, <1>6, <1>7, <1>9, <1>10, <1>11 DEF Inv

\* What the invariant says about the types of what it compares.
LEMMA InvTypes ==
  ASSUME TypeOK
  PROVE  /\ \A d \in Device : \A r \in Record :
              row[d][r] \in Row /\ Ver(row[d][r]) \in Version(Nat) /\ row[d][r].base \in Nat
              /\ row[d][r].hlc \in Hlc(Nat)
         /\ \A r \in Record :
              server[r] \in Held /\ Ver(server[r]) \in Version(Nat) /\ server[r].seq \in Nat
         /\ \A d \in Device : clock[d] \in Time /\ cursor[d] \in Nat /\ got[d].upto \in Nat
         /\ \A d \in Device : \A r \in DOMAIN out[d] :
              r \in Record /\ out[d][r] \in Envelope /\ Ver(out[d][r]) \in Version(Nat)
              /\ out[d][r].base \in Nat /\ out[d][r].hlc \in Hlc(Nat)
         /\ \A m \in late : m.from \in Device /\ \A r \in DOMAIN m.batch :
              r \in Record /\ m.batch[r] \in Envelope /\ Ver(m.batch[r]) \in Version(Nat)
              /\ m.batch[r].base \in Nat
         /\ \A d \in Device : \A r \in DOMAIN got[d].taken :
              r \in Record /\ got[d].taken[r] \in Nat
         /\ \A d \in Device : \A r \in DOMAIN got[d].held :
              r \in Record /\ got[d].held[r] \in Held /\ Ver(got[d].held[r]) \in Version(Nat)
              /\ got[d].held[r].seq \in Nat
         /\ serverSeq \in Nat
<1>1. \A d \in Device : \A r \in Record : row[d][r] \in Row
  BY DEF TypeOK
<1>2. \A r \in Record : server[r] \in Held
  BY DEF TypeOK
<1>3. \A d \in Device : \A r \in DOMAIN out[d] : r \in Record /\ out[d][r] \in Envelope
  BY SomeDomain DEF TypeOK
<1>4. \A m \in late : \A r \in DOMAIN m.batch : r \in Record /\ m.batch[r] \in Envelope
  BY SomeDomain DEF TypeOK
<1>5. \A d \in Device : \A r \in DOMAIN got[d].taken : r \in Record /\ got[d].taken[r] \in Nat
  BY SomeDomain DEF TypeOK, IsAnswer
<1>6. \A d \in Device : \A r \in DOMAIN got[d].held : r \in Record /\ got[d].held[r] \in Held
  BY SomeDomain DEF TypeOK, IsAnswer
<1>7. \A d \in Device : clock[d] \in Time /\ cursor[d] \in Nat /\ got[d].upto \in Nat
  BY DEF TypeOK, IsAnswer
<1>8. /\ \A x \in Row : x.base \in Nat /\ x.hlc \in Hlc(Nat)
      /\ \A x \in Held : x.seq \in Nat
      /\ \A x \in Envelope : x.base \in Nat /\ x.hlc \in Hlc(Nat)
  BY DEF Row, Held, Envelope
<1>9. serverSeq \in Nat /\ \A m \in late : m.from \in Device
  BY DEF TypeOK
<1> QED
  BY <1>1, <1>2, <1>3, <1>4, <1>5, <1>6, <1>7, <1>8, <1>9, VerTypes

\* A local write.
LEMMA WriteInv ==
  ASSUME Inv, NEW d \in Device, NEW r \in Record, NEW del \in BOOLEAN, LocalWrite(d, r, del),
         ~row[d][r].deleted,
         row[d][r] = NoRow => r \in Fixed \/ \A e \in Device : row[e][r] = NoRow,
         r \in Fixed => ~del
  PROVE  /\ Inv'
         /\ Resolve(Ver(row[d][r]), Ver(row'[d][r])) = "Remote"
         /\ row'[d][r].dirty
         /\ \A e \in Device : \A q \in Record : e # d \/ q # r => row'[e][q] = row[e][q]
<1>1. TypeOK /\ TypeOK'
  BY LocalWriteType DEF Inv
<1>2. PICK now \in Reading :
        /\ clock' = [clock EXCEPT ![d] = Tick(clock[d], now)]
        /\ row' = [row EXCEPT ![d][r] = [hlc |-> Stamp(Tick(clock[d], now), d),
                                         deleted |-> del, dirty |-> TRUE, base |-> @.base]]
  BY DEF LocalWrite
<1> DEFINE h == Stamp(Tick(clock[d], now), d)
           x == row[d][r]
           y == row'[d][r]
<1>3. now \in Nat /\ d \in Nat /\ clock[d] \in Time /\ x \in Row
  BY <1>1, SyncAssumption DEF TypeOK
<1>4. /\ x.hlc = HlcZero => x = NoRow
      /\ ~Before(clock[d], x.hlc)
      /\ x.base <= serverSeq
      /\ x.base = server[r].seq => AtMost(Ver(server[r]), Ver(x))
  BY DEF Inv, RowOK
<1>5. /\ h \in Hlc(Nat) /\ h # HlcZero /\ Before(x.hlc, h) /\ Before(clock[d], h)
      /\ ~Before(Tick(clock[d], now), h)
      /\ Resolve(Ver(x), [hlc |-> h, deleted |-> del]) = "Remote"
  BY <1>3, <1>4, WriteRises
<1> HIDE DEF h
<1>6. /\ y = [hlc |-> h, deleted |-> del, dirty |-> TRUE, base |-> x.base]
      /\ \A e \in Device : \A q \in Record : e # d \/ q # r => row'[e][q] = row[e][q]
      /\ clock'[d] = Tick(clock[d], now)
      /\ \A e \in Device : e # d => clock'[e] = clock[e]
  BY <1>1, <1>2 DEF TypeOK, h
<1> HIDE DEF x, y
<1>7. y.hlc = h /\ y.deleted = del /\ y.dirty /\ y.base = x.base /\ y # NoRow
      /\ Ver(y) = [hlc |-> h, deleted |-> del]
  BY <1>5, <1>6 DEF Ver, NoRow
<1>8. Ver(x) \in Version(Nat) /\ Ver(y) \in Version(Nat)
      /\ Resolve(Ver(x), Ver(y)) = "Remote" /\ AtMost(Ver(x), Ver(y))
  BY <1>1, <1>3, <1>5, <1>7, InvTypes, Order, VerTypes DEF y, Version
<1>9. \A e \in Device : \A k \in Hlc(Nat) : ~Before(clock[e], k) => ~Before(clock'[e], k)
  <2>1. Tick(clock[d], now) \in Time /\ Before(clock[d], Tick(clock[d], now))
    BY <1>3, TickAdvances
  <2>2. \A k \in Hlc(Nat) : ~Before(clock[d], k) => ~Before(clock'[d], k)
    BY <1>3, <1>6, <2>1 DEF Before, Time, Hlc
  <2> QED
    BY <1>6, <2>2
<1>10. \A e \in Device : \A q \in Record : AtMost(Ver(row[e][q]), Ver(row'[e][q]))
  BY <1>1, <1>6, <1>8, InvTypes, Order DEF x, y
<1>11. \A e \in Device : \A q \in Record : row[e][q] # NoRow => row'[e][q] # NoRow
  BY <1>6, <1>7 DEF x, y
<1>12. UNCHANGED <<cursor, pass, out, got, late, server, serverSeq>>
  BY DEF LocalWrite, engine, remote
<1>13. \A e \in Device : \A q \in Record : RowOK(e, q)'
  <2> TAKE e \in Device
  <2> TAKE q \in Record
  <2>1. RowOK(e, q)
    BY DEF Inv
  <2>2. CASE e = d /\ q = r
    <3>1. x.base = server[r].seq => AtMost(Ver(server[r]), Ver(y))
      BY <1>1, <1>4, <1>8, InvTypes, Order
    <3>2. ~Before(clock'[d], h)
      BY <1>5, <1>6
    <3> QED
      BY <1>4, <1>5, <1>7, <1>12, <2>2, <3>1, <3>2 DEF RowOK, y
  <2>3. CASE e # d \/ q # r
    <3>1. row'[e][q] = row[e][q] /\ row[e][q].hlc \in Hlc(Nat)
      BY <1>1, <1>6, <2>3, InvTypes
    <3>2. ~Before(clock'[e], row[e][q].hlc)
      BY <1>9, <2>1, <3>1 DEF RowOK
    <3> QED
      BY <1>12, <2>1, <3>1, <3>2 DEF RowOK
  <2> QED
    BY <2>2, <2>3
<1>14. \A q \in Record : ServerOK(q)'
  BY <1>11, <1>12 DEF Inv, ServerOK
<1>15. \A e \in Device : \A q \in Record : \A v \in Version(Nat) :
         AtMost(v, Ver(row[e][q])) => AtMost(v, Ver(row'[e][q]))
  <2>1. \A e \in Device : \A q \in Record :
          Ver(row[e][q]) \in Version(Nat) /\ Ver(row'[e][q]) \in Version(Nat)
    BY <1>1, VerTypes DEF TypeOK
  <2> QED
    BY <1>10, <2>1, Order
<1>16. \A e \in Device : RequestOK(e, out[e])'
  BY <1>1, <1>12, <1>15, InvTypes DEF Inv, RequestOK
<1>17. \A m \in late' : RequestOK(m.from, m.batch)'
  BY <1>1, <1>12, <1>15, InvTypes DEF Inv, RequestOK
<1>18. \A e \in Device : OutOK(e)'
  <2> TAKE e \in Device
  <2> SUFFICES ASSUME NEW q \in DOMAIN out[e]
               PROVE  /\ ~Before(clock'[e], out[e][q].hlc)
                      /\ row'[e][q].hlc = out[e][q].hlc => Ver(row'[e][q]) = Ver(out[e][q])
    BY <1>12 DEF OutOK
  <2>1. /\ ~Before(clock[e], out[e][q].hlc) /\ out[e][q].hlc \in Hlc(Nat) /\ q \in Record
        /\ row[e][q].hlc = out[e][q].hlc => Ver(row[e][q]) = Ver(out[e][q])
    BY <1>1, InvTypes DEF Inv, OutOK
  <2>2. CASE e = d /\ q = r
    <3>1. h # out[e][q].hlc
      BY <1>5, <2>1, <2>2
    <3> QED
      BY <1>7, <1>9, <2>1, <2>2, <3>1 DEF y
  <2>3. CASE e # d \/ q # r
    BY <1>6, <1>9, <2>1, <2>3
  <2> QED
    BY <2>2, <2>3
<1>19. \A e \in Device : TakenOK(e)' /\ HeldOK(e)'
  BY <1>12 DEF Inv, TakenOK, HeldOK
<1>20. \A e \in Device : \A q \in Record : \A c : Seen(e, q, c) => Seen(e, q, c)'
  <2> TAKE e \in Device
  <2> TAKE q \in Record
  <2>1. CASE e = d /\ q = r
    <3>1. x = NoRow => server[r].seq = 0 \/ ~server[r].deleted
      BY DEF Inv, ServerOK, x
    <3> QED
      BY <1>7, <1>12, <2>1, <3>1 DEF Seen, x, y
  <2>2. CASE e # d \/ q # r
    BY <1>6, <1>12, <2>2 DEF Seen
  <2> QED
    BY <2>1, <2>2
<1>21. \A e \in Device : PassOK(e)'
  BY <1>12, <1>20 DEF Inv, PassOK
<1> QED
  BY <1>1, <1>6, <1>7, <1>8, <1>13, <1>14, <1>16, <1>17, <1>18, <1>19, <1>21 DEF Inv, x, y

\* The server handles a request of device d, in time or late.
LEMMA PushInv ==
  ASSUME Inv, NEW d \in Device, NEW b, IsSome(b, Envelope), RequestOK(d, b),
         NEW order, ServerPush(b, order), UNCHANGED <<row, clock, cursor>>
  PROVE  /\ \A r \in Record : RowOK(d, r)'
         /\ \A e \in Device : \A r \in Record : RowOK(e, r)'
         /\ \A r \in Record : ServerOK(r)'
         /\ \A e \in Device : \A c : IsSome(c, Envelope) /\ RequestOK(e, c) => RequestOK(e, c)'
         /\ \A e \in Device : out'[e] = out[e] => OutOK(e)'
         /\ \A e \in Device : out'[e] = out[e] /\ got'[e] = got[e] => TakenOK(e)' /\ HeldOK(e)'
         /\ \A e \in Device : \A r \in Record : Seen(e, r, cursor[e])'
         /\ \A e \in Device :
              out'[e] = out[e] /\ got'[e] = got[e] /\ pass'[e] = pass[e] => PassOK(e)'
         /\ \A r \in Record : \/ server'[r] = server[r] /\ r \notin Takes(b)
                              \/ /\ r \in Takes(b)
                                 /\ Ver(server'[r]) = Ver(b[r])
                                 /\ server'[r].seq = serverSeq + order[r]
                                 /\ server'[r].seq > serverSeq
                                 /\ server'[r].seq <= serverSeq'
         /\ serverSeq' >= serverSeq
         /\ \A r \in Record : /\ AtMost(Ver(server[r]), Ver(server'[r]))
                              /\ \/ server'[r] = server[r]
                                 \/ AtMost(Ver(server'[r]), Ver(row[d][r]))
<1>1. TypeOK
  BY DEF Inv
<1>2. /\ server' \in [Record -> Held] /\ serverSeq' \in Nat /\ serverSeq \in Nat
      /\ Takes(b) \subseteq DOMAIN b /\ DOMAIN b \subseteq Record
      /\ \A r \in Takes(b) : order[r] \in Nat \ {0} /\ serverSeq + order[r] <= serverSeq'
  BY <1>1, HandleType, InvTypes
<1>3. serverSeq' >= serverSeq
  <2>1. IsFiniteSet(Takes(b))
    BY <1>2, FS_Subset, SyncAssumption
  <2>2. Cardinality(Takes(b)) \in Nat
    BY <2>1, FS_CardinalityType
  <2> QED
    BY <1>2, <2>2 DEF ServerPush
<1>4. \A r \in Record : r \notin Takes(b) => server'[r] = server[r]
  BY DEF ServerPush
<1>5. ASSUME NEW r \in Takes(b)
      PROVE  /\ server'[r] = [hlc |-> b[r].hlc, deleted |-> b[r].deleted,
                              seq |-> serverSeq + order[r]]
             /\ Ver(server'[r]) = Ver(b[r]) /\ server'[r].hlc = b[r].hlc
             /\ server'[r].deleted = b[r].deleted
             /\ server'[r].seq = serverSeq + order[r]
             /\ server'[r].seq > serverSeq
             /\ server'[r].seq <= serverSeq'
             /\ b[r] \in Envelope
             /\ AtMost(Ver(server[r]), Ver(b[r]))
             /\ AtMost(Ver(b[r]), Ver(row[d][r]))
  <2>1. r \in Record /\ b[r] \in Envelope
    BY <1>2, SomeDomain
  <2>2. server'[r] = [hlc |-> b[r].hlc, deleted |-> b[r].deleted, seq |-> serverSeq + order[r]]
    BY <2>1, <1>5 DEF ServerPush
  <2>3. server[r].seq = 0 \/ server[r].seq = b[r].base
    BY <1>5 DEF Takes
  <2>4. server[r].seq = 0 => server[r] = NoRecord
    BY <2>1 DEF Inv, ServerOK
  <2>5. Ver(b[r]) \in Version(Nat)
    BY <2>1, VerTypes
  <2>6. AtMost(Ver(server[r]), Ver(b[r])) /\ AtMost(Ver(b[r]), Ver(row[d][r]))
    BY <1>2, <1>5, <2>3, <2>4, <2>5, AbsentIsLeast DEF RequestOK
  <2> QED
    BY <1>2, <1>5, <2>1, <2>2, <2>6 DEF Ver
<1>moved. \A r \in Record : server'[r] = server[r] \/ server'[r].seq > serverSeq
  BY <1>4, <1>5
<1>6. \A r \in Record : Ver(server'[r]) \in Version(Nat) /\ server'[r].seq \in Nat
  BY <1>2, VerTypes DEF Held
<1>7. \A r \in Record : AtMost(Ver(server[r]), Ver(server'[r]))
  BY <1>1, <1>4, <1>5, InvTypes, Order
<1>8. \A r \in Record : server[r].seq <= serverSeq
  BY DEF Inv, ServerOK
<1>9. \A v \in Version(Nat) : \A r \in Record :
        AtMost(v, Ver(server[r])) => AtMost(v, Ver(server'[r]))
  BY <1>1, <1>6, <1>7, InvTypes, Order
<1>10. \A e \in Device : \A r \in Record : RowOK(e, r)'
  <2> TAKE e \in Device
  <2> TAKE r \in Record
  <2>1. RowOK(e, r)
    BY DEF Inv
  <2>2. row[e][r].base <= serverSeq' /\ row[e][r].base \in Nat
    BY <1>1, <1>2, <1>3, <2>1, InvTypes DEF RowOK
  <2>3. row[e][r].base = server'[r].seq => AtMost(Ver(server'[r]), Ver(row[e][r]))
    <3>1. row[e][r].base <= serverSeq
      BY <2>1 DEF RowOK
    <3>2. CASE server'[r] = server[r]
      BY <2>1, <3>2 DEF RowOK
    <3>3. CASE server'[r].seq > serverSeq
      BY <1>2, <1>6, <2>2, <3>1, <3>3
    <3> QED
      BY <1>moved, <3>2, <3>3
  <2>4. ~row[e][r].dirty => AtMost(Ver(row[e][r]), Ver(server'[r]))
    BY <1>1, <1>9, <2>1, InvTypes DEF RowOK
  <2> QED
    BY <2>1, <2>2, <2>3, <2>4 DEF RowOK
<1>11. \A r \in Record : ServerOK(r)'
  <2> TAKE r \in Record
  <2>1. ServerOK(r)
    BY DEF Inv
  <2>2. CASE r \notin Takes(b)
    BY <1>1, <1>2, <1>3, <1>4, <2>1, <2>2, InvTypes DEF ServerOK
  <2>3. CASE r \in Takes(b)
    <3>1. r \in DOMAIN b /\ b[r].hlc # HlcZero /\ (r \in Fixed => ~b[r].deleted)
      BY <1>2, <2>3 DEF RequestOK
    <3>2. row[d][r] # NoRow
      <4>1. Ver(b[r]) \in Version(Nat) /\ Ver(b[r]).hlc # HlcZero
        BY <1>5, <2>3, <3>1, VerTypes
      <4>2. Ver(NoRow).hlc = HlcZero
        BY DEF Ver, NoRow
      <4> QED
        BY <1>5, <2>3, <4>1, <4>2, AbsentIsLeast
    <3>3. /\ server'[r].seq <= serverSeq' /\ server'[r].seq # 0
          /\ server'[r].hlc = b[r].hlc /\ server'[r].deleted = b[r].deleted
      <4>1. /\ server'[r].seq <= serverSeq' /\ server'[r].seq > serverSeq
            /\ server'[r].hlc = b[r].hlc /\ server'[r].deleted = b[r].deleted
        BY <1>5, <2>3
      <4> QED
        BY <1>2, <1>6, <4>1
    <3> QED
      BY <3>1, <3>2, <3>3 DEF ServerOK
  <2> QED
    BY <2>2, <2>3
<1>12. \A e \in Device : \A c : IsSome(c, Envelope) /\ RequestOK(e, c) => RequestOK(e, c)'
  <2> TAKE e \in Device
  <2> TAKE c
  <2> SUFFICES ASSUME IsSome(c, Envelope), RequestOK(e, c), NEW r \in DOMAIN c
               PROVE  /\ c[r].base <= serverSeq'
                      /\ c[r].base = server'[r].seq => AtMost(Ver(server'[r]), Ver(c[r]))
    BY DEF RequestOK
  <2>1. r \in Record /\ c[r] \in Envelope
    BY SomeDomain
  <2>2. c[r].base \in Nat /\ c[r].base <= serverSeq
    BY <2>1 DEF Envelope, RequestOK
  <2>3. CASE server'[r] = server[r]
    BY <1>2, <1>3, <2>1, <2>2, <2>3 DEF RequestOK
  <2>4. CASE server'[r].seq > serverSeq
    BY <1>2, <1>3, <1>6, <2>1, <2>2, <2>4
  <2> QED
    BY <1>moved, <2>1, <2>3, <2>4
<1>13. \A e \in Device : out'[e] = out[e] => OutOK(e)'
  BY DEF Inv, OutOK
<1>14. \A e \in Device : cursor[e] <= serverSeq /\ cursor[e] \in Nat
  BY <1>1, InvTypes DEF Inv, PassOK
<1>15. ASSUME NEW e \in Device, out'[e] = out[e], got'[e] = got[e] PROVE TakenOK(e)'
  <2> SUFFICES ASSUME NEW r \in DOMAIN got[e].taken
               PROVE  LET n == got[e].taken[r]
                          t == server'[r]
                      IN  /\ r \in DOMAIN out[e] /\ n # 0 /\ n <= t.seq
                          /\ n # t.seq => t.seq > cursor[e]
                          /\ n = t.seq => Ver(t) = Ver(out[e][r])
                          /\ AtMost(Ver(out[e][r]), Ver(t))
    BY <1>15 DEF TakenOK
  <2>1. LET n == got[e].taken[r]
        IN  /\ r \in DOMAIN out[e] /\ n # 0 /\ n <= server[r].seq
            /\ n # server[r].seq => server[r].seq > cursor[e]
            /\ n = server[r].seq => Ver(server[r]) = Ver(out[e][r])
            /\ AtMost(Ver(out[e][r]), Ver(server[r]))
    BY DEF Inv, TakenOK
  <2>2. r \in Record /\ got[e].taken[r] \in Nat /\ Ver(out[e][r]) \in Version(Nat)
        /\ server[r].seq \in Nat
    BY <1>1, <2>1, InvTypes
  <2>3. AtMost(Ver(out[e][r]), Ver(server'[r]))
    BY <1>9, <2>1, <2>2
  <2>4. CASE server'[r] = server[r]
    BY <2>1, <2>2, <2>3, <2>4
  <2>5. CASE server'[r].seq > serverSeq
    BY <1>2, <1>6, <1>8, <1>14, <2>1, <2>2, <2>3, <2>5
  <2> QED
    BY <1>moved, <2>2, <2>4, <2>5
<1>16. ASSUME NEW e \in Device, got'[e] = got[e] PROVE HeldOK(e)'
  <2> SUFFICES ASSUME NEW r \in DOMAIN got[e].held
               PROVE  LET k == got[e].held[r]
                          t == server'[r]
                      IN  /\ k.hlc # HlcZero /\ k.seq # 0 /\ k.seq <= t.seq
                          /\ k.seq # t.seq => t.seq > cursor[e]
                          /\ k.seq = t.seq => Ver(t) = Ver(k)
                          /\ AtMost(Ver(k), Ver(t))
                          /\ r \in Fixed => ~k.deleted
    BY <1>16 DEF HeldOK
  <2>1. LET k == got[e].held[r]
        IN  /\ k.hlc # HlcZero /\ k.seq # 0 /\ k.seq <= server[r].seq
            /\ k.seq # server[r].seq => server[r].seq > cursor[e]
            /\ k.seq = server[r].seq => Ver(server[r]) = Ver(k)
            /\ AtMost(Ver(k), Ver(server[r]))
            /\ r \in Fixed => ~k.deleted
    BY DEF Inv, HeldOK
  <2>2. r \in Record /\ got[e].held[r].seq \in Nat /\ Ver(got[e].held[r]) \in Version(Nat)
        /\ server[r].seq \in Nat
    BY <1>1, InvTypes
  <2>3. AtMost(Ver(got[e].held[r]), Ver(server'[r]))
    BY <1>9, <2>1, <2>2
  <2>4. CASE server'[r] = server[r]
    BY <2>1, <2>2, <2>3, <2>4
  <2>5. CASE server'[r].seq > serverSeq
    BY <1>2, <1>6, <1>8, <1>14, <2>1, <2>2, <2>3, <2>5
  <2> QED
    BY <1>moved, <2>2, <2>4, <2>5
<1>17. \A e \in Device : \A r \in Record : \A c \in Nat :
         c <= serverSeq /\ Seen(e, r, c) => Seen(e, r, c)'
  BY <1>2, <1>6, <1>moved DEF Seen
<1>18. \A e \in Device : \A r \in Record : Seen(e, r, cursor[e])'
  BY <1>14, <1>17 DEF Inv, PassOK
<1>19. ASSUME NEW e \in Device, out'[e] = out[e], got'[e] = got[e], pass'[e] = pass[e]
       PROVE  PassOK(e)'
  <2>1. PassOK(e) /\ got[e].upto \in Nat
    BY <1>1, InvTypes DEF Inv
  <2>2. cursor[e] <= serverSeq' /\ got[e].upto <= serverSeq' /\ got[e].upto <= serverSeq
    BY <1>2, <1>3, <1>14, <2>1 DEF PassOK
  <2>3. pass[e].pc = "cursor" => \A r \in Record : Seen(e, r, got[e].upto)'
    BY <1>17, <1>19, <2>1, <2>2 DEF PassOK
  <2>4. pass[e].pc = "page" =>
          \A r \in Record : server'[r].seq > cursor[e] /\ server'[r].seq <= got[e].upto =>
            r \in DOMAIN got[e].held /\ got[e].held[r].seq = server'[r].seq
    BY <1>2, <1>6, <1>moved, <2>1, <2>2 DEF PassOK
  <2> QED
    BY <1>18, <1>19, <2>1, <2>2, <2>3, <2>4 DEF PassOK
<1> QED
  BY <1>2, <1>3, <1>4, <1>5, <1>7, <1>10, <1>11, <1>12, <1>13, <1>15, <1>16, <1>18, <1>19

LEMMA HandleInv ==
  ASSUME Inv, NEW d \in Device, Handle(d)
  PROVE  Inv'
<1>1. TypeOK /\ TypeOK'
  BY NextType DEF Inv, Next, PassStep
<1>2. PICK order \in Orders(out[d]) :
        /\ ServerPush(out[d], order)
        /\ got' = [got EXCEPT ![d] =
                     [taken |-> [r \in Takes(out[d]) |-> serverSeq + order[r]],
                      held  |-> [r \in DOMAIN out[d] \ Takes(out[d]) |-> server[r]],
                      upto  |-> 0,
                      more  |-> FALSE]]
  BY DEF Handle
<1>3. /\ UNCHANGED <<row, clock, cursor, out, late>>
      /\ pass[d].pc = "sent" /\ pass' = [pass EXCEPT ![d].pc = "answered"]
  BY DEF Handle, store
<1>4. IsSome(out[d], Envelope) /\ RequestOK(d, out[d])
  BY <1>1 DEF Inv, TypeOK
<1>5. /\ \A e \in Device : \A r \in Record : RowOK(e, r)'
      /\ \A r \in Record : ServerOK(r)'
      /\ \A e \in Device : \A c : IsSome(c, Envelope) /\ RequestOK(e, c) => RequestOK(e, c)'
      /\ \A e \in Device : OutOK(e)'
      /\ \A e \in Device : got'[e] = got[e] => TakenOK(e)' /\ HeldOK(e)'
      /\ \A r \in Record : Seen(d, r, cursor[d])'
      /\ \A e \in Device : got'[e] = got[e] /\ pass'[e] = pass[e] => PassOK(e)'
      /\ \A r \in Record : \/ server'[r] = server[r] /\ r \notin Takes(out[d])
                           \/ /\ r \in Takes(out[d])
                              /\ Ver(server'[r]) = Ver(out[d][r])
                              /\ server'[r].seq = serverSeq + order[r]
                              /\ server'[r].seq > serverSeq
                              /\ server'[r].seq <= serverSeq'
      /\ serverSeq' >= serverSeq
  BY <1>2, <1>3, <1>4, PushInv
<1>6. \A e \in Device : e # d => got'[e] = got[e] /\ pass'[e] = pass[e]
  BY <1>1, <1>2, <1>3 DEF TypeOK
<1>7. /\ got'[d].taken = [r \in Takes(out[d]) |-> serverSeq + order[r]]
      /\ got'[d].held = [r \in DOMAIN out[d] \ Takes(out[d]) |-> server[r]]
      /\ got'[d].upto = 0
      /\ pass'[d].pc = "answered"
  <2>1. got'[d] = [taken |-> [r \in Takes(out[d]) |-> serverSeq + order[r]],
                   held  |-> [r \in DOMAIN out[d] \ Takes(out[d]) |-> server[r]],
                   upto  |-> 0,
                   more  |-> FALSE]
    BY <1>1, <1>2 DEF TypeOK
  <2>2. pass'[d].pc = "answered"
    BY <1>1, <1>3 DEF TypeOK, Pass
  <2> QED
    BY <2>1, <2>2
<1>8. \A r \in DOMAIN out[d] : r \in Record /\ Ver(out[d][r]) \in Version(Nat)
  BY <1>1, InvTypes
<1>9. TakenOK(d)'
  <2> SUFFICES ASSUME NEW r \in Takes(out[d])
               PROVE  LET n == got'[d].taken[r]
                          t == server'[r]
                      IN  /\ r \in DOMAIN out[d] /\ n # 0 /\ n <= t.seq
                          /\ n # t.seq => t.seq > cursor[d]
                          /\ n = t.seq => Ver(t) = Ver(out[d][r])
                          /\ AtMost(Ver(out[d][r]), Ver(t))
    BY <1>3, <1>7 DEF TakenOK
  <2>1. r \in DOMAIN out[d] /\ r \in Record
    BY <1>8 DEF Takes
  <2>2. got'[d].taken[r] = server'[r].seq
    BY <1>5, <1>7, <2>1
  <2>3. /\ server'[r].seq > serverSeq /\ serverSeq \in Nat /\ server'[r].seq \in Nat
        /\ Ver(server'[r]) = Ver(out[d][r])
    BY <1>1, <1>5, <2>1 DEF TypeOK, Held
  <2> QED
    BY <1>8, <2>1, <2>2, <2>3, Order
<1>10. HeldOK(d)'
  <2> SUFFICES ASSUME NEW r \in DOMAIN out[d] \ Takes(out[d])
               PROVE  LET k == server[r]
                          t == server'[r]
                      IN  /\ k.hlc # HlcZero /\ k.seq # 0 /\ k.seq <= t.seq
                          /\ k.seq # t.seq => t.seq > cursor[d]
                          /\ k.seq = t.seq => Ver(t) = Ver(k)
                          /\ AtMost(Ver(k), Ver(t))
                          /\ r \in Fixed => ~k.deleted
    BY <1>3, <1>7 DEF HeldOK
  <2>1. r \in Record /\ server'[r] = server[r] /\ server[r].seq # 0
    BY <1>5, <1>8 DEF Takes
  <2>2. ServerOK(r) /\ Ver(server[r]) \in Version(Nat) /\ server[r].seq \in Nat
    BY <1>1, <2>1, InvTypes DEF Inv
  <2> QED
    BY <2>1, <2>2, Order DEF ServerOK
<1>11. PassOK(d)'
  <2>1. cursor[d] <= serverSeq /\ cursor[d] \in Nat /\ serverSeq \in Nat /\ serverSeq' \in Nat
    BY <1>1, InvTypes DEF Inv, PassOK, TypeOK
  <2> QED
    BY <1>3, <1>5, <1>7, <2>1 DEF PassOK
<1>12. \A e \in Device : RequestOK(e, out[e])'
  BY <1>1, <1>3, <1>5 DEF Inv, TypeOK
<1>13. \A m \in late' : RequestOK(m.from, m.batch)'
  BY <1>1, <1>3, <1>5 DEF Inv, TypeOK
<1> QED
  BY <1>1, <1>5, <1>6, <1>9, <1>10, <1>11, <1>12, <1>13 DEF Inv

LEMMA HandleLateInv ==
  ASSUME Inv, NEW m \in late, HandleLate(m)
  PROVE  Inv'
<1>1. TypeOK /\ TypeOK'
  BY NextType DEF Inv, Next
<1>2. PICK order \in Orders(m.batch) : ServerPush(m.batch, order)
  BY DEF HandleLate
<1>3. UNCHANGED <<row, clock, cursor, pass, out, got>> /\ late' = late \ {m}
  BY DEF HandleLate, store, engine
<1>4. m.from \in Device /\ IsSome(m.batch, Envelope) /\ RequestOK(m.from, m.batch)
  BY <1>1 DEF Inv, TypeOK
<1>5. /\ \A e \in Device : \A r \in Record : RowOK(e, r)'
      /\ \A r \in Record : ServerOK(r)'
      /\ \A e \in Device : \A c : IsSome(c, Envelope) /\ RequestOK(e, c) => RequestOK(e, c)'
      /\ \A e \in Device : OutOK(e)'
      /\ \A e \in Device : TakenOK(e)' /\ HeldOK(e)'
      /\ \A e \in Device : PassOK(e)'
  BY <1>2, <1>3, <1>4, PushInv
<1>6. \A e \in Device : RequestOK(e, out[e])'
  BY <1>1, <1>3, <1>5 DEF Inv, TypeOK
<1>7. \A k \in late' : RequestOK(k.from, k.batch)'
  BY <1>1, <1>3, <1>5 DEF Inv, TypeOK
<1> QED
  BY <1>1, <1>5, <1>6, <1>7 DEF Inv

\* Device d applies what an answer holds; e # d is left alone.
LEMMA ApplyInv ==
  ASSUME Inv, ClocksWithinDrift, NEW d \in Device, ApplyEnvelopes(d, got[d].held),
         out[d] = Nothing, UNCHANGED <<cursor, late, server, serverSeq, out>>, TypeOK'
  PROVE  /\ \A e \in Device : \A r \in Record : RowOK(e, r)'
         /\ \A r \in Record : ServerOK(r)'
         /\ \A e \in Device : RequestOK(e, out[e])' /\ OutOK(e)'
         /\ \A m \in late' : RequestOK(m.from, m.batch)'
         /\ \A e \in Device : \A r \in Record : \A c \in Nat :
              Seen(e, r, c) => ((c <= cursor[e] \/ e # d) => Seen(e, r, c)')
         /\ \A r \in DOMAIN got[d].held : got[d].held[r].seq = server[r].seq =>
              \A c \in Nat : Seen(d, r, c)'
         /\ \A r \in Record : r \notin DOMAIN got[d].held => row'[d][r] = row[d][r]
         /\ \A e \in Device : e # d => row'[e] = row[e]
         /\ \A r \in Record :
              /\ AtMost(Ver(row[d][r]), Ver(row'[d][r]))
              /\ Ver(row'[d][r]) = Ver(row[d][r]) \/ AtMost(Ver(row'[d][r]), Ver(server[r]))
              /\ row[d][r].dirty /\ ~row'[d][r].dirty => AtMost(Ver(row[d][r]), Ver(server[r]))
<1> DEFINE held == got[d].held
<1>1. TypeOK
  BY DEF Inv
<1>2. \A e \in Device : e # d => row'[e] = row[e] /\ clock'[e] = clock[e]
  BY <1>1 DEF ApplyEnvelopes, TypeOK
<1>3. \A r \in Record : r \notin DOMAIN held => row'[d][r] = row[d][r]
  BY <1>1 DEF ApplyEnvelopes, TypeOK
<1>4. \A r \in DOMAIN held : row'[d][r] = Applied(row[d][r], held[r])
  BY <1>1, InvTypes DEF ApplyEnvelopes, TypeOK
<1>5. \A r \in DOMAIN held :
        /\ r \in Record /\ held[r] \in Held /\ held[r].hlc # HlcZero
        /\ row[d][r] \in Row /\ (row[d][r].hlc = HlcZero => row[d][r] = NoRow)
  BY <1>1, InvTypes DEF Inv, HeldOK, RowOK
<1>6. ASSUME NEW r \in DOMAIN held
      PROVE  /\ AtMost(Ver(row[d][r]), Ver(row'[d][r]))
             /\ row'[d][r].hlc = HlcZero => row'[d][r] = NoRow
             /\ Ver(row'[d][r]) = Ver(row[d][r]) \/ Ver(row'[d][r]) = Ver(held[r])
             /\ row'[d][r] = NoRow => row[d][r] = NoRow /\ held[r].deleted
             /\ row'[d][r] # NoRow => row'[d][r].base = held[r].seq
                                      /\ AtMost(Ver(held[r]), Ver(row'[d][r]))
             /\ ~row'[d][r].dirty => Ver(row'[d][r]) = Ver(held[r])
                                     \/ (~row[d][r].dirty /\ Ver(row'[d][r]) = Ver(row[d][r]))
             /\ row[d][r].dirty /\ ~row'[d][r].dirty => AtMost(Ver(row[d][r]), Ver(held[r]))
             /\ row'[d][r].hlc = row[d][r].hlc \/ row'[d][r].hlc = held[r].hlc
             /\ row'[d][r].deleted => row[d][r].deleted \/ held[r].deleted
  BY <1>4, <1>5, <1>6, AppliedFacts
<1>7. \A e \in Device : \A r \in Record :
        /\ row[e][r] \in Row /\ row'[e][r] \in Row
        /\ Ver(row[e][r]) \in Version(Nat) /\ Ver(row'[e][r]) \in Version(Nat)
        /\ row[e][r].hlc \in Hlc(Nat) /\ row'[e][r].hlc \in Hlc(Nat)
  BY <1>1, VerTypes DEF TypeOK, Row
<1>8. \A e \in Device : \A r \in Record : AtMost(Ver(row[e][r]), Ver(row'[e][r]))
  BY <1>2, <1>3, <1>6, <1>7, Order
<1>9. \A r \in DOMAIN held :
        /\ held[r].seq # 0 /\ held[r].seq \in Nat /\ held[r].seq <= server[r].seq
        /\ held[r].seq # server[r].seq => server[r].seq > cursor[d]
        /\ held[r].seq = server[r].seq => Ver(server[r]) = Ver(held[r])
        /\ AtMost(Ver(held[r]), Ver(server[r]))
        /\ r \in Fixed => ~held[r].deleted
        /\ Ver(held[r]) \in Version(Nat) /\ held[r].hlc \in Hlc(Nat)
  BY <1>1, <1>5, InvTypes, VerTypes DEF Inv, HeldOK, Held
<1>10. \A e \in Device : \A k \in Hlc(Nat) : ~Before(clock[e], k) => ~Before(clock'[e], k)
  <2>1. CASE DOMAIN held = {}
    BY <2>1 DEF ApplyEnvelopes
  <2>2. CASE DOMAIN held # {}
    <3>1. PICK newest \in DOMAIN held, now \in Reading :
            clock' = [clock EXCEPT ![d] = MergeTime(@, held[newest].hlc, now)]
      BY <2>2 DEF ApplyEnvelopes
    <3>2. clock[d] \in Time /\ held[newest].hlc \in Hlc(Nat) /\ now \in Nat
      BY <1>1, <1>9, SyncAssumption DEF TypeOK
    <3>3. /\ clock'[d] = MergeTime(clock[d], held[newest].hlc, now)
          /\ clock'[d] \in Time /\ Before(clock[d], clock'[d])
      BY <1>1, <3>1, <3>2, MergeAdvances DEF TypeOK
    <3>4. \A k \in Hlc(Nat) : ~Before(clock[d], k) => ~Before(clock'[d], k)
      BY <3>2, <3>3 DEF Before, Time, Hlc
    <3> QED
      BY <1>2, <3>4
  <2> QED
    BY <2>1, <2>2
<1>11. \A r \in DOMAIN held : ~Before(clock'[d], held[r].hlc)
  <2> SUFFICES ASSUME NEW r \in DOMAIN held PROVE ~Before(clock'[d], held[r].hlc)
    OBVIOUS
  <2>1. PICK newest \in DOMAIN held, now \in Reading :
          /\ \A q \in DOMAIN held : ~HlcLess(held[newest].hlc, held[q].hlc)
          /\ held[newest].hlc.wall <= now + MaxDrift
          /\ clock' = [clock EXCEPT ![d] = MergeTime(@, held[newest].hlc, now)]
    BY DEF ApplyEnvelopes
  <2>2. clock[d] \in Time /\ held[newest].hlc \in Hlc(Nat) /\ now \in Nat
    BY <1>1, <1>9, SyncAssumption DEF TypeOK
  <2>3. clock'[d] \in Time /\ Before(held[newest].hlc, clock'[d])
    BY <1>1, <2>1, <2>2, MergeAdvances DEF TypeOK
  <2>4. held[r].hlc \in Hlc(Nat) /\ ~HlcLess(held[newest].hlc, held[r].hlc)
    BY <1>9, <2>1
  <2> QED
    BY <2>2, <2>3, <2>4 DEF HlcLess, Before, Time, Hlc
<1>12. \A e \in Device : \A r \in Record : RowOK(e, r)'
  <2> TAKE e \in Device
  <2> TAKE r \in Record
  <2>1. RowOK(e, r)
    BY DEF Inv
  <2>2. ~Before(clock'[e], row[e][r].hlc)
    BY <1>7, <1>10, <2>1 DEF RowOK
  <2>3. CASE row'[e][r] = row[e][r]
    BY <2>1, <2>2, <2>3 DEF RowOK
  <2>4. CASE e = d /\ r \in DOMAIN held
    <3> DEFINE y == row'[d][r]
    <3>1. /\ y.hlc = HlcZero => y = NoRow
          /\ ~Before(clock'[d], y.hlc)
          /\ r \in Fixed => ~y.deleted
      BY <1>6, <1>9, <1>11, <2>1, <2>2, <2>4 DEF RowOK
    <3>2. y = NoRow => y = row[d][r]
      BY <1>6, <2>4
    <3>3. y # NoRow => y.base <= serverSeq
      <4>1. server[r].seq <= serverSeq /\ server[r].seq \in Nat /\ serverSeq \in Nat
        BY <1>1, InvTypes DEF Inv, ServerOK
      <4> QED
        BY <1>6, <1>9, <2>4, <4>1
    <3>4. y # NoRow /\ y.base = server[r].seq => AtMost(Ver(server[r]), Ver(y))
      BY <1>6, <1>9, <2>4
    <3>5. ~y.dirty => AtMost(Ver(y), Ver(server[r]))
      BY <1>6, <1>9, <2>1, <2>4 DEF RowOK
    <3> HIDE DEF y
    <3>6. CASE y = NoRow
      BY <2>3, <2>4, <3>2, <3>6 DEF y
    <3>7. CASE y # NoRow
      BY <2>4, <3>1, <3>3, <3>4, <3>5, <3>7 DEF RowOK, y
    <3> QED
      BY <3>6, <3>7
  <2> QED
    BY <1>2, <1>3, <2>3, <2>4
<1>13. \A e \in Device : \A r \in Record : row[e][r] # NoRow => row'[e][r] # NoRow
  BY <1>2, <1>3, <1>6
<1>14. \A r \in Record : ServerOK(r)'
  BY <1>13 DEF Inv, ServerOK
<1>15. \A e \in Device : \A q \in Record : \A v \in Version(Nat) :
         AtMost(v, Ver(row[e][q])) => AtMost(v, Ver(row'[e][q]))
  BY <1>7, <1>8, Order
<1>16. \A m \in late' : RequestOK(m.from, m.batch)'
  BY <1>1, <1>15, InvTypes DEF Inv, RequestOK
<1>17. \A e \in Device : RequestOK(e, out[e])'
  BY <1>1, <1>15, InvTypes DEF Inv, RequestOK
<1>18. \A e \in Device : OutOK(e)'
  BY <1>2, NothingIsSome DEF Inv, OutOK
<1>19. \A r \in DOMAIN held : held[r].seq = server[r].seq => \A c \in Nat : Seen(d, r, c)'
  <2> SUFFICES ASSUME NEW r \in DOMAIN held, held[r].seq = server[r].seq
               PROVE  \/ row'[d][r] # NoRow /\ row'[d][r].base = server[r].seq
                      \/ row'[d][r] = NoRow /\ server[r].deleted
    BY DEF Seen
  <2>1. server[r].deleted = held[r].deleted
    BY <1>9 DEF Ver
  <2> QED
    BY <1>6, <2>1
<1>20. \A e \in Device : \A r \in Record : \A c \in Nat :
         Seen(e, r, c) => ((c <= cursor[e] \/ e # d) => Seen(e, r, c)')
  <2> SUFFICES ASSUME NEW e \in Device, NEW r \in Record, NEW c \in Nat, Seen(e, r, c),
                      c <= cursor[e] \/ e # d
               PROVE  Seen(e, r, c)'
    OBVIOUS
  <2>1. CASE row'[e][r] = row[e][r]
    BY <2>1 DEF Seen
  <2>2. CASE e = d /\ r \in DOMAIN held
    <3>1. CASE held[r].seq = server[r].seq
      BY <1>19, <2>2, <3>1
    <3>2. CASE held[r].seq # server[r].seq
      <4>1. server[r].seq > cursor[d] /\ server[r].seq \in Nat /\ cursor[d] \in Nat
        BY <1>1, <1>9, <3>2, <2>2, InvTypes
      <4> QED
        BY <2>2, <4>1 DEF Seen
    <3> QED
      BY <3>1, <3>2
  <2> QED
    BY <1>2, <1>3, <2>1, <2>2
<1>21. \A r \in Record :
         /\ Ver(row'[d][r]) = Ver(row[d][r]) \/ AtMost(Ver(row'[d][r]), Ver(server[r]))
         /\ row[d][r].dirty /\ ~row'[d][r].dirty => AtMost(Ver(row[d][r]), Ver(server[r]))
  <2> TAKE r \in Record
  <2>1. CASE r \notin DOMAIN held
    BY <1>3, <2>1
  <2>2. CASE r \in DOMAIN held
    <3>1. Ver(server[r]) \in Version(Nat)
      BY <1>1, InvTypes
    <3> QED
      BY <1>6, <1>7, <1>9, <2>2, <3>1, Order
  <2> QED
    BY <2>1, <2>2
<1> QED
  BY <1>2, <1>3, <1>8, <1>12, <1>14, <1>16, <1>17, <1>18, <1>19, <1>20, <1>21

\* Where a pass goes when a part of the push or the round is over.
LEMMA Handover ==
  ASSUME NEW p \in Pass
  PROVE  /\ AfterPush(p).pc \in {"push", "pull"}
         /\ RoundDone(p).pc \in {"push", "idle"}
         /\ [p EXCEPT !.pc = "pull"].pc = "pull"
         /\ [p EXCEPT !.pc = "push", !.moved = FALSE].pc = "push"
         /\ Idle.pc = "idle"
  BY DEF AfterPush, RoundDone, Idle, Pass

\* A device that asks for nothing and holds no answer owes nothing.
LEMMA Empty ==
  ASSUME NEW d \in Device
  PROVE  /\ out[d] = Nothing => RequestOK(d, out[d]) /\ OutOK(d)
         /\ got[d] = NoAnswer => /\ TakenOK(d) /\ HeldOK(d)
                                 /\ got[d].taken = Nothing /\ got[d].upto = 0
  BY NothingIsSome DEF RequestOK, OutOK, TakenOK, HeldOK, NoAnswer

\* Between two transactions, a pass is where it may be.
LEMMA PassBetween ==
  ASSUME NEW d \in Device,
         pass[d].pc \in {"idle", "push", "merge", "pull"},
         cursor[d] <= serverSeq, got[d].upto <= serverSeq,
         got[d].taken = Nothing, out[d] = Nothing,
         \A r \in Record : Seen(d, r, cursor[d])
  PROVE  PassOK(d)
  BY DEF PassOK

\* A step of d's pass that leaves the rows and the server alone.
LEMMA EngineInv ==
  ASSUME Inv, TypeOK', NEW d \in Device,
         UNCHANGED <<row, clock, server, serverSeq>>,
         \A e \in Device \ {d} : /\ out'[e] = out[e] /\ got'[e] = got[e]
                                 /\ pass'[e] = pass[e] /\ cursor'[e] = cursor[e],
         \A m \in late' : m \in late \/ (m.from = d /\ m.batch = out[d]),
         RequestOK(d, out[d])', OutOK(d)', TakenOK(d)', HeldOK(d)', PassOK(d)'
  PROVE  Inv'
<1>1. \A e \in Device : \A r \in Record : RowOK(e, r)'
  BY DEF Inv, RowOK
<1>2. \A r \in Record : ServerOK(r)'
  BY DEF Inv, ServerOK
<1>3. \A e \in Device \ {d} : RequestOK(e, out[e])' /\ OutOK(e)'
  BY DEF Inv, RequestOK, OutOK
<1>4. \A e \in Device \ {d} : TakenOK(e)'
  BY DEF Inv, TakenOK
<1>5. \A e \in Device \ {d} : HeldOK(e)'
  BY DEF Inv, HeldOK
<1>6. \A e \in Device \ {d} : PassOK(e)'
  BY DEF Inv, PassOK, Seen
<1>7. \A e \in Device : \A b : RequestOK(e, b) => RequestOK(e, b)'
  BY DEF RequestOK
<1>8. \A m \in late' : m.from \in Device /\ RequestOK(m.from, m.batch)
  BY DEF Inv, TypeOK
<1>9. \A m \in late' : RequestOK(m.from, m.batch)'
  BY <1>7, <1>8
<1> QED
  BY <1>1, <1>2, <1>3, <1>4, <1>5, <1>6, <1>9 DEF Inv

\* The steps of a pass that only decide where it goes next.
LEMMA ControlInv ==
  ASSUME Inv, NEW d \in Device,
         Start(d) \/ NothingToSend(d) \/ PullEmpty(d) \/ PullReset(d)
  PROVE  Inv'
<1>1. TypeOK /\ TypeOK'
  BY NextType DEF Inv, Next, PassStep
<1>2. UNCHANGED <<row, clock, server, serverSeq, late, out, got>>
  BY DEF Start, NothingToSend, PullEmpty, PullReset, store, remote
<1>3. \A e \in Device \ {d} : pass'[e] = pass[e] /\ cursor'[e] = cursor[e]
  BY <1>1 DEF Start, NothingToSend, PullEmpty, PullReset, store, TypeOK
<1>4. pass[d] \in Pass /\ pass[d].pc \in {"idle", "push", "pull"}
  BY <1>1 DEF Start, NothingToSend, PullEmpty, PullReset, TypeOK
<1>5. pass'[d].pc \in {"idle", "push", "pull"}
  <2>1. CASE Start(d)
    BY <1>1, <2>1 DEF Start, TypeOK, Idle
  <2>2. CASE NothingToSend(d)
    BY <1>1, <1>4, <2>2, Handover DEF NothingToSend, TypeOK
  <2>3. CASE PullEmpty(d)
    BY <1>1, <1>4, <2>3, Handover DEF PullEmpty, TypeOK
  <2>4. CASE PullReset(d)
    BY <1>1, <1>4, <2>4, Handover DEF PullReset, TypeOK
  <2> QED
    BY <2>1, <2>2, <2>3, <2>4
<1>6. cursor'[d] = cursor[d] \/ cursor'[d] = 0
  BY <1>1 DEF Start, NothingToSend, PullEmpty, PullReset, store, TypeOK
<1>7. PassOK(d) /\ RequestOK(d, out[d]) /\ OutOK(d) /\ TakenOK(d) /\ HeldOK(d)
  BY DEF Inv
<1>8. got[d].taken = Nothing /\ out[d] = Nothing /\ got[d].upto <= serverSeq
  BY <1>4, <1>7 DEF PassOK
<1>9. RequestOK(d, out[d])' /\ OutOK(d)'
  BY <1>2, <1>7 DEF RequestOK, OutOK
<1>10. TakenOK(d)'
  BY <1>2, <1>8, NothingIsSome DEF TakenOK
<1>11. HeldOK(d)'
  <2>1. \A r \in DOMAIN got[d].held : server[r].seq > cursor[d] => server[r].seq > cursor'[d]
    BY <1>1, <1>6, InvTypes
  <2> QED
    BY <1>2, <1>7, <2>1 DEF HeldOK
<1>12. PassOK(d)'
  <2>1. cursor'[d] <= serverSeq
    BY <1>1, <1>6, <1>7 DEF PassOK, TypeOK
  <2>2. \A r \in Record : Seen(d, r, cursor[d])'
    BY <1>1, <1>2, <1>6, <1>7, InvTypes DEF PassOK, Seen
  <2> QED
    BY <1>2, <1>5, <1>8, <2>1, <2>2 DEF PassOK
<1> QED
  BY <1>1, <1>2, <1>3, <1>9, <1>10, <1>11, <1>12, EngineInv

\* The pass is given up: by Abort, and its second push by RefuseApart.
LEMMA GiveUpInv ==
  ASSUME Inv, NEW d \in Device, RefuseApart(d) \/ Abort(d)
  PROVE  Inv'
<1>1. TypeOK /\ TypeOK'
  BY NextType DEF Inv, Next
<1>2. UNCHANGED <<row, clock, server, serverSeq, cursor>>
  BY DEF RefuseApart, Abort, store, remote
<1>3. /\ \A e \in Device \ {d} : out'[e] = out[e] /\ got'[e] = got[e] /\ pass'[e] = pass[e]
      /\ out'[d] = Nothing
      /\ got'[d] = got[d] \/ got'[d] = NoAnswer
  BY <1>1 DEF RefuseApart, Abort, TypeOK
<1>4. \A m \in late' : m \in late \/ (m.from = d /\ m.batch = out[d])
  BY DEF RefuseApart, Abort, remote
<1>5. pass'[d].pc \in {"idle", "push", "pull"}
  BY <1>1, Handover DEF RefuseApart, Abort, TypeOK
<1>6. PassOK(d) /\ TakenOK(d) /\ HeldOK(d)
  BY DEF Inv
<1>7. got'[d] = got[d] => got[d].taken = Nothing
  <2>1. CASE RefuseApart(d)
    BY <1>6, <2>1 DEF RefuseApart, PassOK
  <2>2. CASE Abort(d)
    BY <1>1, <2>2 DEF Abort, TypeOK, NoAnswer
  <2> QED
    BY <2>1, <2>2
<1>8. RequestOK(d, out[d])' /\ OutOK(d)'
  BY <1>3, NothingIsSome DEF RequestOK, OutOK
<1>9. got'[d].taken = Nothing /\ (got'[d].held = got[d].held \/ got'[d].held = Nothing)
      /\ got'[d].upto <= serverSeq
  <2>1. 0 <= serverSeq
    BY <1>1 DEF TypeOK
  <2> QED
    BY <1>3, <1>6, <1>7, <2>1 DEF NoAnswer, PassOK
<1>10. TakenOK(d)'
  BY <1>9, NothingIsSome DEF TakenOK
<1>11. HeldOK(d)'
  BY <1>2, <1>6, <1>9, NothingIsSome DEF HeldOK
<1>12. PassOK(d)'
  BY <1>2, <1>3, <1>5, <1>6, <1>9 DEF PassOK, Seen
<1> QED
  BY <1>1, <1>2, <1>3, <1>4, <1>8, <1>10, <1>11, <1>12, EngineInv

LEMMA SendInv ==
  ASSUME Inv, NEW d \in Device, Send(d)
  PROVE  Inv'
<1>1. TypeOK /\ TypeOK'
  BY NextType DEF Inv, Next, PassStep
<1>2. PICK R \in SUBSET Pending(d) :
        out' = [out EXCEPT ![d] =
                  [r \in R |-> [hlc |-> row[d][r].hlc, deleted |-> row[d][r].deleted,
                                base |-> row[d][r].base]]]
  BY DEF Send
<1>3. UNCHANGED <<row, clock, server, serverSeq, late, cursor, got>>
  BY DEF Send, store, remote
<1>4. \A e \in Device \ {d} : out'[e] = out[e] /\ pass'[e] = pass[e]
  BY <1>1, <1>2 DEF Send, TypeOK
<1>5. pass[d].pc = "push" /\ pass'[d].pc = "sent"
  BY <1>1 DEF Send, TypeOK, Pass
<1>6. PassOK(d) /\ HeldOK(d) /\ got[d].taken = Nothing
  BY <1>5 DEF Inv, PassOK
<1>7. out'[d] = [r \in R |-> [hlc |-> row[d][r].hlc, deleted |-> row[d][r].deleted,
                              base |-> row[d][r].base]]
  BY <1>1, <1>2 DEF TypeOK
<1>8. \A r \in R : /\ r \in Record /\ RowOK(d, r) /\ row[d][r] # NoRow
                   /\ Ver(row[d][r]) \in Version(Nat)
                   /\ Ver(out'[d][r]) = Ver(row[d][r])
                   /\ out'[d][r].hlc = row[d][r].hlc
                   /\ out'[d][r].base = row[d][r].base
                   /\ out'[d][r].deleted = row[d][r].deleted
  BY <1>1, <1>7, InvTypes DEF Inv, Pending, NoRow, Ver
<1>9. RequestOK(d, out[d])' /\ OutOK(d)'
  BY <1>3, <1>7, <1>8, Order DEF RequestOK, OutOK, RowOK
<1>10. TakenOK(d)' /\ HeldOK(d)'
  BY <1>3, <1>6, NothingIsSome DEF TakenOK, HeldOK
<1>11. PassOK(d)'
  BY <1>3, <1>5, <1>6 DEF PassOK, Seen
<1> QED
  BY <1>1, <1>3, <1>4, <1>9, <1>10, <1>11, EngineInv

LEMMA PullPageInv ==
  ASSUME Inv, NEW d \in Device, PullPage(d)
  PROVE  Inv'
<1>1. TypeOK /\ TypeOK'
  BY NextType DEF Inv, Next, PassStep
<1>2. PICK last \in Record :
        got' = [got EXCEPT ![d] =
                  [taken |-> Nothing,
                   held  |-> [r \in Page(cursor[d], server[last].seq) |-> server[r]],
                   upto  |-> server[last].seq,
                   more  |-> \E r \in Record : server[r].seq > server[last].seq]]
  BY DEF PullPage
<1>3. UNCHANGED <<row, clock, server, serverSeq, late, cursor, out>>
  BY DEF PullPage, store, remote
<1>4. \A e \in Device \ {d} : got'[e] = got[e] /\ pass'[e] = pass[e]
  BY <1>1, <1>2 DEF PullPage, TypeOK
<1>5. pass[d].pc = "pull" /\ pass'[d].pc = "page"
  BY <1>1 DEF PullPage, TypeOK, Pass
<1>6. PassOK(d) /\ out[d] = Nothing
  BY <1>5 DEF Inv, PassOK
<1>7. /\ got'[d].taken = Nothing
      /\ got'[d].held = [r \in Page(cursor[d], server[last].seq) |-> server[r]]
      /\ got'[d].upto = server[last].seq
  BY <1>1, <1>2 DEF TypeOK
<1>8. \A r \in Record : ServerOK(r) /\ Ver(server[r]) \in Version(Nat) /\ server[r].seq \in Nat
  BY <1>1, InvTypes DEF Inv
<1>9. RequestOK(d, out[d])' /\ OutOK(d)' /\ TakenOK(d)'
  BY <1>3, <1>6, <1>7, NothingIsSome DEF RequestOK, OutOK, TakenOK
<1>10. HeldOK(d)'
  <2> SUFFICES ASSUME NEW r \in Page(cursor[d], server[last].seq)
               PROVE  /\ server[r].hlc # HlcZero /\ server[r].seq # 0
                      /\ server[r].seq <= server[r].seq
                      /\ AtMost(Ver(server[r]), Ver(server[r]))
                      /\ r \in Fixed => ~server[r].deleted
    BY <1>3, <1>7 DEF HeldOK
  <2>1. r \in Record /\ server[r].seq > cursor[d] /\ cursor[d] \in Nat
    BY <1>1, InvTypes DEF Page
  <2> QED
    BY <1>8, <2>1, Order DEF ServerOK
<1>11. PassOK(d)'
  <2>1. \A r \in Record : server[r].seq > cursor[d] /\ server[r].seq <= server[last].seq =>
          r \in DOMAIN got'[d].held /\ got'[d].held[r].seq = server[r].seq
    BY <1>7 DEF Page
  <2>2. got'[d].upto <= serverSeq
    BY <1>7, <1>8 DEF ServerOK
  <2> QED
    BY <1>3, <1>5, <1>6, <1>7, <2>1, <2>2 DEF PassOK, Seen
<1> QED
  BY <1>1, <1>3, <1>4, <1>9, <1>10, <1>11, EngineInv

LEMMA MoveCursorInv ==
  ASSUME Inv, NEW d \in Device, MoveCursor(d)
  PROVE  Inv'
<1>1. TypeOK /\ TypeOK'
  BY NextType DEF Inv, Next, PassStep
<1>2. UNCHANGED <<row, clock, server, serverSeq, late, out>>
  BY DEF MoveCursor, remote
<1>3. \A e \in Device \ {d} : /\ got'[e] = got[e] /\ pass'[e] = pass[e]
                              /\ cursor'[e] = cursor[e]
  BY <1>1 DEF MoveCursor, TypeOK
<1>4. got'[d] = NoAnswer /\ (cursor'[d] = cursor[d] \/ cursor'[d] = got[d].upto)
  BY <1>1 DEF MoveCursor, TypeOK
<1>5. pass[d].pc = "cursor" /\ pass'[d].pc \in {"idle", "push", "pull"}
  BY <1>1, Handover DEF MoveCursor, TypeOK
<1>6. PassOK(d) /\ out[d] = Nothing
  BY <1>5 DEF Inv, PassOK
<1>7. RequestOK(d, out[d])' /\ OutOK(d)' /\ TakenOK(d)' /\ HeldOK(d)'
  BY <1>2, <1>4, <1>6, NothingIsSome DEF RequestOK, OutOK, TakenOK, HeldOK, NoAnswer
<1>8. PassOK(d)'
  <2>1. cursor'[d] <= serverSeq /\ 0 <= serverSeq
    BY <1>1, <1>4, <1>6 DEF PassOK, TypeOK
  <2>2. \A r \in Record : Seen(d, r, cursor[d])'
    BY <1>2, <1>4, <1>5, <1>6 DEF PassOK, Seen
  <2> QED
    BY <1>2, <1>4, <1>5, <1>6, <2>1, <2>2 DEF PassOK, NoAnswer
<1> QED
  BY <1>1, <1>2, <1>3, <1>7, <1>8, EngineInv

\* Only a row that is still what was sent is cleared, and then the server has
\* it: this is where the timestamp in mark_pushed is needed.
LEMMA MarkPushedInv ==
  ASSUME Inv, NEW d \in Device, MarkPushed(d)
  PROVE  /\ Inv'
         /\ \A e \in Device : \A r \in Record :
              /\ Ver(row'[e][r]) = Ver(row[e][r])
              /\ row[e][r].dirty /\ ~row'[e][r].dirty => AtMost(Ver(row[e][r]), Ver(server[r]))
         /\ UNCHANGED server
<1> DEFINE sent == {r \in DOMAIN got[d].taken : row[d][r].hlc = out[d][r].hlc}
<1>1. TypeOK /\ TypeOK'
  BY NextType DEF Inv, Next, PassStep
<1>2. UNCHANGED <<clock, cursor, late, server, serverSeq>>
  BY DEF MarkPushed, remote
<1>3. \A e \in Device \ {d} : /\ row'[e] = row[e] /\ out'[e] = out[e]
                              /\ got'[e] = got[e] /\ pass'[e] = pass[e]
  BY <1>1 DEF MarkPushed, TypeOK
<1>4. out'[d] = Nothing /\ got'[d] = [got[d] EXCEPT !.taken = Nothing]
  BY <1>1 DEF MarkPushed, TypeOK
<1>5. got'[d].taken = Nothing /\ got'[d].held = got[d].held /\ got'[d].upto = got[d].upto
  <2>1. IsAnswer(got[d])
    BY <1>1 DEF TypeOK
  <2> QED
    BY <1>4, <2>1 DEF IsAnswer
<1>6. pass[d].pc = "answered" /\ pass'[d].pc = "merge"
  <2>1. pass' = [pass EXCEPT ![d].pc = "merge", ![d].moved = sent # {}]
    BY DEF MarkPushed
  <2> HIDE DEF sent
  <2>2. \A b : [[pass[d] EXCEPT !.pc = "merge"] EXCEPT !.moved = b].pc = "merge"
    BY <1>1 DEF TypeOK, Pass
  <2>3. pass'[d] = [[pass[d] EXCEPT !.pc = "merge"] EXCEPT !.moved = sent # {}]
    BY <1>1, <2>1 DEF TypeOK
  <2> QED
    BY <2>2, <2>3 DEF MarkPushed
<1>7. \A r \in Record : row'[d][r] =
        IF r \in sent THEN [row[d][r] EXCEPT !.dirty = FALSE, !.base = got[d].taken[r]]
                      ELSE row[d][r]
  BY <1>1 DEF MarkPushed, TypeOK
<1>8. \A r \in sent :
        /\ r \in Record /\ r \in DOMAIN out[d]
        /\ row[d][r].hlc # HlcZero
        /\ Ver(row[d][r]) = Ver(out[d][r])
        /\ got[d].taken[r] <= server[r].seq
        /\ got[d].taken[r] # server[r].seq => server[r].seq > cursor[d]
        /\ got[d].taken[r] = server[r].seq => Ver(server[r]) = Ver(row[d][r])
        /\ AtMost(Ver(row[d][r]), Ver(server[r]))
  BY <1>1, InvTypes DEF Inv, TakenOK, OutOK, RequestOK
<1> HIDE DEF sent
<1>9. \A r \in sent :
        /\ row'[d][r].hlc = row[d][r].hlc /\ row'[d][r].deleted = row[d][r].deleted
        /\ ~row'[d][r].dirty /\ row'[d][r].base = got[d].taken[r]
        /\ Ver(row'[d][r]) = Ver(row[d][r])
        /\ row'[d][r] # NoRow
  <2> TAKE r \in sent
  <2>1. row[d][r] \in Row /\ r \in Record
    BY <1>1, <1>8, InvTypes
  <2>2. row'[d][r] = [row[d][r] EXCEPT !.dirty = FALSE, !.base = got[d].taken[r]]
    BY <1>7, <2>1
  <2>3. /\ row'[d][r].hlc = row[d][r].hlc /\ row'[d][r].deleted = row[d][r].deleted
        /\ ~row'[d][r].dirty /\ row'[d][r].base = got[d].taken[r]
    BY <2>1, <2>2 DEF Row
  <2>4. row'[d][r] # NoRow
    BY <1>8, <2>3 DEF NoRow
  <2> QED
    BY <2>3, <2>4 DEF Ver
<1>10. \A e \in Device : \A r \in Record :
         \/ row'[e][r] = row[e][r]
         \/ e = d /\ r \in sent
  BY <1>3, <1>7
<1>11. \A e \in Device : \A r \in Record :
         /\ Ver(row'[e][r]) = Ver(row[e][r])
         /\ row'[e][r].hlc = row[e][r].hlc
         /\ row[e][r] # NoRow => row'[e][r] # NoRow
         /\ row[e][r].dirty /\ ~row'[e][r].dirty => AtMost(Ver(row[e][r]), Ver(server[r]))
  BY <1>8, <1>9, <1>10
<1>12. \A e \in Device : \A r \in Record : RowOK(e, r)'
  <2> TAKE e \in Device
  <2> TAKE r \in Record
  <2>1. RowOK(e, r)
    BY DEF Inv
  <2>2. CASE row'[e][r] = row[e][r]
    BY <1>2, <2>1, <2>2 DEF RowOK
  <2>3. CASE e = d /\ r \in sent
    <3>1. got[d].taken[r] <= serverSeq
      <4>1. /\ server[r].seq <= serverSeq /\ got[d].taken[r] <= server[r].seq
            /\ server[r].seq \in Nat /\ serverSeq \in Nat
        BY <1>1, <1>8, <2>3, InvTypes DEF Inv, ServerOK
      <4>2. got[d].taken[r] \in Nat
        BY <1>1, <2>3, InvTypes DEF sent
      <4> QED
        BY <4>1, <4>2
    <3>2. got[d].taken[r] = server[r].seq => AtMost(Ver(server[r]), Ver(row[d][r]))
      BY <1>1, <1>8, <2>3, InvTypes, Order
    <3> QED
      BY <1>2, <1>8, <1>9, <2>1, <2>3, <3>1, <3>2 DEF RowOK
  <2> QED
    BY <1>10, <2>2, <2>3
<1>13. \A r \in Record : ServerOK(r)'
  BY <1>2, <1>11 DEF Inv, ServerOK
<1>14. \A e \in Device : \A b : IsSome(b, Envelope) /\ RequestOK(e, b) => RequestOK(e, b)'
  BY <1>2, <1>11, SomeDomain DEF RequestOK
<1>15. \A e \in Device : RequestOK(e, out[e])' /\ OutOK(e)'
  <2>1. RequestOK(d, out[d])' /\ OutOK(d)'
    BY <1>4, NothingIsSome DEF RequestOK, OutOK
  <2>2. \A e \in Device \ {d} : RequestOK(e, out[e])'
    BY <1>1, <1>3, <1>14 DEF Inv, TypeOK
  <2>3. \A e \in Device \ {d} : OutOK(e)'
    BY <1>2, <1>3 DEF Inv, OutOK
  <2> QED
    BY <2>1, <2>2, <2>3
<1>16. \A m \in late' : RequestOK(m.from, m.batch)'
  BY <1>1, <1>2, <1>14 DEF Inv, TypeOK
<1>17. \A e \in Device : TakenOK(e)' /\ HeldOK(e)'
  <2>1. TakenOK(d)' /\ HeldOK(d)'
    BY <1>2, <1>5, NothingIsSome DEF Inv, TakenOK, HeldOK
  <2>2. \A e \in Device \ {d} : TakenOK(e)' /\ HeldOK(e)'
    BY <1>2, <1>3 DEF Inv, TakenOK, HeldOK
  <2> QED
    BY <2>1, <2>2
<1>18. \A e \in Device : PassOK(e)'
  <2>1. \A r \in Record : Seen(d, r, cursor[d])'
    <3> TAKE r \in Record
    <3>1. Seen(d, r, cursor[d])
      BY DEF Inv, PassOK
    <3>2. CASE row'[d][r] = row[d][r]
      BY <1>2, <3>1, <3>2 DEF Seen
    <3>3. CASE r \in sent
      <4>1. server[r].seq <= cursor[d] => got[d].taken[r] = server[r].seq
        BY <1>1, <1>8, <3>3, InvTypes
      <4> QED
        BY <1>2, <1>9, <3>3, <4>1 DEF Seen
    <3> QED
      BY <1>10, <3>2, <3>3
  <2>2. PassOK(d)'
    BY <1>2, <1>4, <1>5, <1>6, <2>1 DEF Inv, PassOK
  <2>3. \A e \in Device \ {d} : PassOK(e)'
    BY <1>2, <1>3 DEF Inv, PassOK, Seen
  <2> QED
    BY <2>2, <2>3
<1> QED
  BY <1>1, <1>2, <1>11, <1>12, <1>13, <1>15, <1>16, <1>17, <1>18 DEF Inv

LEMMA MergeConflictsInv ==
  ASSUME Inv, ClocksWithinDrift, NEW d \in Device, MergeConflicts(d)
  PROVE  Inv'
<1>1. TypeOK /\ TypeOK'
  BY NextType DEF Inv, Next, PassStep
<1>2. UNCHANGED <<cursor, late, server, serverSeq, out>> /\ ApplyEnvelopes(d, got[d].held)
  BY DEF MergeConflicts, remote
<1>3. pass[d].pc = "merge" /\ out[d] = Nothing /\ PassOK(d)
  BY DEF Inv, MergeConflicts, PassOK
<1>4. /\ \A e \in Device : \A r \in Record : RowOK(e, r)'
      /\ \A r \in Record : ServerOK(r)'
      /\ \A e \in Device : RequestOK(e, out[e])' /\ OutOK(e)'
      /\ \A m \in late' : RequestOK(m.from, m.batch)'
      /\ \A e \in Device : \A r \in Record : \A c \in Nat :
           Seen(e, r, c) => ((c <= cursor[e] \/ e # d) => Seen(e, r, c)')
      /\ \A e \in Device : e # d => row'[e] = row[e]
  BY <1>1, <1>2, <1>3, ApplyInv
<1>5. /\ \A e \in Device \ {d} : got'[e] = got[e] /\ pass'[e] = pass[e]
      /\ got'[d] = NoAnswer
  BY <1>1 DEF MergeConflicts, TypeOK
<1>6. pass'[d].pc \in {"push", "pull"}
  <2> DEFINE p == [pass[d] EXCEPT !.clash = @ \/ DOMAIN got[d].held # {}]
  <2>1. pass[d] \in Pass /\ (pass[d].clash \/ DOMAIN got[d].held # {}) \in BOOLEAN
    BY <1>1 DEF TypeOK
  <2>2. p \in Pass
    BY <2>1, PassFields
  <2>3. pass'[d] = IF p.moved THEN [p EXCEPT !.pc = "push", !.moved = FALSE] ELSE AfterPush(p)
    BY <1>1 DEF MergeConflicts, TypeOK
  <2> HIDE DEF p
  <2> QED
    BY <2>2, <2>3, Handover
<1>7. \A e \in Device : \A r \in Record : Seen(e, r, cursor[e])'
  <2>1. \A e \in Device : \A r \in Record :
          Seen(e, r, cursor[e]) /\ cursor[e] \in Nat /\ cursor[e] <= cursor[e]
    BY <1>1, InvTypes DEF Inv, PassOK
  <2>2. \A e \in Device : \A r \in Record : \A c \in Nat : Seen(e, r, c) /\ c <= cursor[e] => Seen(e, r, c)'
    BY <1>4
  <2> QED
    BY <1>2, <2>1, <2>2 DEF Seen
<1>8. \A e \in Device : TakenOK(e)' /\ HeldOK(e)'
  <2>1. TakenOK(d)' /\ HeldOK(d)'
    BY <1>5, NothingIsSome DEF TakenOK, HeldOK, NoAnswer
  <2>2. \A e \in Device \ {d} : TakenOK(e)' /\ HeldOK(e)'
    BY <1>2, <1>5 DEF Inv, TakenOK, HeldOK
  <2> QED
    BY <2>1, <2>2
<1>9. \A e \in Device : PassOK(e)'
  <2>1. PassOK(d)'
    <3>1. 0 <= serverSeq
      BY <1>1 DEF TypeOK
    <3> QED
      BY <1>2, <1>3, <1>5, <1>6, <1>7, <3>1 DEF PassOK, NoAnswer
  <2>2. ASSUME NEW e \in Device \ {d} PROVE PassOK(e)'
    <3>1. \A r \in Record : \A c : Seen(e, r, c) => Seen(e, r, c)'
      BY <1>2, <1>4 DEF Seen
    <3> QED
      BY <1>2, <1>5, <1>7, <3>1 DEF Inv, PassOK, Seen
  <2> QED
    BY <2>1, <2>2
<1> QED
  BY <1>1, <1>4, <1>8, <1>9 DEF Inv

\* Once the page is in, the device has seen what it covers: the cursor may move.
LEMMA ApplyPageInv ==
  ASSUME Inv, ClocksWithinDrift, NEW d \in Device, ApplyPage(d)
  PROVE  Inv'
<1>1. TypeOK /\ TypeOK'
  BY NextType DEF Inv, Next, PassStep
<1>2. UNCHANGED <<cursor, late, server, serverSeq, out>> /\ ApplyEnvelopes(d, got[d].held)
  BY DEF ApplyPage, remote
<1>3. pass[d].pc = "page" /\ out[d] = Nothing /\ PassOK(d)
  BY DEF Inv, ApplyPage, PassOK
<1>4. /\ \A e \in Device : \A r \in Record : RowOK(e, r)'
      /\ \A r \in Record : ServerOK(r)'
      /\ \A e \in Device : RequestOK(e, out[e])' /\ OutOK(e)'
      /\ \A m \in late' : RequestOK(m.from, m.batch)'
      /\ \A e \in Device : \A r \in Record : \A c \in Nat :
           Seen(e, r, c) => ((c <= cursor[e] \/ e # d) => Seen(e, r, c)')
      /\ \A r \in DOMAIN got[d].held : got[d].held[r].seq = server[r].seq =>
           \A c \in Nat : Seen(d, r, c)'
      /\ \A e \in Device : e # d => row'[e] = row[e]
  BY <1>1, <1>2, <1>3, ApplyInv
<1>5. /\ \A e \in Device \ {d} : got'[e] = got[e] /\ pass'[e] = pass[e]
      /\ got'[d] = [got[d] EXCEPT !.held = Nothing]
  BY <1>1 DEF ApplyPage, TypeOK
<1>6. /\ got'[d].held = Nothing /\ got'[d].taken = got[d].taken
      /\ got'[d].upto = got[d].upto
  <2>1. IsAnswer(got[d])
    BY <1>1 DEF TypeOK
  <2> QED
    BY <1>5, <2>1 DEF IsAnswer
<1>7. pass'[d].pc = "cursor"
  BY <1>1 DEF ApplyPage, TypeOK, Pass
<1>8. \A e \in Device : \A r \in Record : Seen(e, r, cursor[e])'
  <2>1. \A e \in Device : \A r \in Record :
          Seen(e, r, cursor[e]) /\ cursor[e] \in Nat /\ cursor[e] <= cursor[e]
    BY <1>1, InvTypes DEF Inv, PassOK
  <2>2. \A e \in Device : \A r \in Record : \A c \in Nat : Seen(e, r, c) /\ c <= cursor[e] => Seen(e, r, c)'
    BY <1>4
  <2> QED
    BY <1>2, <2>1, <2>2 DEF Seen
<1>9. \A r \in Record : Seen(d, r, got[d].upto)'
  <2> TAKE r \in Record
  <2>1. server[r].seq \in Nat /\ cursor[d] \in Nat /\ got[d].upto \in Nat
    BY <1>1, InvTypes
  <2>2. CASE server[r].seq <= cursor[d]
    BY <1>2, <1>6, <1>8, <2>1, <2>2 DEF Seen
  <2>3. CASE server[r].seq > cursor[d] /\ server[r].seq <= got[d].upto
    <3>1. r \in DOMAIN got[d].held /\ got[d].held[r].seq = server[r].seq
      BY <1>3, <2>3 DEF PassOK
    <3>2. \A c \in Nat : Seen(d, r, c)'
      BY <1>4, <3>1
    <3> QED
      BY <1>6, <2>1, <3>2 DEF Seen
  <2>4. CASE server[r].seq > got[d].upto
    BY <1>2, <1>6, <2>1, <2>4 DEF Seen
  <2> QED
    BY <2>1, <2>2, <2>3, <2>4
<1>10. \A e \in Device : TakenOK(e)' /\ HeldOK(e)'
  <2>1. TakenOK(d)' /\ HeldOK(d)'
    BY <1>2, <1>3, <1>6, NothingIsSome DEF TakenOK, HeldOK, PassOK
  <2>2. \A e \in Device \ {d} : TakenOK(e)' /\ HeldOK(e)'
    BY <1>2, <1>5 DEF Inv, TakenOK, HeldOK
  <2> QED
    BY <2>1, <2>2
<1>11. \A e \in Device : PassOK(e)'
  <2>1. PassOK(d)'
    BY <1>2, <1>3, <1>6, <1>7, <1>8, <1>9 DEF PassOK
  <2>2. ASSUME NEW e \in Device \ {d} PROVE PassOK(e)'
    <3>1. \A r \in Record : \A c : Seen(e, r, c) => Seen(e, r, c)'
      BY <1>2, <1>4 DEF Seen
    <3> QED
      BY <1>2, <1>5, <1>8, <3>1 DEF Inv, PassOK, Seen
  <2> QED
    BY <2>1, <2>2
<1> QED
  BY <1>1, <1>4, <1>10, <1>11 DEF Inv

LEMMA UserInv ==
  ASSUME Inv, NEW d \in Device, UserStep(d)
  PROVE  /\ Inv'
         /\ UNCHANGED server
         /\ \E r \in Record :
              /\ Resolve(Ver(row[d][r]), Ver(row'[d][r])) = "Remote"
              /\ row'[d][r].dirty
              /\ \A e \in Device : \A q \in Record : e # d \/ q # r => row'[e][q] = row[e][q]
<1>1. PICK r \in Record : Create(d, r) \/ Edit(d, r) \/ Upsert(d, r) \/ Delete(d, r)
  BY DEF UserStep
<1>2. PICK del \in BOOLEAN : LocalWrite(d, r, del) /\ (r \in Fixed => ~del)
  BY <1>1 DEF Create, Edit, Upsert, Delete
<1>3. /\ ~row[d][r].deleted
      /\ row[d][r] = NoRow => r \in Fixed \/ \A e \in Device : row[e][r] = NoRow
  <2>1. ~NoRow.deleted
    BY DEF NoRow
  <2> QED
    BY <1>1, <2>1 DEF Create, Edit, Upsert, Delete, Live
<1>4. UNCHANGED server
  BY <1>2 DEF LocalWrite, remote
<1> QED
  BY <1>2, <1>3, <1>4, WriteInv

LEMMA NextInv == ClocksWithinDrift /\ Inv /\ [Next]_vars => Inv'
<1> SUFFICES ASSUME ClocksWithinDrift, Inv, [Next]_vars PROVE Inv'
  OBVIOUS
<1>1. CASE \E d \in Device : UserStep(d)
  BY <1>1, UserInv
<1>2. CASE \E d \in Device : PassStep(d)
  BY <1>2, ControlInv, SendInv, HandleInv, MarkPushedInv, MergeConflictsInv, PullPageInv,
     ApplyPageInv, MoveCursorInv DEF PassStep
<1>3. CASE \E d \in Device : RefuseApart(d) \/ PullReset(d) \/ Abort(d)
  BY <1>3, GiveUpInv, ControlInv
<1>4. CASE \E m \in late : HandleLate(m)
  BY <1>4, HandleLateInv
<1>5. CASE UNCHANGED vars
  BY <1>5 DEF vars, store, engine, remote, Inv, TypeOK, RowOK, ServerOK, RequestOK, OutOK,
     TakenOK, HeldOK, PassOK, Seen
<1> QED
  BY <1>1, <1>2, <1>3, <1>4, <1>5 DEF Next

------------------------------------------------------------------------------
(* Theorems                                                                 *)

(***************************************************************************)
(* The stores, the passes, the requests on their way and the server keep    *)
(* their shape: a timestamp's counter never exceeds its 32 bits, a pass     *)
(* never exceeds MAX_ROUNDS, an answer only speaks of records.              *)
(***************************************************************************)
THEOREM TypeCorrect == Spec => []TypeOK
<1>1. Init => TypeOK
  BY InitInv DEF Inv
<1> QED
  BY <1>1, NextType, PTL DEF Spec

(***************************************************************************)
(* The inductive invariant: what a row's base_seq, a request and an answer  *)
(* say about the server, whatever was handled in between.                   *)
(***************************************************************************)
THEOREM Invariance ==
  ASSUME ClocksWithinDrift
  PROVE  Spec => []Inv
<1>1. Inv /\ [Next]_vars => Inv'
  BY NextInv
<1> QED
  BY <1>1, InitInv, PTL DEF Spec

(***************************************************************************)
(* A device with nothing waiting and its cursor at the server's end holds   *)
(* what the server holds (base_seq, mark_pushed, apply_one), as long as no  *)
(* clock lags MAX_DRIFT_MS behind what its device receives.                 *)
(***************************************************************************)
THEOREM SettledAgree ==
  ASSUME ClocksWithinDrift
  PROVE  Spec => []SettledDevicesAgree
<1>1. ASSUME Inv PROVE SettledDevicesAgree
  <2> SUFFICES ASSUME NEW d \in Device, Settled(d), NEW r \in Record PROVE Agrees(d, r)
    BY DEF SettledDevicesAgree
  <2>1. RowOK(d, r) /\ ServerOK(r) /\ Seen(d, r, cursor[d]) /\ ~row[d][r].dirty
    BY <1>1 DEF Inv, PassOK, Settled
  <2>2. /\ Ver(row[d][r]) \in Version(Nat) /\ Ver(server[r]) \in Version(Nat)
        /\ server[r].seq \in Nat /\ server[r].seq <= cursor[d]
    BY <1>1, <2>1, InvTypes DEF Inv, ServerOK, Settled
  <2>3. AtMost(Ver(row[d][r]), Ver(server[r]))
    BY <2>1 DEF RowOK
  <2>4. CASE server[r].seq = 0
    BY <2>1, <2>2, <2>3, <2>4, AbsentIsLeast DEF ServerOK, Agrees
  <2>5. CASE row[d][r] # NoRow /\ row[d][r].base = server[r].seq
    <3>1. AtMost(Ver(server[r]), Ver(row[d][r]))
      BY <2>1, <2>5 DEF RowOK
    <3> QED
      BY <2>2, <2>3, <3>1, Order DEF Agrees
  <2>6. CASE row[d][r] = NoRow /\ server[r].deleted
    BY <2>6 DEF Agrees
  <2> QED
    BY <2>1, <2>2, <2>4, <2>5, <2>6 DEF Seen
<1> QED
  BY <1>1, Invariance, PTL

\* What a step does to the versions on the devices and on the server.
LEMMA StepFacts ==
  ASSUME ClocksWithinDrift, Inv, [Next]_vars
  PROVE  \/ /\ UNCHANGED server
            /\ \E d \in Device : \E r \in Record :
                 /\ Resolve(Ver(row[d][r]), Ver(row'[d][r])) = "Remote"
                 /\ row'[d][r].dirty
                 /\ \A e \in Device : \A q \in Record : e # d \/ q # r => row'[e][q] = row[e][q]
         \/ /\ UNCHANGED row
            /\ \E d \in Device : \A r \in Record :
                 /\ AtMost(Ver(server[r]), Ver(server'[r]))
                 /\ server'[r] = server[r] \/ AtMost(Ver(server'[r]), Ver(row[d][r]))
         \/ /\ UNCHANGED server
            /\ \E d \in Device :
                 /\ \A e \in Device : e # d => row'[e] = row[e]
                 /\ \A r \in Record :
                      /\ AtMost(Ver(row[d][r]), Ver(row'[d][r]))
                      /\ Ver(row'[d][r]) = Ver(row[d][r]) \/ AtMost(Ver(row'[d][r]), Ver(server[r]))
                      /\ row[d][r].dirty /\ ~row'[d][r].dirty =>
                           AtMost(Ver(row[d][r]), Ver(server[r]))
         \/ /\ UNCHANGED server
            /\ \A e \in Device : \A r \in Record :
                 /\ Ver(row'[e][r]) = Ver(row[e][r])
                 /\ row[e][r].dirty /\ ~row'[e][r].dirty =>
                      AtMost(Ver(row[e][r]), Ver(server[r]))
<1>1. TypeOK /\ TypeOK'
  BY NextType DEF Inv
<1>2. CASE \E d \in Device : UserStep(d)
  BY <1>2, UserInv
<1>3. CASE \E d \in Device : Handle(d)
  <2>1. PICK d \in Device : Handle(d)
    BY <1>3
  <2>2. PICK order \in Orders(out[d]) : ServerPush(out[d], order)
    BY <2>1 DEF Handle
  <2>3. IsSome(out[d], Envelope) /\ RequestOK(d, out[d]) /\ UNCHANGED <<row, clock, cursor>>
    BY <1>1, <2>1 DEF Inv, TypeOK, Handle, store
  <2>4. \A r \in Record : /\ AtMost(Ver(server[r]), Ver(server'[r]))
                          /\ server'[r] = server[r] \/ AtMost(Ver(server'[r]), Ver(row[d][r]))
    BY <2>2, <2>3, PushInv
  <2> QED
    BY <2>3, <2>4
<1>4. CASE \E m \in late : HandleLate(m)
  <2>1. PICK m \in late : HandleLate(m)
    BY <1>4
  <2>2. PICK order \in Orders(m.batch) : ServerPush(m.batch, order)
    BY <2>1 DEF HandleLate
  <2>3. /\ m.from \in Device /\ IsSome(m.batch, Envelope) /\ RequestOK(m.from, m.batch)
        /\ UNCHANGED <<row, clock, cursor>>
    BY <1>1, <2>1 DEF Inv, TypeOK, HandleLate, store
  <2>4. \A r \in Record : /\ AtMost(Ver(server[r]), Ver(server'[r]))
                          /\ server'[r] = server[r] \/ AtMost(Ver(server'[r]), Ver(row[m.from][r]))
    BY <2>2, <2>3, PushInv
  <2> QED
    BY <2>3, <2>4
<1>5. CASE \E d \in Device : MarkPushed(d)
  BY <1>5, MarkPushedInv
<1>6. CASE \E d \in Device : MergeConflicts(d) \/ ApplyPage(d)
  <2>1. PICK d \in Device : MergeConflicts(d) \/ ApplyPage(d)
    BY <1>6
  <2>2. /\ ApplyEnvelopes(d, got[d].held) /\ out[d] = Nothing
        /\ UNCHANGED <<cursor, late, server, serverSeq, out>>
    BY <2>1 DEF MergeConflicts, ApplyPage, remote, Inv, PassOK
  <2>3. /\ \A e \in Device : e # d => row'[e] = row[e]
        /\ \A r \in Record :
             /\ AtMost(Ver(row[d][r]), Ver(row'[d][r]))
             /\ Ver(row'[d][r]) = Ver(row[d][r]) \/ AtMost(Ver(row'[d][r]), Ver(server[r]))
             /\ row[d][r].dirty /\ ~row'[d][r].dirty => AtMost(Ver(row[d][r]), Ver(server[r]))
    BY <1>1, <2>2, ApplyInv
  <2> QED
    BY <2>2, <2>3
<1>7. CASE UNCHANGED <<row, server>>
  BY <1>7
<1>8. \/ \E d \in Device : \/ UserStep(d) \/ Handle(d) \/ MarkPushed(d)
                           \/ MergeConflicts(d) \/ ApplyPage(d)
      \/ \E m \in late : HandleLate(m)
      \/ UNCHANGED <<row, server>>
  BY DEF Next, PassStep, Start, Send, NothingToSend, PullPage, PullEmpty, MoveCursor,
     RefuseApart, PullReset, Abort, vars, store, remote
<1> QED
  BY <1>2, <1>3, <1>4, <1>5, <1>6, <1>7, <1>8

(***************************************************************************)
(* A local edit stops waiting only when the server has it or something that *)
(* beats it (mark_pushed, apply_one).                                       *)
(***************************************************************************)
THEOREM EditsSurvive ==
  ASSUME ClocksWithinDrift
  PROVE  Spec => NoEditIsLost
<1> DEFINE Lost == \A d \in Device : \A r \in Record :
                     row[d][r].dirty /\ ~row'[d][r].dirty => AtMost(Ver(row[d][r]), Ver(server[r]))
<1>1. Inv /\ [Next]_vars => Lost
  BY StepFacts
<1> QED
  BY <1>1, Invariance, PTL DEF Spec, NoEditIsLost

\* The abstract specification's order is the code's.
LEMMA SameOrder ==
  /\ \A u, v : Lww!Resolve(u, v) = Resolve(u, v)
  /\ \A u, v : Lww!AtMost(u, v) <=> AtMost(u, v)
  BY DEF Lww!Resolve, Lww!AtMost, Lww!HlcLess, Lww!Before, Resolve, AtMost, HlcLess, Before

(***************************************************************************)
(* Devices, server and network together are a last-writer-wins map: every   *)
(* step is a local write, the server taking on what a device holds, or a    *)
(* device learning what the server holds, and none moves a record back.     *)
(***************************************************************************)
THEOREM Refinement ==
  ASSUME ClocksWithinDrift
  PROVE  Spec => IsLwwMap
<1> DEFINE rep == [d \in Device |-> [r \in Record |-> Ver(row[d][r])]]
           mas == [r \in Record |-> Ver(server[r])]
<1>1. Init => Lww!Init
  BY DEF Init, Lww!Init, Lww!Absent, Ver, NoRow, NoRecord, HlcZero
<1>2. ASSUME Inv, [Next]_vars PROVE [Lww!Next]_<<rep, mas>>
  <2>1. CASE UNCHANGED server /\ \E d \in Device : \E r \in Record :
               /\ Resolve(Ver(row[d][r]), Ver(row'[d][r])) = "Remote"
               /\ \A e \in Device : \A q \in Record : e # d \/ q # r => row'[e][q] = row[e][q]
    <3>1. PICK d \in Device, r \in Record :
               /\ Resolve(Ver(row[d][r]), Ver(row'[d][r])) = "Remote"
               /\ \A e \in Device : \A q \in Record : e # d \/ q # r => row'[e][q] = row[e][q]
      BY <2>1
    <3>2. Lww!Write(d, r)
      BY <2>1, <3>1, SameOrder DEF Lww!Write, Lww!OthersKeep
    <3> QED
      BY <3>2 DEF Lww!Next
  <2>2. CASE UNCHANGED row /\ \E d \in Device : \A r \in Record :
               /\ AtMost(Ver(server[r]), Ver(server'[r]))
               /\ server'[r] = server[r] \/ AtMost(Ver(server'[r]), Ver(row[d][r]))
    <3>1. PICK d \in Device : \A r \in Record :
               /\ AtMost(Ver(server[r]), Ver(server'[r]))
               /\ server'[r] = server[r] \/ AtMost(Ver(server'[r]), Ver(row[d][r]))
      BY <2>2
    <3>2. Lww!Accept(d)
      BY <2>2, <3>1, SameOrder DEF Lww!Accept, Lww!RisesUpTo
    <3> QED
      BY <3>2 DEF Lww!Next
  <2>3. CASE UNCHANGED server /\ \E d \in Device :
               /\ \A e \in Device : e # d => row'[e] = row[e]
               /\ \A r \in Record :
                    /\ AtMost(Ver(row[d][r]), Ver(row'[d][r]))
                    /\ Ver(row'[d][r]) = Ver(row[d][r]) \/ AtMost(Ver(row'[d][r]), Ver(server[r]))
    <3>1. PICK d \in Device :
               /\ \A e \in Device : e # d => row'[e] = row[e]
               /\ \A r \in Record :
                    /\ AtMost(Ver(row[d][r]), Ver(row'[d][r]))
                    /\ Ver(row'[d][r]) = Ver(row[d][r]) \/ AtMost(Ver(row'[d][r]), Ver(server[r]))
      BY <2>3
    <3>2. Lww!Learn(d)
      BY <2>3, <3>1, SameOrder DEF Lww!Learn, Lww!RisesUpTo, Lww!OthersKeep
    <3> QED
      BY <3>2 DEF Lww!Next
  <2>4. CASE UNCHANGED server /\ \A e \in Device : \A r \in Record : Ver(row'[e][r]) = Ver(row[e][r])
    BY <2>4
  <2> QED
    BY <1>2, <2>1, <2>2, <2>3, <2>4, StepFacts
<1> QED
  BY <1>1, <1>2, Invariance, PTL DEF Spec, IsLwwMap, Lww!Spec

==============================================================================
