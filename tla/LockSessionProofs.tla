-------------------------- MODULE LockSessionProofs --------------------------
(***************************************************************************)
(* Proofs about LockSession, for any number of grants, spaces, commands and *)
(* events.                                                                  *)
(***************************************************************************)
EXTENDS LockSession, TLAPS

------------------------------------------------------------------------------
(* The inductive invariant                                                  *)

Server == [space : 0..MaxSpaces, made : 0..MaxSpaces, issued : 0..MaxGrants, off : BOOLEAN,
           refresh : SUBSET Grant, access : SUBSET Grant, holds : [Space -> 0..MaxSpaces]]

Store == [active : BOOLEAN, token : 0..MaxGrants, space : 0..MaxSpaces, left : SUBSET Space,
          dirty : BOOLEAN]

Connection == [tokens : BOOLEAN, refresh : 0..MaxGrants, access : 0..MaxGrants, fresh : BOOLEAN,
               space : 0..MaxSpaces]

Place == {"idle", "conn", "publish", "got", "token", "refresh", "asked", "refused", "keep", "send",
          "mark", "listening", "out", "uncache"}

Task == [pc : Place, lock : 0..4, req : {"none", "space", "auth", "renew"}, stale : 0..MaxGrants,
         tried : BOOLEAN, grant : 0..MaxGrants, env : 0..MaxSpaces,
         out : {"none", "ok", "error", "off", "signin", "stopped", "logout", "refused"}]

Asking == [pc : {"idle", "join", "start", "leave"}, grant : 0..MaxGrants, space : 0..MaxSpaces,
           shown : -1..MaxSpaces]

Mutex == [Lock -> Thread \cup {"none"}]
Flags == [unlocked : BOOLEAN, refused : BOOLEAN, off : BOOLEAN]
Count == [commands : Nat, events : Nat]
Reason == {"lost", "told", "twice", "marked"}

Typed ==
  /\ server \in Server /\ store \in Store
  /\ locks \in [Lock -> Connection] /\ cached \in 0..4
  /\ refreshing \in Mutex
  /\ thread \in [Thread -> Task] /\ cmd \in Asking
  /\ app \in Flags /\ why \in SUBSET Reason /\ spent \in Count

\* What may have cost the session, and what may have cost the token on disk.
Lost   == "lost" \in why \/ "twice" \in why
Blamed == Lost \/ "told" \in why

\* Where a thread stands on a connection, and where it holds its mutex.
Connected == {"publish", "got", "token", "refresh", "asked", "refused", "keep", "send", "mark",
              "listening"}
Holding == {"asked", "refused", "keep"}

\* Connections somebody refers to; the others are gone.
InUse(l) == l # 0 /\ (l = cached \/ \E p \in Thread : l = thread[p].lock)

\* A space that is not the account's any more, and in the model never will be again
\* (Rekey only goes on to new ones).
Past(s) == s \in 1..server.made /\ s # server.space

\* A token that no connection has and the device has not kept.
New(g) == /\ g # 0 /\ g # store.token
          /\ \A l \in Lock : locks[l].refresh # g

Good(g) == Lost \/ g \in server.refresh

\* A thread: its connection, the mutex it holds, the token it exchanges, the space
\* it has sealed for, the record it has pushed, the grant it got and the outcome.
Stands(p) ==
  /\ thread[p].pc \in Connected => thread[p].lock # 0
  /\ thread[p].pc \in {"idle", "conn"} => thread[p].lock = 0 /\ thread[p].env = 0
  /\ thread[p].pc \in Holding => refreshing[thread[p].lock] = p
  /\ thread[p].pc \in {"asked", "refused"} => thread[p].grant = locks[thread[p].lock].refresh

Seals(p) ==
  /\ thread[p].env # 0 /\ thread[p].pc \in Connected =>
       \/ locks[thread[p].lock].space = thread[p].env
       \/ Past(locks[thread[p].lock].space)
  /\ thread[p].pc = "mark" => /\ thread[p].env \in 1..server.made
                              /\ server.holds[thread[p].env] = thread[p].env

Keeps(p) ==
  thread[p].pc = "keep" =>
    /\ New(thread[p].grant) /\ thread[p].grant <= server.issued
    /\ thread[p].grant # cmd.grant
    /\ \A q \in Thread : q # p /\ thread[q].pc = "keep" => thread[q].grant # thread[p].grant
    /\ Good(thread[p].grant)

ThreadOK(p) ==
  /\ Stands(p) /\ Seals(p) /\ Keeps(p)
  /\ thread[p].out \in {"signin", "logout"} => Blamed

\* A connection: gone, or with a token that works or is being exchanged on it.
LockOK(l) ==
  /\ ~InUse(l) => locks[l] = NoLock
  /\ InUse(l) => /\ locks[l].space # 0 /\ locks[l].refresh # 0
                 /\ locks[l].tokens \/ Blamed
                 /\ \/ Good(locks[l].refresh)
                    \/ \E p \in Thread : thread[p].pc = "keep" /\ thread[p].lock = l
  /\ locks[l].refresh <= server.issued
  /\ locks[l].space \in {0, store.space} \/ Past(locks[l].space)

\* The spaces of the account, the device and the command.
SpaceOK ==
  /\ server.space <= server.made /\ store.space <= server.made /\ cmd.space <= server.made
  /\ store.active => store.space # 0
  /\ store.left \subseteq 1..server.made
  /\ cmd.pc = "join" => /\ store.space \in {0, cmd.space} \/ Past(store.space)
                        /\ cmd.space # 0 /\ cmd.space \notin store.left
  /\ cmd.pc = "start" => cmd.space = store.space /\ cmd.space # 0
  /\ "told" \notin why => /\ server.space # 0
                          /\ store.space \in {0, server.space}
                          /\ cmd.pc \in {"join", "start"} => cmd.space = server.space
                          /\ \A l \in Lock : InUse(l) => locks[l].space = server.space

HoldsOK ==
  /\ \A s \in Space : server.holds[s] \in {0, s}
  /\ store.space # 0 /\ ~store.dirty /\ "marked" \notin why
       => server.holds[store.space] = store.space

\* The tokens of the device and the command.
TokenOK ==
  /\ server.refresh \subseteq 1..server.issued
  /\ store.token <= server.issued /\ cmd.grant <= server.issued
  /\ ~store.active => store.token = 0
  /\ store.active /\ store.token = 0 => Blamed
  /\ cmd.pc = "join" => New(cmd.grant) /\ Good(cmd.grant)
  /\ cmd.pc = "start" => /\ cmd.grant # 0 /\ Good(cmd.grant)
                         /\ Lost \/ \A l \in Lock : locks[l].refresh # cmd.grant
  /\ ~Lost => \A k, l \in Lock : k # l /\ locks[k].refresh # 0 => locks[k].refresh # locks[l].refresh
  /\ store.token # 0 =>
       \/ Good(store.token)
       \/ \E p \in Thread : /\ thread[p].pc = "keep"
                            /\ locks[thread[p].lock].refresh = store.token

Inv ==
  /\ Typed
  /\ \A p \in Thread : ThreadOK(p)
  /\ \A l \in Lock : LockOK(l)
  /\ SpaceOK /\ HoldsOK /\ TokenOK

------------------------------------------------------------------------------
(* What the operators of LockSession give                                   *)

\* The bounds are natural numbers.
LEMMA Bounds == MaxGrants \in Nat /\ MaxSpaces \in Nat /\ MaxGrants >= 1 /\ MaxSpaces >= 1
BY LockSessionAssumption

\* The idle values are of their types.
LEMMA IdleTyped == NoLock \in Connection /\ AtEase \in Task /\ NoCmd \in Asking
BY Bounds DEF NoLock, AtEase, NoCmd, Connection, Task, Asking, Place

\* There is always room for another connection (connection() makes one whenever
\* none is cached).
LEMMA FreeLock ==
  ASSUME Typed
  PROVE  (CHOOSE k \in Free : TRUE) \in Lock /\ ~InUse(CHOOSE k \in Free : TRUE)
<1>1. thread["pass"].lock \in 0..4 /\ thread["live"].lock \in 0..4 /\ cached \in 0..4
  BY DEF Typed, Task, Thread
<1>2. \E k \in Lock : k # cached /\ k # thread["pass"].lock /\ k # thread["live"].lock
  <2>1. 1 \in Lock /\ 2 \in Lock /\ 3 \in Lock /\ 4 \in Lock BY DEF Lock
  <2> QED BY <1>1, <2>1
<1>3. \E k \in Free : TRUE BY <1>2 DEF Free, Thread
<1>4. (CHOOSE k \in Free : TRUE) \in Free BY <1>3
<1> QED BY <1>4 DEF Free, InUse, Lock

\* A connection of a thread that stands on one is one of the four, and in use.
LEMMA OnALock ==
  ASSUME Typed, NEW p \in Thread, ThreadOK(p), thread[p].pc \in Connected
  PROVE  thread[p].lock \in Lock /\ InUse(thread[p].lock) /\ Mine(p) = locks[thread[p].lock]
BY DEF Typed, ThreadOK, Stands, Task, Lock, InUse, Mine

\* A step of one thread that changes nothing but where the thread stands, and the
\* mutexes, on the connection it had: with a connection of its own only after it
\* had none, and no grant in its hands before or after.
LEMMA ThreadStep ==
  ASSUME Inv, NEW p \in Thread, ThreadOK(p)',
         thread' \in [Thread -> Task], \A q \in Thread : q # p => thread'[q] = thread[q],
         refreshing' \in Mutex,
         \A q \in Thread : q # p /\ thread[q].pc \in Holding => refreshing'[thread[q].lock] = q,
         thread[p].pc # "keep", thread'[p].pc # "keep",
         \/ thread'[p].lock = thread[p].lock
         \/ thread[p].lock = 0 /\ thread'[p].lock = cached,
         UNCHANGED <<server, store, locks, cached, cmd, app, why>>, spent' \in Count
  PROVE  Inv'
<1>1. Typed' BY DEF Inv, Typed
<1>2. \A l : InUse(l)' <=> InUse(l)
  BY DEF InUse, Inv, Typed
<1>3. \A q \in Thread : ThreadOK(q)'
  <2> SUFFICES ASSUME NEW q \in Thread, q # p PROVE ThreadOK(q)' OBVIOUS
  <2>1. ThreadOK(q) BY DEF Inv
  <2> QED BY <2>1 DEF ThreadOK, Stands, Seals, Keeps, Blamed, Lost, New, Good, Past, Inv
<1>4. \A l \in Lock : LockOK(l)'
  <2> TAKE l \in Lock
  <2>1. LockOK(l) BY DEF Inv
  <2> QED BY <2>1, <1>2 DEF LockOK, Good, Lost, Blamed, Past
<1>5. SpaceOK' /\ HoldsOK'
  BY <1>2 DEF Inv, SpaceOK, HoldsOK, Past
<1>6. TokenOK' BY DEF Inv, TokenOK, New, Good, Lost, Blamed
<1> QED BY <1>1, <1>3, <1>4, <1>5, <1>6 DEF Inv

------------------------------------------------------------------------------
(* Steps that only move a thread                                            *)

\* An event and a command are counted.
LEMMA Counted == ASSUME Typed, Event \/ Asks \/ UNCHANGED spent PROVE spent' \in Count
BY DEF Typed, Event, Asks, Count

\* A thread takes one step of its own.
LEMMA Moved ==
  ASSUME Typed, NEW p \in Thread, NEW t \in Task, thread' = [thread EXCEPT ![p] = t]
  PROVE  /\ thread' \in [Thread -> Task] /\ \A q \in Thread : q # p => thread'[q] = thread[q]
         /\ thread'[p] = t
BY DEF Typed

\* A thread goes to another place with another grant, or with all it has.
LEMMA MovedTo ==
  ASSUME Typed, NEW p \in Thread, NEW pc \in Place, NEW r \in 0..MaxGrants,
         thread' = [thread EXCEPT ![p].pc = pc, ![p].grant = r]
  PROVE  /\ thread' \in [Thread -> Task] /\ \A q \in Thread : q # p => thread'[q] = thread[q]
         /\ thread'[p].pc = pc /\ thread'[p].grant = r
         /\ thread'[p].lock = thread[p].lock /\ thread'[p].out = thread[p].out
         /\ thread'[p].env = thread[p].env
<1> DEFINE t == [thread[p] EXCEPT !.pc = pc, !.grant = r]
<1>1. thread[p] \in Task BY DEF Typed
<1>2. t \in Task /\ t.pc = pc /\ t.grant = r /\ t.lock = thread[p].lock
      /\ t.out = thread[p].out /\ t.env = thread[p].env
  BY <1>1 DEF Task
<1>3. thread' = [thread EXCEPT ![p] = t] BY DEF Typed
<1> HIDE DEF t
<1> QED BY <1>2, <1>3, Moved

\* A thread that only goes on to the next place.
LEMMA GoneTo ==
  ASSUME Typed, NEW p \in Thread, NEW pc \in Place, thread' = [thread EXCEPT ![p].pc = pc]
  PROVE  /\ thread' \in [Thread -> Task] /\ \A q \in Thread : q # p => thread'[q] = thread[q]
         /\ thread'[p].pc = pc /\ thread'[p].grant = thread[p].grant
         /\ thread'[p].lock = thread[p].lock /\ thread'[p].out = thread[p].out
         /\ thread'[p].env = thread[p].env
<1> DEFINE t == [thread[p] EXCEPT !.pc = pc]
<1>1. thread[p] \in Task BY DEF Typed
<1>2. t \in Task /\ t.pc = pc /\ t.grant = thread[p].grant /\ t.lock = thread[p].lock
      /\ t.out = thread[p].out /\ t.env = thread[p].env
  BY <1>1 DEF Task
<1>3. thread' = [thread EXCEPT ![p] = t] BY DEF Typed
<1> HIDE DEF t
<1> QED BY <1>2, <1>3, Moved

\* How a thread ends: with its outcome, on the connection it had.
LEMMA EndsAt ==
  ASSUME Typed, NEW p \in Thread,
         NEW o \in {"ok", "error", "off", "signin", "stopped", "logout", "refused"}, Ends(p, o)
  PROVE  /\ thread' \in [Thread -> Task] /\ \A q \in Thread : q # p => thread'[q] = thread[q]
         /\ thread'[p].pc = "out" /\ thread'[p].lock = thread[p].lock
         /\ thread'[p].out = o /\ thread'[p].env = 0
BY IdleTyped DEF Ends, Typed, AtEase, Task, Place

\* A thread that ends, for a reason if it gives the session up, and lets its mutex
\* go if it held it.
LEMMA EndStep ==
  ASSUME Inv, NEW p \in Thread,
         NEW o \in {"ok", "error", "off", "signin", "stopped", "logout", "refused"}, Ends(p, o),
         o \in {"signin", "logout"} => Blamed, thread[p].pc # "keep",
         UNCHANGED refreshing \/ (thread[p].pc \in Holding /\ Release(p)),
         UNCHANGED <<server, store, locks, cached, cmd, app, why>>, spent' \in Count
  PROVE  Inv'
<1> USE DEF Inv
<1>1. Typed /\ ThreadOK(p) OBVIOUS
<1>2. /\ thread' \in [Thread -> Task] /\ \A q \in Thread : q # p => thread'[q] = thread[q]
      /\ thread'[p].pc = "out" /\ thread'[p].lock = thread[p].lock
      /\ thread'[p].out = o /\ thread'[p].env = 0
  BY <1>1, EndsAt
<1>3. ThreadOK(p)'
  BY <1>2 DEF ThreadOK, Stands, Seals, Keeps, Holding, Connected, Blamed, Lost
<1>4. refreshing' \in Mutex BY <1>1 DEF Typed, Mutex, Release
<1>5. \A q \in Thread : q # p /\ thread[q].pc \in Holding => refreshing'[thread[q].lock] = q
  <2> SUFFICES ASSUME NEW q \in Thread, q # p, thread[q].pc \in Holding
               PROVE  refreshing'[thread[q].lock] = q OBVIOUS
  <2>1. ThreadOK(q) OBVIOUS
  <2>2. thread[q].lock \in Lock /\ refreshing[thread[q].lock] = q
    BY <1>1, <2>1, OnALock DEF ThreadOK, Stands, Holding, Connected
  <2>3. CASE UNCHANGED refreshing BY <2>2, <2>3
  <2>4. CASE thread[p].pc \in Holding /\ Release(p)
    <3>1. refreshing[thread[p].lock] = p BY <1>1, <2>4 DEF ThreadOK, Stands
    <3> QED BY <2>2, <2>4, <3>1, <1>1 DEF Release, Typed, Mutex
  <2> QED BY <2>3, <2>4
<1> HIDE DEF Inv
<1> QED BY <1>2, <1>3, <1>4, <1>5, ThreadStep

\* The mutex is given to a thread that stands on the connection and nobody holds it.
LEMMA ExchangeStep ==
  ASSUME Inv, NEW p \in Thread, Exchange(p), thread[p].pc \in {"token", "refresh"},
         UNCHANGED <<server, store, locks, cached, cmd, app, why, spent>>
  PROVE  Inv'
<1> USE DEF Inv
<1>1. Typed /\ ThreadOK(p) OBVIOUS
<1>2. thread[p].lock \in Lock /\ Mine(p) = locks[thread[p].lock]
  BY <1>1, OnALock DEF Connected
<1>3. /\ thread' \in [Thread -> Task] /\ \A q \in Thread : q # p => thread'[q] = thread[q]
      /\ thread'[p].pc = "asked" /\ thread'[p].lock = thread[p].lock
      /\ thread'[p].grant = locks[thread[p].lock].refresh
      /\ thread'[p].out = thread[p].out /\ thread'[p].env = thread[p].env
  <2>1. locks[thread[p].lock].refresh \in 0..MaxGrants BY <1>1, <1>2 DEF Typed, Connection
  <2>2. thread' = [thread EXCEPT ![p].pc = "asked", ![p].grant = locks[thread[p].lock].refresh]
    BY <1>2 DEF Exchange
  <2>3. "asked" \in Place BY DEF Place
  <2> QED BY <1>1, <2>1, <2>2, <2>3, MovedTo, ZenonT(60)
<1>4. refreshing' \in Mutex /\ refreshing'[thread[p].lock] = p
  BY <1>1, <1>2 DEF Exchange, Typed, Mutex
<1>5. \A q \in Thread : q # p /\ thread[q].pc \in Holding => refreshing'[thread[q].lock] = q
  <2> SUFFICES ASSUME NEW q \in Thread, q # p, thread[q].pc \in Holding
               PROVE  refreshing'[thread[q].lock] = q OBVIOUS
  <2>1. ThreadOK(q) OBVIOUS
  <2>2. thread[q].lock \in Lock /\ refreshing[thread[q].lock] = q
    BY <1>1, <2>1, OnALock DEF ThreadOK, Stands, Holding, Connected
  <2>3. refreshing[thread[p].lock] = "none" BY DEF Exchange, OneAtATime
  <2>4. q # "none" BY DEF Thread
  <2> QED BY <2>2, <2>3, <2>4, <1>1, <1>2 DEF Exchange, Typed, Mutex
<1>6. ThreadOK(p)'
  BY <1>1, <1>3, <1>4 DEF ThreadOK, Stands, Seals, Keeps, Holding, Connected, Blamed, Lost, Past
<1>7. spent' \in Count BY DEF Typed
<1> HIDE DEF Inv
<1> QED BY <1>3, <1>4, <1>5, <1>6, <1>7, ThreadStep

\* A thread goes on, on the connection it has, with no mutex.
LEMMA GoStep ==
  ASSUME Inv, NEW p \in Thread, thread[p].pc \in Connected \ {"keep"},
         thread' \in [Thread -> Task], \A q \in Thread : q # p => thread'[q] = thread[q],
         thread'[p].pc \in Connected \ (Holding \cup {"mark"}),
         thread'[p].lock = thread[p].lock, thread'[p].env \in {0, thread[p].env},
         thread'[p].out \in {"none", thread[p].out},
         UNCHANGED <<server, store, locks, cached, refreshing, cmd, app, why>>, spent' \in Count
  PROVE  Inv'
<1>1. Typed /\ ThreadOK(p) BY DEF Inv
<1>2. ThreadOK(p)'
  BY <1>1 DEF ThreadOK, Stands, Seals, Keeps, Holding, Connected, Blamed, Lost, Past
<1>3. refreshing' \in Mutex /\ \A q \in Thread : thread[q].pc \in Holding => refreshing'[thread[q].lock] = q
  BY <1>1 DEF Inv, Typed, ThreadOK, Stands
<1> QED BY <1>2, <1>3, ThreadStep DEF Connected, Holding

\* access_token: nothing is taken from a connection without tokens, for a reason.
LEMMA TokenStep == ASSUME Inv, NEW p \in Thread, Token(p) PROVE Inv'
<1> USE DEF Token, At
<1>1. Typed /\ ThreadOK(p) BY DEF Inv
<1>2. thread[p].lock \in Lock /\ InUse(thread[p].lock) /\ Mine(p) = locks[thread[p].lock]
  BY <1>1, OnALock DEF Connected
<1>3. spent' \in Count BY <1>1, Counted
<1>4. CASE ~Mine(p).tokens /\ Ends(p, "signin") /\ UNCHANGED refreshing
  <2>1. Blamed BY <1>2, <1>4 DEF Inv, LockOK
  <2> QED BY <1>3, <1>4, <2>1, EndStep
<1>5. CASE /\ thread' = [thread EXCEPT ![p].pc = "send", ![p].grant = Mine(p).access]
           /\ UNCHANGED refreshing
  <2>1. locks[thread[p].lock].access \in 0..MaxGrants BY <1>1, <1>2 DEF Typed, Connection
  <2>2. "send" \in Place BY DEF Place
  <2>3. /\ thread' \in [Thread -> Task] /\ \A q \in Thread : q # p => thread'[q] = thread[q]
        /\ thread'[p].pc = "send" /\ thread'[p].lock = thread[p].lock
        /\ thread'[p].out = thread[p].out /\ thread'[p].env = thread[p].env
    BY <1>1, <1>2, <1>5, <2>1, <2>2, MovedTo
  <2> QED BY <1>3, <1>5, <2>3, GoStep DEF Connected, Holding
<1>6. CASE Exchange(p) BY <1>6, ExchangeStep
<1> QED BY <1>4, <1>5, <1>6

\* Where a refresh goes on to.
LEMMA RefreshedAt ==
  ASSUME Typed, NEW p \in Thread, NEW g \in 0..MaxGrants, Refreshed(p, g)
  PROVE  /\ thread' \in [Thread -> Task] /\ \A q \in Thread : q # p => thread'[q] = thread[q]
         /\ thread'[p].pc \in {"got", "token", "send"} /\ thread'[p].lock = thread[p].lock
         /\ thread'[p].out = thread[p].out /\ thread'[p].env = thread[p].env
<1> DEFINE pc == IF thread[p].req = "renew" THEN "got" ELSE IF thread[p].stale # 0 THEN "token" ELSE "send"
<1>1. pc \in Place /\ pc \in {"got", "token", "send"} BY DEF Place
<1>2. thread' = [thread EXCEPT ![p].pc = pc, ![p].grant = g] BY DEF Refreshed
<1> HIDE DEF pc
<1> QED BY <1>1, <1>2, MovedTo

\* refresh: the answer of the server, or none, with the connection at hand.
LEMMA RefreshStep == ASSUME Inv, NEW p \in Thread, Refresh(p) PROVE Inv'
<1> USE DEF Refresh, At
<1>1. Typed /\ ThreadOK(p) BY DEF Inv
<1>2. thread[p].lock \in Lock /\ InUse(thread[p].lock) /\ Mine(p) = locks[thread[p].lock]
  BY <1>1, OnALock DEF Connected
<1>3. spent' \in Count BY <1>1, Counted
<1>4. CASE ~Mine(p).tokens /\ Ends(p, "signin") /\ UNCHANGED refreshing
  <2>1. Blamed BY <1>2, <1>4 DEF Inv, LockOK
  <2> QED BY <1>3, <1>4, <2>1, EndStep
<1>5. CASE Refreshed(p, Mine(p).access) /\ UNCHANGED refreshing
  <2>1. locks[thread[p].lock].access \in 0..MaxGrants BY <1>1, <1>2 DEF Typed, Connection
  <2>2. /\ thread' \in [Thread -> Task] /\ \A q \in Thread : q # p => thread'[q] = thread[q]
        /\ thread'[p].pc \in {"got", "token", "send"} /\ thread'[p].lock = thread[p].lock
        /\ thread'[p].out = thread[p].out /\ thread'[p].env = thread[p].env
    BY <1>1, <1>2, <1>5, <2>1, RefreshedAt
  <2> QED BY <1>3, <1>5, <2>2, GoStep DEF Connected, Holding
<1>6. CASE Exchange(p) BY <1>6, ExchangeStep
<1> QED BY <1>4, <1>5, <1>6

\* call asks once more after an answer that was unauthorised.
LEMMA AgainStep == ASSUME Inv, NEW p \in Thread, Again(p) PROVE Inv'
<1> DEFINE t == [thread[p] EXCEPT !.pc = "refresh", !.stale = thread[p].grant, !.tried = TRUE]
<1>1. Typed BY DEF Inv
<1>2. thread[p] \in Task /\ spent' \in Count BY <1>1, Counted DEF Typed, Again
<1>3. t \in Task /\ t.pc = "refresh" /\ t.lock = thread[p].lock /\ t.out = thread[p].out /\ t.env = thread[p].env
  BY <1>2 DEF Task, Place
<1>4. thread' = [thread EXCEPT ![p] = t] BY <1>1 DEF Again, Typed
<1> HIDE DEF t
<1>5. /\ thread' \in [Thread -> Task] /\ \A q \in Thread : q # p => thread'[q] = thread[q]
      /\ thread'[p] = t
  BY <1>1, <1>3, <1>4, Moved
<1> QED BY <1>2, <1>3, <1>5, GoStep DEF Again, At, Connected, Holding

------------------------------------------------------------------------------
(* Steps that let a connection go                                           *)

\* What is left of the connections.
LEMMA UsedLocks ==
  ASSUME NEW conns, Used(conns)
  PROVE  /\ DOMAIN locks' = Lock /\ locks' = [l \in Lock |-> locks'[l]]
         /\ \A l \in Lock : locks'[l] = IF InUse(l)' THEN conns[l] ELSE NoLock
<1>1. \A l \in Lock : l # 0 BY DEF Lock
<1> QED BY <1>1 DEF Used, InUse

\* Threads that end, or go on where they stood, and a connection that is let go
\* when nobody refers to it: the others keep theirs.  The token may be forgotten,
\* for a reason.
LEMMA LetGo ==
  ASSUME Inv, Used(locks), thread' \in [Thread -> Task], cached' \in 0..4,
         \A q \in Thread :
           \/ thread'[q] = thread[q]
           \/ /\ thread[q].pc # "keep" /\ thread'[q].lock \in {0, thread[q].lock}
              /\ thread'[q].out \in {"none", thread[q].out}
              /\ thread'[q].pc \in {"idle", "conn"} => thread'[q].lock = 0 /\ thread'[q].env = 0
              /\ \/ thread'[q].pc \notin Connected
                 \/ /\ thread[q].pc \in Connected /\ thread'[q].pc \in Connected \ (Holding \cup {"mark"})
                    /\ thread'[q].lock = thread[q].lock /\ thread'[q].env \in {0, thread[q].env}
                 \/ /\ thread[q].pc = "out" /\ thread'[q].pc = "got"
                    /\ thread'[q].lock = thread[q].lock /\ thread[q].lock # 0 /\ thread'[q].env = 0,
         cached' \in {0, cached} \/ \E q \in Thread : cached' = thread[q].lock,
         UNCHANGED <<server, refreshing, spent>>, app' \in Flags,
         UNCHANGED cmd \/ cmd' = NoCmd,
         why' = why \/ why' = why \cup {"told"},
         UNCHANGED store \/ (store' = [store EXCEPT !.token = 0] /\ Blamed)
  PROVE  Inv'
<1>1. Typed BY DEF Inv
<1>2. \A l \in Lock : locks'[l] = IF InUse(l)' THEN locks[l] ELSE NoLock BY UsedLocks
<1>3. \A l : InUse(l)' => InUse(l)
  <2>1. \A q \in Thread : thread'[q].lock \in {0, thread[q].lock} OBVIOUS
  <2> QED BY <2>1 DEF InUse
<1>4. /\ (Lost => Lost') /\ (Blamed => Blamed') /\ (Lost' => Lost)
      /\ ("told" \in why => "told" \in why') /\ ("marked" \notin why' => "marked" \notin why)
  BY DEF Lost, Blamed
<1>5. /\ store' \in Store /\ store'.active = store.active /\ store'.space = store.space
      /\ store'.left = store.left /\ store'.dirty = store.dirty
      /\ (store'.token = store.token \/ (store'.token = 0 /\ Blamed))
  BY <1>1, Bounds DEF Typed, Store
<1>6. Typed'
  <2>1. locks' \in [Lock -> Connection] BY <1>1, <1>2, IdleTyped, UsedLocks DEF Typed
  <2>2. why' \in SUBSET Reason BY <1>1 DEF Typed, Reason
  <2>3. cmd' \in Asking BY <1>1, IdleTyped DEF Typed
  <2> QED BY <1>1, <1>5, <2>1, <2>2, <2>3 DEF Typed
<1>7. \A q \in Thread : ThreadOK(q)'
  <2> TAKE q \in Thread
  <2>1. ThreadOK(q) BY DEF Inv
  <2>2. thread'[q].pc \in Connected => /\ thread'[q].lock = thread[q].lock /\ thread[q].lock \in Lock
                                       /\ thread'[q].lock # 0
                                       /\ locks'[thread'[q].lock] = locks[thread[q].lock]
    <3> SUFFICES ASSUME thread'[q].pc \in Connected
                 PROVE  /\ thread'[q].lock = thread[q].lock /\ thread[q].lock \in Lock
                        /\ thread'[q].lock # 0
                        /\ locks'[thread'[q].lock] = locks[thread[q].lock] OBVIOUS
    <3>1. thread'[q].lock = thread[q].lock /\ thread[q].lock # 0
      BY <2>1 DEF ThreadOK, Stands
    <3>2. thread[q].lock \in Lock BY <3>1, <1>1 DEF Typed, Task, Lock
    <3>3. \A l \in Lock : l = thread'[q].lock => InUse(l)' BY <3>1 DEF InUse
    <3> QED BY <3>1, <3>2, <3>3, <1>2
  <2>3. Stands(q)' BY <2>1, <2>2 DEF ThreadOK, Stands, Connected, Holding
  <2>4. Seals(q)'
    <3>1. CASE thread'[q] = thread[q]
      BY <2>1, <2>2, <3>1 DEF ThreadOK, Seals, Past, Connected
    <3>2. CASE thread'[q] # thread[q]
      BY <2>1, <2>2, <3>2 DEF ThreadOK, Seals, Past, Connected
    <3> QED BY <3>1, <3>2
  <2>5. Keeps(q)'
    <3> SUFFICES ASSUME thread'[q].pc = "keep" PROVE Keeps(q)' BY DEF Keeps
    <3>1. thread'[q] = thread[q] BY DEF Connected, Holding
    <3>2. Keeps(q) BY <2>1 DEF ThreadOK
    <3>3. \A r \in Thread : thread'[r].pc = "keep" => thread'[r] = thread[r] BY DEF Connected, Holding
    <3>4. New(thread[q].grant)' BY <3>1, <3>2, <1>2, <1>5 DEF Keeps, New, NoLock
    <3>5. thread'[q].grant # cmd'.grant BY <3>1, <3>2 DEF Keeps, NoCmd, New
    <3> QED BY <3>1, <3>2, <3>3, <3>4, <3>5, <1>4 DEF Keeps, Good
  <2>6. thread'[q].out \in {"signin", "logout"} => Blamed' BY <2>1, <1>4 DEF ThreadOK
  <2> QED BY <2>3, <2>4, <2>5, <2>6 DEF ThreadOK
<1>8. \A q \in Thread : thread[q].pc = "keep" => thread'[q] = thread[q] BY DEF Connected, Holding
<1>9. \A l \in Lock : LockOK(l)'
  <2> TAKE l \in Lock
  <2>1. LockOK(l) BY DEF Inv
  <2>2. CASE InUse(l)'
    <3>1. locks'[l] = locks[l] /\ InUse(l) BY <1>2, <1>3, <2>2
    <3> QED BY <2>1, <2>2, <3>1, <1>4, <1>5, <1>8 DEF LockOK, Good, Past
  <2>3. CASE ~InUse(l)'
    <3>1. locks'[l] = NoLock BY <1>2, <2>3
    <3>2. server.issued \in Nat BY <1>1, Bounds DEF Typed, Server
    <3> QED BY <2>3, <3>1, <3>2 DEF LockOK, NoLock
  <2> QED BY <2>2, <2>3
<1>10. SpaceOK'
  <2>1. server.made \in Nat BY <1>1, Bounds DEF Typed, Server
  <2>2. cmd' = cmd \/ (cmd'.pc = "idle" /\ cmd'.space = 0) BY DEF NoCmd
  <2> QED BY <1>2, <1>3, <1>4, <1>5, <2>1, <2>2 DEF Inv, SpaceOK, Past
<1>11. HoldsOK' BY <1>4, <1>5 DEF Inv, HoldsOK
<1>12. TokenOK'
  <2>1. TokenOK BY DEF Inv
  <2>8. cmd' = cmd \/ (cmd'.pc = "idle" /\ cmd'.grant = 0) BY DEF NoCmd
  <2>9. server.issued \in Nat BY <1>1, Bounds DEF Typed, Server
  <2>2. store'.token <= server.issued
    BY <2>1, <2>9, <1>5 DEF TokenOK
  <2>3. cmd'.pc = "join" => New(cmd.grant)' BY <2>8, <2>1, <1>2, <1>5 DEF TokenOK, New, NoLock
  <2>4. cmd'.pc = "start" => Lost' \/ \A l \in Lock : locks'[l].refresh # cmd'.grant
    BY <2>8, <2>1, <1>2, <1>4 DEF TokenOK, NoLock
  <2>5. ~Lost' => \A k, l \in Lock : k # l /\ locks'[k].refresh # 0 => locks'[k].refresh # locks'[l].refresh
    BY <2>1, <1>2, <1>4 DEF TokenOK, NoLock
  <2>6. store'.token # 0 =>
         \/ Good(store.token)'
         \/ \E p \in Thread : thread'[p].pc = "keep" /\ locks'[thread'[p].lock].refresh = store'.token
    <3> SUFFICES ASSUME store'.token # 0, ~Good(store.token)
                 PROVE  \E p \in Thread : thread'[p].pc = "keep" /\ locks'[thread'[p].lock].refresh = store'.token
      BY <1>4, <1>5 DEF Good
    <3>1. PICK p \in Thread : thread[p].pc = "keep" /\ locks[thread[p].lock].refresh = store.token
      BY <2>1, <1>5 DEF TokenOK
    <3>2. thread'[p] = thread[p] BY <3>1, <1>8
    <3>3. ThreadOK(p) BY DEF Inv
    <3>4. thread[p].lock \in Lock /\ thread[p].lock # 0 BY <1>1, <3>1, <3>3, OnALock DEF Connected, Lock
    <3>5. \A l \in Lock : l = thread'[p].lock => InUse(l)' BY <3>2, <3>4 DEF InUse
    <3>6. locks'[thread[p].lock] = locks[thread[p].lock] BY <3>2, <3>4, <3>5, <1>2
    <3> QED BY <3>1, <3>2, <3>6, <1>5
  <2>7. /\ server'.refresh \subseteq 1..server'.issued /\ cmd'.grant <= server'.issued
        /\ (~store'.active => store'.token = 0) /\ (store'.active /\ store'.token = 0 => Blamed')
        /\ (cmd'.pc = "join" => Good(cmd.grant)')
        /\ (cmd'.pc = "start" => cmd'.grant # 0 /\ Good(cmd.grant)')
    BY <2>1, <2>8, <2>9, <1>4, <1>5 DEF TokenOK, Good
  <2> QED BY <2>2, <2>3, <2>4, <2>5, <2>6, <2>7 DEF TokenOK
<1> QED BY <1>6, <1>7, <1>9, <1>10, <1>11, <1>12 DEF Inv

\* A new connection becomes the cached one.
LEMMA PublishStep == ASSUME Inv, NEW p \in Thread, Publish(p) PROVE Inv'
<1>1. Typed BY DEF Inv
<1>2. /\ thread' \in [Thread -> Task] /\ \A q \in Thread : q # p => thread'[q] = thread[q]
      /\ thread'[p].pc = "got" /\ thread'[p].lock = thread[p].lock
      /\ thread'[p].out = thread[p].out /\ thread'[p].env = thread[p].env
  <2>1. thread' = [thread EXCEPT ![p].pc = "got"] BY DEF Publish, Goto
  <2>2. "got" \in Place BY DEF Place
  <2> QED BY <1>1, <2>1, <2>2, GoneTo
<1>3. cached' \in 0..4 /\ cached' = thread[p].lock BY <1>1 DEF Publish, Typed, Task
<1>4. app' \in Flags BY <1>1 DEF Typed, Publish
<1>5. thread[p].pc = "publish" BY DEF Publish, At
<1>6. /\ Used(locks) /\ UNCHANGED <<server, refreshing, cmd, spent>> /\ UNCHANGED store /\ why' = why
  BY DEF Publish
<1>7. \A q \in Thread :
           \/ thread'[q] = thread[q]
           \/ /\ thread[q].pc # "keep" /\ thread'[q].lock \in {0, thread[q].lock}
              /\ thread'[q].out \in {"none", thread[q].out}
              /\ thread'[q].pc \in {"idle", "conn"} => thread'[q].lock = 0 /\ thread'[q].env = 0
              /\ \/ thread'[q].pc \notin Connected
                 \/ /\ thread[q].pc \in Connected /\ thread'[q].pc \in Connected \ (Holding \cup {"mark"})
                    /\ thread'[q].lock = thread[q].lock /\ thread'[q].env \in {0, thread[q].env}
  BY <1>2, <1>5 DEF Connected, Holding
<1> QED BY <1>2, <1>3, <1>4, <1>6, <1>7, LetGo

\* A thread that is done with its connection.
LEMMA AtEaseMoved ==
  ASSUME Typed, NEW p \in Thread, thread' = [thread EXCEPT ![p] = AtEase]
  PROVE  /\ thread' \in [Thread -> Task] /\ \A q \in Thread : q # p => thread'[q] = thread[q]
         /\ thread'[p].pc = "idle" /\ thread'[p].lock = 0 /\ thread'[p].out = "none" /\ thread'[p].env = 0
BY IdleTyped, Moved DEF AtEase

\* session_ended lets the connection go.
LEMMA UncacheStep == ASSUME Inv, NEW p \in Thread, Uncache(p) PROVE Inv'
<1>1. Typed BY DEF Inv
<1>2. /\ thread' \in [Thread -> Task] /\ \A q \in Thread : q # p => thread'[q] = thread[q]
      /\ thread'[p].pc = "idle" /\ thread'[p].lock = 0 /\ thread'[p].out = "none" /\ thread'[p].env = 0
  BY <1>1, AtEaseMoved DEF Uncache
<1>3. cached' = 0 /\ cached' \in 0..4 BY DEF Uncache
<1>4. app' \in Flags BY <1>1 DEF Typed, Uncache, Flags
<1>5. /\ thread[p].pc = "uncache" /\ Used(locks) /\ UNCHANGED <<server, refreshing, cmd, spent>>
      /\ UNCHANGED store /\ why' = why
  BY DEF Uncache, At
<1>6. \A q \in Thread :
           \/ thread'[q] = thread[q]
           \/ /\ thread[q].pc # "keep" /\ thread'[q].lock \in {0, thread[q].lock}
              /\ thread'[q].out \in {"none", thread[q].out}
              /\ thread'[q].pc \in {"idle", "conn"} => thread'[q].lock = 0 /\ thread'[q].env = 0
              /\ thread'[q].pc \notin Connected
  BY <1>2, <1>5 DEF Connected
<1> QED BY <1>2, <1>3, <1>4, <1>5, <1>6, LetGo

\* What the two threads do when they end: the token is forgotten if the session
\* ended, for a reason, and a listener starts its next round or goes.
LEMMA ThreadEnds ==
  ASSUME Inv, NEW p \in Thread, thread[p].pc = "out", app' \in Flags, Used(locks),
         UNCHANGED <<server, cached, refreshing, cmd, spent>>,
         \/ thread[p].out \in {"signin", "logout"} /\ Forget(p)
         \/ thread' = [thread EXCEPT ![p] = AtEase] /\ UNCHANGED <<store, why>>
         \/ /\ thread[p].lock # 0 /\ UNCHANGED <<store, why>>
            /\ thread' = [thread EXCEPT ![p] = [AtEase EXCEPT !.pc = "got", !.lock = thread[p].lock]]
  PROVE  Inv'
<1>1. Typed /\ ThreadOK(p) BY DEF Inv
<1>2. cached' \in 0..4 BY <1>1 DEF Typed
<1>3. CASE thread[p].out \in {"signin", "logout"} /\ Forget(p)
  <2>1. /\ thread' \in [Thread -> Task] /\ \A q \in Thread : q # p => thread'[q] = thread[q]
        /\ thread'[p].pc = "uncache" /\ thread'[p].lock = thread[p].lock
        /\ thread'[p].out = thread[p].out /\ thread'[p].env = thread[p].env
    <3>1. thread' = [thread EXCEPT ![p].pc = "uncache"] BY <1>3 DEF Forget, Goto
    <3>2. "uncache" \in Place BY DEF Place
    <3> QED BY <1>1, <3>1, <3>2, GoneTo
  <2>2. Blamed BY <1>1, <1>3 DEF ThreadOK
  <2>3. (why' = why \/ why' = why \cup {"told"}) /\ store' = [store EXCEPT !.token = 0]
    BY <1>3 DEF Forget
  <2>4. \A q \in Thread :
           \/ thread'[q] = thread[q]
           \/ /\ thread[q].pc # "keep" /\ thread'[q].lock \in {0, thread[q].lock}
              /\ thread'[q].out \in {"none", thread[q].out}
              /\ thread'[q].pc \in {"idle", "conn"} => thread'[q].lock = 0 /\ thread'[q].env = 0
              /\ thread'[q].pc \notin Connected
    BY <2>1 DEF Connected
  <2> QED BY <1>2, <2>1, <2>2, <2>3, <2>4, LetGo
<1>4. CASE thread' = [thread EXCEPT ![p] = AtEase] /\ UNCHANGED <<store, why>>
  <2>1. /\ thread' \in [Thread -> Task] /\ \A q \in Thread : q # p => thread'[q] = thread[q]
        /\ thread'[p].pc = "idle" /\ thread'[p].lock = 0 /\ thread'[p].out = "none" /\ thread'[p].env = 0
    BY <1>1, <1>4, AtEaseMoved
  <2>2. \A q \in Thread :
           \/ thread'[q] = thread[q]
           \/ /\ thread[q].pc # "keep" /\ thread'[q].lock \in {0, thread[q].lock}
              /\ thread'[q].out \in {"none", thread[q].out}
              /\ thread'[q].pc \in {"idle", "conn"} => thread'[q].lock = 0 /\ thread'[q].env = 0
              /\ thread'[q].pc \notin Connected
    BY <2>1 DEF Connected
  <2> QED BY <1>2, <1>4, <2>1, <2>2, LetGo
<1>5. CASE /\ thread[p].lock # 0 /\ UNCHANGED <<store, why>>
           /\ thread' = [thread EXCEPT ![p] = [AtEase EXCEPT !.pc = "got", !.lock = thread[p].lock]]
  <2> DEFINE t == [AtEase EXCEPT !.pc = "got", !.lock = thread[p].lock]
  <2>1. thread[p].lock \in 0..4 BY <1>1 DEF Typed, Task
  <2>2. t \in Task /\ t.pc = "got" /\ t.lock = thread[p].lock /\ t.out = "none" /\ t.env = 0
    <3>1. t \in Task /\ t.pc = "got" /\ t.lock = thread[p].lock /\ t.out = AtEase.out /\ t.env = AtEase.env
      BY <2>1, IdleTyped DEF Task, Place
    <3> QED BY <3>1 DEF AtEase
  <2>3. thread' = [thread EXCEPT ![p] = t] BY <1>5
  <2> HIDE DEF t
  <2>4. /\ thread' \in [Thread -> Task] /\ \A q \in Thread : q # p => thread'[q] = thread[q]
        /\ thread'[p] = t
    BY <1>1, <2>2, <2>3, Moved
  <2>5. \A q \in Thread :
           \/ thread'[q] = thread[q]
           \/ /\ thread[q].pc # "keep" /\ thread'[q].lock \in {0, thread[q].lock}
              /\ thread'[q].out \in {"none", thread[q].out}
              /\ thread'[q].pc \in {"idle", "conn"} => thread'[q].lock = 0 /\ thread'[q].env = 0
              /\ thread[q].pc = "out" /\ thread'[q].pc = "got"
              /\ thread'[q].lock = thread[q].lock /\ thread[q].lock # 0 /\ thread'[q].env = 0
    BY <1>5, <2>2, <2>4
  <2> QED BY <1>2, <1>5, <2>4, <2>5, LetGo
<1> QED BY <1>3, <1>4, <1>5

\* A pass ends and lets go of its connection.
LEMMA PassEndsStep == ASSUME Inv, PassEnds PROVE Inv'
<1>1. Typed BY DEF Inv
<1>2. app' \in Flags BY <1>1 DEF Typed, Flags, PassEnds
<1>3. "pass" \in Thread BY DEF Thread
<1> QED BY <1>2, <1>3, ThreadEnds DEF PassEnds, At

\* The live channel ends and lets go of its connection.
LEMMA EndedStep == ASSUME Inv, Ended PROVE Inv'
<1>1. Typed BY DEF Inv
<1>2. app' \in Flags BY <1>1 DEF Typed, Flags, Ended
<1>3. "live" \in Thread BY DEF Thread
<1> QED BY <1>2, <1>3, ThreadEnds DEF Ended, At, Back

\* lock_sign_out lets the connection go once leave_lock is done.
LEMMA LeaveStep == ASSUME Inv, Leave PROVE Inv'
<1>1. Typed BY DEF Inv
<1>2. app' \in Flags /\ thread' \in [Thread -> Task] BY <1>1 DEF Typed, Flags, Leave
<1>3. cached' = 0 /\ cached' \in 0..4 BY DEF Leave
<1> QED BY <1>2, <1>3, LetGo DEF Leave

------------------------------------------------------------------------------
(* The worker's pass and the listener                                       *)

\* A thread starts: it has no connection yet.
LEMMA StartStep ==
  ASSUME Inv, NEW p \in Thread, thread[p].pc = "idle", Goto(p, "conn"),
         UNCHANGED <<server, store, locks, cached, refreshing, cmd, app, why, spent>>
  PROVE  Inv'
<1>1. Typed /\ ThreadOK(p) BY DEF Inv
<1>2. /\ thread' \in [Thread -> Task] /\ \A q \in Thread : q # p => thread'[q] = thread[q]
      /\ thread'[p].pc = "conn" /\ thread'[p].lock = thread[p].lock
      /\ thread'[p].out = thread[p].out /\ thread'[p].env = thread[p].env
  <2>1. thread' = [thread EXCEPT ![p].pc = "conn"] BY DEF Goto
  <2>2. "conn" \in Place BY DEF Place
  <2> QED BY <1>1, <2>1, <2>2, GoneTo
<1>3. ThreadOK(p)'
  BY <1>1, <1>2 DEF ThreadOK, Stands, Seals, Keeps, Holding, Connected, Blamed, Lost
<1>4. \A q \in Thread : thread[q].pc \in Holding => refreshing'[thread[q].lock] = q
  BY DEF Inv, ThreadOK, Stands
<1>5. refreshing' \in Mutex /\ spent' \in Count BY <1>1 DEF Typed
<1> QED BY <1>2, <1>3, <1>4, <1>5, ThreadStep

\* pending_envelopes seals for the space the device has; the connection is of that
\* space, or of one that is not the account's any more.
LEMMA SealStep == ASSUME Inv, Seal PROVE Inv'
<1>1. Typed /\ ThreadOK("pass") /\ "pass" \in Thread BY DEF Inv, Thread
<1>2. spent' \in Count BY <1>1, Counted DEF Seal
<1>3. CASE ~app.unlocked
  BY <1>1, <1>2, <1>3, EndStep DEF Seal, At
<1>4. CASE app.unlocked
  <2> DEFINE e == IF store.dirty THEN store.space ELSE 0
             t == [thread["pass"] EXCEPT !.pc = "token", !.req = "space", !.tried = FALSE, !.env = e]
  <2>1. e \in 0..MaxSpaces /\ e \in {0, store.space} BY <1>1, Bounds DEF Typed, Store
  <2>2. thread' = [thread EXCEPT !["pass"].pc = "token", !["pass"].req = "space",
                       !["pass"].tried = FALSE, !["pass"].env = e]
    BY <1>4 DEF Seal
  <2> HIDE DEF e
  <2>3. thread["pass"] \in Task BY <1>1 DEF Typed
  <2>4. /\ t \in Task /\ t.pc = "token" /\ t.lock = thread["pass"].lock /\ t.out = thread["pass"].out
        /\ t.env = e
    BY <2>1, <2>3 DEF Task, Place
  <2>5. thread' = [thread EXCEPT !["pass"] = t] BY <1>1, <2>2 DEF Typed
  <2> HIDE DEF t
  <2>6. /\ thread' \in [Thread -> Task] /\ \A q \in Thread : q # "pass" => thread'[q] = thread[q]
        /\ thread'["pass"] = t
    BY <1>1, <2>4, <2>5, Moved
  <2>7. thread["pass"].pc = "got" /\ UNCHANGED <<server, store, locks, cached, refreshing, cmd, app, why>>
    BY DEF Seal, At
  <2>8. thread["pass"].lock \in Lock /\ InUse(thread["pass"].lock)
    BY <1>1, <2>7, OnALock DEF Connected
  <2>9. LockOK(thread["pass"].lock) BY <2>8 DEF Inv
  <2>10. ThreadOK("pass")'
    <3>1. Seals("pass")'
      BY <2>1, <2>4, <2>6, <2>7, <2>8, <2>9 DEF Seals, LockOK, Past
    <3>2. Stands("pass")' /\ Keeps("pass")' BY <1>1, <2>4, <2>6, <2>7 DEF ThreadOK, Stands, Keeps, Holding, Connected
    <3> QED BY <1>1, <2>4, <2>6, <2>7, <3>1, <3>2 DEF ThreadOK, Blamed, Lost
  <2>11. \A q \in Thread : thread[q].pc \in Holding => refreshing'[thread[q].lock] = q
    BY <2>7 DEF Inv, ThreadOK, Stands
  <2>12. refreshing' \in Mutex BY <1>1, <2>7 DEF Typed
  <2> QED BY <1>1, <1>2, <2>4, <2>6, <2>7, <2>10, <2>11, <2>12, ThreadStep
<1> QED BY <1>3, <1>4

\* The listener asks for a token.
LEMMA RequestStep ==
  ASSUME Inv, NEW p \in Thread, Request(p, "auth"), thread[p].pc \in {"got", "listening"},
         UNCHANGED <<server, store, locks, cached, refreshing, cmd, app, why, spent>>
  PROVE  Inv'
<1> DEFINE t == [thread[p] EXCEPT !.pc = "token", !.req = "auth", !.tried = FALSE, !.grant = 0, !.stale = 0]
<1>1. Typed BY DEF Inv
<1>2. thread[p] \in Task /\ spent' \in Count BY <1>1 DEF Typed
<1>3. t \in Task /\ t.pc = "token" /\ t.lock = thread[p].lock /\ t.out = thread[p].out /\ t.env = thread[p].env
  <2>1. 0 \in 0..MaxGrants /\ "token" \in Place BY Bounds DEF Place
  <2> QED BY <1>2, <2>1 DEF Task
<1>4. thread' = [thread EXCEPT ![p] = t] BY <1>1 DEF Request, Typed
<1> HIDE DEF t
<1>5. /\ thread' \in [Thread -> Task] /\ \A q \in Thread : q # p => thread'[q] = thread[q]
      /\ thread'[p] = t
  BY <1>1, <1>3, <1>4, Moved
<1> QED BY <1>2, <1>3, <1>5, GoStep DEF Connected, Holding

\* The live channel asks for the stream, or renews its token ahead of time.
LEMMA ListenRunsStep == ASSUME Inv, ListenRuns \/ RenewAhead PROVE Inv'
<1>1. Typed /\ "live" \in Thread BY DEF Inv, Thread
<1>2. spent' \in Count BY <1>1, Counted DEF ListenRuns, RenewAhead
<1>3. CASE Request("live", "auth")
  BY <1>1, <1>3, RequestStep DEF ListenRuns, RenewAhead, At
<1>4. CASE ~Request("live", "auth")
  BY <1>1, <1>2, <1>4, EndStep DEF ListenRuns, RenewAhead, At
<1> QED BY <1>3, <1>4

\* The channel ends; it says that the session is over only when it is, or when the
\* token was lost.
LEMMA ListenEndsStep == ASSUME Inv, ListenEnds PROVE Inv'
<1> DEFINE p == "live"
<1>1. Typed /\ p \in Thread /\ ThreadOK(p) BY DEF Inv, Thread
<1>2. spent' \in Count BY <1>1, Counted DEF ListenEnds
<1>3. thread[p].pc = "listening" /\ UNCHANGED <<server, store, locks, cached, refreshing, cmd, app, why>>
  BY DEF ListenEnds, At
<1>4. CASE Ends(p, "stopped") \/ Ends(p, "refused")
  BY <1>1, <1>2, <1>3, <1>4, EndStep
<1>5. CASE server.refresh = {} /\ Ends(p, "logout")
  <2>1. thread[p].lock \in Lock /\ InUse(thread[p].lock) BY <1>1, <1>3, OnALock DEF Connected
  <2>2. LockOK(thread[p].lock) BY <2>1 DEF Inv
  <2>3. \A q \in Thread : thread[q].pc = "keep" => Lost BY <1>5 DEF Inv, ThreadOK, Keeps, Good
  <2>4. Blamed BY <1>5, <2>1, <2>2, <2>3 DEF LockOK, Good, Blamed
  <2> QED BY <1>1, <1>2, <1>3, <1>5, <2>4, EndStep
<1>6. CASE Goto(p, "send")
  <2>1. /\ thread' \in [Thread -> Task] /\ \A q \in Thread : q # p => thread'[q] = thread[q]
        /\ thread'[p].pc = "send" /\ thread'[p].lock = thread[p].lock
        /\ thread'[p].out = thread[p].out /\ thread'[p].env = thread[p].env
    <3>1. thread' = [thread EXCEPT ![p].pc = "send"] BY <1>6 DEF Goto
    <3>2. "send" \in Place BY DEF Place
    <3> QED BY <1>1, <3>1, <3>2, GoneTo
  <2> QED BY <1>1, <1>2, <1>3, <2>1, GoStep DEF Connected, Holding
<1>7. CASE Back
  <2> DEFINE t == [AtEase EXCEPT !.pc = "got", !.lock = thread[p].lock]
  <2>1. thread[p].lock \in 0..4 BY <1>1 DEF Typed, Task
  <2>2. t \in Task /\ t.pc = "got" /\ t.lock = thread[p].lock /\ t.out = "none" /\ t.env = 0
    <3>1. t \in Task /\ t.pc = "got" /\ t.lock = thread[p].lock /\ t.out = AtEase.out /\ t.env = AtEase.env
      BY <2>1, IdleTyped DEF Task, Place
    <3> QED BY <3>1 DEF AtEase
  <2>3. thread' = [thread EXCEPT ![p] = t] BY <1>7 DEF Back
  <2> HIDE DEF t
  <2>4. /\ thread' \in [Thread -> Task] /\ \A q \in Thread : q # p => thread'[q] = thread[q]
        /\ thread'[p] = t
    BY <1>1, <2>2, <2>3, Moved
  <2> QED BY <1>1, <1>2, <1>3, <2>2, <2>4, GoStep DEF Connected, Holding
<1> QED BY <1>4, <1>5, <1>6, <1>7 DEF ListenEnds

\* A token's freshness is nobody's business but the next request's: the thread
\* that looked goes on.
LEMMA FreshStep ==
  ASSUME Inv, NEW p \in Thread, thread[p].pc \in Connected \ {"keep"},
         thread' \in [Thread -> Task], \A q \in Thread : q # p => thread'[q] = thread[q],
         thread'[p] = thread[p]
           \/ /\ thread'[p].pc \in Connected \ (Holding \cup {"mark"})
              /\ thread'[p].lock = thread[p].lock /\ thread'[p].env = thread[p].env
              /\ thread'[p].out = thread[p].out,
         locks' \in [Lock -> Connection],
         \A l \in Lock : /\ locks'[l].tokens = locks[l].tokens /\ locks'[l].refresh = locks[l].refresh
                         /\ locks'[l].space = locks[l].space
                         /\ l # thread[p].lock => locks'[l] = locks[l],
         UNCHANGED <<server, store, cached, refreshing, cmd, app, why, spent>>
  PROVE  Inv'
<1>1. Typed BY DEF Inv
<1>2. Typed' BY <1>1 DEF Typed
<1>3. \A l : InUse(l)' <=> InUse(l) BY DEF InUse
<1>4. \A q \in Thread : ThreadOK(q)'
  <2> TAKE q \in Thread
  <2>1. ThreadOK(q) BY DEF Inv
  <2>2. thread[q].pc \in Connected => thread[q].lock \in Lock BY <1>1, <2>1, OnALock
  <2>3. Stands(q)' /\ Seals(q)'
    BY <2>1, <2>2 DEF ThreadOK, Stands, Seals, Past, Connected, Holding
  <2>4. Keeps(q)' BY <2>1 DEF ThreadOK, Keeps, New, Good, Lost, Connected, Holding
  <2> QED BY <2>1, <2>3, <2>4 DEF ThreadOK, Blamed, Lost
<1>5. \A l \in Lock : LockOK(l)'
  <2> TAKE l \in Lock
  <2>1. LockOK(l) BY DEF Inv
  <2>2. InUse(thread[p].lock) BY <1>1, OnALock DEF Inv
  <2>3. \A q \in Thread : thread[q].pc = "keep" => thread'[q] = thread[q] OBVIOUS
  <2>4. ~InUse(l) => locks'[l] = locks[l] BY <2>2
  <2> QED BY <2>1, <2>3, <2>4, <1>3 DEF LockOK, Good, Lost, Blamed, Past
<1>6. SpaceOK' /\ HoldsOK' BY <1>3 DEF Inv, SpaceOK, HoldsOK, Past
<1>7. TokenOK'
  <2>1. TokenOK BY DEF Inv
  <2>2. \A q \in Thread : thread[q].pc = "keep" => thread'[q] = thread[q] /\ thread[q].lock \in Lock
    BY <1>1, OnALock DEF Inv, Connected
  <2> QED BY <2>1, <2>2 DEF TokenOK, New, Good, Lost, Blamed
<1> QED BY <1>2, <1>4, <1>5, <1>6, <1>7 DEF Inv

\* The channel's token is no good: the connection's is renewed.
LEMMA AuthStep == ASSUME Inv, Auth PROVE Inv'
<1> DEFINE p == "live"
<1>1. Typed /\ p \in Thread /\ ThreadOK(p) BY DEF Inv, Thread
<1>2. /\ thread[p].pc = "send" /\ spent' \in Count
      /\ UNCHANGED <<server, store, cached, refreshing, cmd, app, why, spent>>
  BY <1>1, Counted DEF Auth, At
<1>3. thread[p].lock \in Lock /\ Mine(p) = locks[thread[p].lock] BY <1>1, <1>2, OnALock DEF Connected
<1>4. CASE ~Unauthorised("live")
  <2>1. thread' = [thread EXCEPT ![p].pc = "listening"] /\ UNCHANGED locks BY <1>4 DEF Goto, Auth
  <2>2. "listening" \in Place BY DEF Place
  <2>3. /\ thread' \in [Thread -> Task] /\ \A q \in Thread : q # p => thread'[q] = thread[q]
        /\ thread'[p].pc = "listening" /\ thread'[p].lock = thread[p].lock
        /\ thread'[p].out = thread[p].out /\ thread'[p].env = thread[p].env
    BY <1>1, <2>1, <2>2, GoneTo
  <2> QED BY <1>1, <1>2, <2>1, <2>3, GoStep DEF Connected, Holding
<1>5. CASE Unauthorised("live")
  <2> DEFINE a == locks[thread[p].lock].access
             t == [thread[p] EXCEPT !.pc = "refresh", !.req = "renew", !.stale = a]
  <2>1. a \in 0..MaxGrants BY <1>1, <1>3 DEF Typed, Connection
  <2>2. /\ thread' = [thread EXCEPT ![p].pc = "refresh", ![p].req = "renew", ![p].stale = a]
        /\ locks' = [locks EXCEPT ![thread[p].lock].fresh = FALSE]
    BY <1>3, <1>5 DEF Auth
  <2> HIDE DEF a
  <2>3. thread[p] \in Task BY <1>1 DEF Typed
  <2>4. t \in Task /\ t.pc = "refresh" /\ t.lock = thread[p].lock /\ t.out = thread[p].out /\ t.env = thread[p].env
    BY <2>1, <2>3 DEF Task, Place
  <2>5. thread' = [thread EXCEPT ![p] = t] BY <1>1, <2>2 DEF Typed
  <2> HIDE DEF t
  <2>6. /\ thread' \in [Thread -> Task] /\ \A q \in Thread : q # p => thread'[q] = thread[q]
        /\ thread'[p] = t
    BY <1>1, <2>4, <2>5, Moved
  <2>7. /\ locks' \in [Lock -> Connection]
        /\ \A l \in Lock : locks'[l].tokens = locks[l].tokens /\ locks'[l].refresh = locks[l].refresh
                           /\ locks'[l].space = locks[l].space /\ (l # thread[p].lock => locks'[l] = locks[l])
    BY <1>1, <1>3, <2>2, ZenonT(60) DEF Typed, Connection
  <2> QED BY <1>1, <1>2, <1>3, <2>4, <2>6, <2>7, FreshStep DEF Connected, Holding
<1> QED BY <1>4, <1>5

------------------------------------------------------------------------------
(* A new connection, and the exchange of its token                          *)

\* connection(): the cached one, none for a reason, or a new one with the token on
\* disk; if another connection has that token, it may be used twice.
LEMMA ConnectStep == ASSUME Inv, NEW p \in Thread, Connect(p) PROVE Inv'
<1>1. Typed /\ ThreadOK(p) BY DEF Inv
<1>2. /\ thread[p].pc = "conn" /\ UNCHANGED <<server, store, cached, refreshing, cmd, app, spent>>
      /\ spent' \in Count
  BY <1>1, Counted DEF Connect, At
<1>3. thread[p].lock = 0 /\ thread[p].env = 0 BY <1>1, <1>2 DEF ThreadOK, Stands
<1>4. CASE cached # 0
  <2> DEFINE t == [thread[p] EXCEPT !.pc = "got", !.lock = cached]
  <2>1. thread' = [thread EXCEPT ![p].pc = "got", ![p].lock = cached] /\ UNCHANGED <<locks, why>>
    BY <1>4 DEF Connect
  <2>2. thread[p] \in Task /\ cached \in 0..4 BY <1>1 DEF Typed
  <2>3. t \in Task /\ t.pc = "got" /\ t.lock = cached /\ t.out = thread[p].out /\ t.env = thread[p].env
    BY <2>2 DEF Task, Place
  <2>4. thread' = [thread EXCEPT ![p] = t] BY <1>1, <2>1 DEF Typed
  <2> HIDE DEF t
  <2>5. /\ thread' \in [Thread -> Task] /\ \A q \in Thread : q # p => thread'[q] = thread[q]
        /\ thread'[p] = t
    BY <1>1, <2>3, <2>4, Moved
  <2>6. ThreadOK(p)'
    BY <1>1, <1>2, <1>3, <1>4, <2>1, <2>3, <2>5 DEF ThreadOK, Stands, Seals, Keeps, Holding, Connected, Blamed, Lost
  <2>7. \A q \in Thread : thread[q].pc \in Holding => refreshing'[thread[q].lock] = q
    BY <1>2 DEF Inv, ThreadOK, Stands
  <2>8. refreshing' \in Mutex BY <1>1, <1>2 DEF Typed
  <2> QED BY <1>2, <1>3, <2>1, <2>3, <2>5, <2>6, <2>7, <2>8, ThreadStep
<1>5. CASE cached = 0 /\ (~store.active \/ store.token = 0)
  <2>1. UNCHANGED <<locks, why>> /\ Ends(p, IF store.active THEN "signin" ELSE "error")
    BY <1>5 DEF Connect
  <2>2. store.active => Blamed BY <1>5 DEF Inv, TokenOK
  <2>3. CASE store.active BY <1>2, <2>1, <2>2, <2>3, EndStep
  <2>4. CASE ~store.active BY <1>2, <2>1, <2>4, EndStep
  <2> QED BY <2>3, <2>4
<1>6. CASE cached = 0 /\ store.active /\ store.token # 0
  <2> DEFINE l == CHOOSE k \in Free : TRUE
             c == [NoLock EXCEPT !.tokens = TRUE, !.refresh = store.token, !.space = store.space]
             t == [thread[p] EXCEPT !.pc = "publish", !.lock = l]
  <2>1. l \in Lock /\ ~InUse(l) BY <1>1, FreeLock
  <2>2. /\ thread' = [thread EXCEPT ![p].pc = "publish", ![p].lock = l] /\ locks' = [locks EXCEPT ![l] = c]
        /\ why' = IF store.token \in {cmd.grant} \cup {locks[k].refresh : k \in Lock \ Free}
                  THEN why \cup {"twice"} ELSE why
    BY <1>6 DEF Connect
  <2>3. c \in Connection /\ c.tokens /\ c.refresh = store.token /\ c.space = store.space
    <3>1. store.token \in 0..MaxGrants /\ store.space \in 0..MaxSpaces BY <1>1 DEF Typed, Store
    <3> QED BY <3>1, IdleTyped DEF Connection
  <2> HIDE DEF l, c
  <2>4. thread[p] \in Task /\ l \in 0..4 /\ "publish" \in Place BY <1>1, <2>1 DEF Typed, Lock, Place
  <2>5. t \in Task /\ t.pc = "publish" /\ t.lock = l /\ t.out = thread[p].out /\ t.env = thread[p].env
    BY <2>4 DEF Task
  <2>6. thread' = [thread EXCEPT ![p] = t] BY <1>1, <2>2 DEF Typed
  <2> HIDE DEF t
  <2>7. /\ thread' \in [Thread -> Task] /\ \A q \in Thread : q # p => thread'[q] = thread[q]
        /\ thread'[p] = t
    BY <1>1, <2>5, <2>6, Moved
  <2>8. locks' \in [Lock -> Connection] /\ locks'[l] = c /\ \A k \in Lock : k # l => locks'[k] = locks[k]
    BY <1>1, <2>1, <2>2, <2>3 DEF Typed
  <2>9. \A k \in Lock : InUse(k)' <=> InUse(k) \/ k = l
    BY <1>2, <1>3, <2>1, <2>5, <2>7 DEF InUse, Lock
  <2>10. why' \in SUBSET Reason /\ why \subseteq why' /\ why' \subseteq why \cup {"twice"}
    BY <1>1, <2>2 DEF Typed, Reason
  <2>11. /\ (Lost => Lost') /\ (Blamed => Blamed')
         /\ ("told" \in why' <=> "told" \in why) /\ ("marked" \in why' <=> "marked" \in why)
    BY <2>10 DEF Lost, Blamed
  <2>12. ~Lost' => /\ ~Lost /\ store.token # cmd.grant
                   /\ \A k \in Lock : InUse(k) => locks[k].refresh # store.token
    <3>1. \A k \in Lock : InUse(k) => k \in Lock \ Free BY DEF Free, InUse
    <3> QED BY <2>2, <2>11, <3>1 DEF Lost
  <2>13. LockOK(l) /\ TokenOK /\ SpaceOK /\ HoldsOK BY <2>1 DEF Inv
  <2>14. locks[l] = NoLock BY <2>1, <2>13 DEF LockOK
  <2>15. Typed' BY <1>1, <1>2, <2>7, <2>8, <2>10 DEF Typed
  <2>16. \A q \in Thread : thread[q].pc \in Connected => thread[q].lock \in Lock /\ thread[q].lock # l
    <3> SUFFICES ASSUME NEW q \in Thread, thread[q].pc \in Connected
                 PROVE  thread[q].lock \in Lock /\ thread[q].lock # l OBVIOUS
    <3>1. ThreadOK(q) BY DEF Inv
    <3> QED BY <1>1, <2>1, <3>1, OnALock
  <2>17. \A q \in Thread : ThreadOK(q)'
    <3> TAKE q \in Thread
    <3>1. ThreadOK(q) BY DEF Inv
    <3>2. CASE q = p
      BY <1>2, <1>3, <2>1, <2>5, <2>7, <2>11, <3>1, <3>2
         DEF ThreadOK, Stands, Seals, Keeps, Connected, Holding, Lock
    <3>3. CASE q # p
      <4>1. thread'[q] = thread[q] BY <2>7, <3>3
      <4>2. thread[q].pc \in Connected => locks'[thread[q].lock] = locks[thread[q].lock]
        BY <2>8, <2>16
      <4>3. Stands(q)' /\ Seals(q)' BY <1>2, <3>1, <4>1, <4>2 DEF ThreadOK, Stands, Seals, Past, Connected, Holding
      <4>4. Keeps(q)'
        <5> SUFFICES ASSUME thread[q].pc = "keep" PROVE Keeps(q)' BY <4>1 DEF Keeps
        <5>1. Keeps(q) BY <3>1 DEF ThreadOK
        <5>2. thread[q].grant # store.token BY <5>1 DEF Keeps, New
        <5>3. \A k \in Lock : locks'[k].refresh # thread[q].grant
          BY <2>3, <2>8, <5>1, <5>2 DEF Keeps, New
        <5>4. \A r \in Thread : thread'[r].pc = "keep" => thread'[r] = thread[r]
          BY <2>5, <2>7
        <5> QED BY <1>2, <2>11, <4>1, <5>1, <5>2, <5>3, <5>4 DEF Keeps, New, Good
      <4> QED BY <3>1, <4>1, <4>3, <4>4, <2>11 DEF ThreadOK
    <3> QED BY <3>2, <3>3
  <2>18. \A q \in Thread : thread[q].pc = "keep" => thread'[q] = thread[q] BY <1>2, <2>7
  <2>19. \A k \in Lock : LockOK(k)'
    <3> TAKE k \in Lock
    <3>1. LockOK(k) BY DEF Inv
    <3>2. CASE k # l
      <4>1. locks'[k] = locks[k] /\ (InUse(k)' <=> InUse(k)) BY <2>8, <2>9, <3>2
      <4> QED BY <1>2, <2>11, <2>18, <3>1, <4>1 DEF LockOK, Good, Past
    <3>3. CASE k = l
      <4>1. store.space # 0 BY <1>6, <2>13 DEF SpaceOK
      <4>2. Good(store.token) => Good(store.token)' BY <1>2, <2>11 DEF Good
      <4>3. Good(store.token)'
        <5> SUFFICES ASSUME ~Good(store.token), ~Lost' PROVE FALSE BY <4>2 DEF Good
        <5>1. PICK q \in Thread : thread[q].pc = "keep" /\ locks[thread[q].lock].refresh = store.token
          BY <1>6, <2>13 DEF TokenOK
        <5>2. ThreadOK(q) BY DEF Inv
        <5>3. thread[q].lock \in Lock /\ InUse(thread[q].lock) BY <1>1, <5>1, <5>2, OnALock DEF Connected
        <5> QED BY <2>12, <5>1, <5>3
      <4>4. locks'[k].refresh = store'.token /\ locks'[k].space = store'.space /\ locks'[k].tokens /\ InUse(k)'
        BY <1>2, <2>3, <2>8, <2>9, <3>3
      <4>5. store'.token <= server'.issued BY <1>2, <2>13 DEF TokenOK
      <4> QED BY <1>2, <1>6, <4>1, <4>3, <4>4, <4>5 DEF LockOK, Good
    <3> QED BY <3>2, <3>3
  <2>20. SpaceOK'
    <3>1. store.space # 0 BY <1>6, <2>13 DEF SpaceOK
    <3>2. "told" \notin why => \A k \in Lock : InUse(k)' => locks'[k].space = server.space
      BY <2>3, <2>8, <2>9, <2>13, <3>1 DEF SpaceOK
    <3> QED BY <1>2, <2>11, <2>13, <3>2 DEF SpaceOK, Past
  <2>21. HoldsOK' BY <1>2, <2>11, <2>13 DEF HoldsOK
  <2>22. TokenOK'
    <3>1. cmd.pc = "join" => New(cmd.grant)'
      BY <1>2, <2>3, <2>8, <2>13 DEF TokenOK, New
    <3>2. cmd.pc = "start" => Lost' \/ \A k \in Lock : locks'[k].refresh # cmd.grant
      BY <2>3, <2>8, <2>12, <2>13 DEF TokenOK
    <3>3. ~Lost' => \A k, m \in Lock : k # m /\ locks'[k].refresh # 0 => locks'[k].refresh # locks'[m].refresh
      <4>1. \A k \in Lock : ~InUse(k) => locks[k].refresh = 0 BY DEF Inv, LockOK, NoLock
      <4> QED BY <1>6, <2>3, <2>8, <2>12, <2>13, <4>1 DEF TokenOK
    <3>4. Good(store.token)' \/ \E q \in Thread : thread'[q].pc = "keep" /\ locks'[thread'[q].lock].refresh = store'.token
      <4>1. CASE Good(store.token) BY <1>2, <2>11, <4>1 DEF Good
      <4>2. CASE ~Good(store.token)
        <5>1. PICK q \in Thread : thread[q].pc = "keep" /\ locks[thread[q].lock].refresh = store.token
          BY <1>6, <2>13, <4>2 DEF TokenOK
        <5>2. locks'[thread[q].lock] = locks[thread[q].lock] /\ thread'[q] = thread[q]
          BY <2>8, <2>16, <2>18, <5>1 DEF Connected
        <5> QED BY <1>2, <5>1, <5>2
      <4> QED BY <4>1, <4>2
    <3> QED BY <1>2, <2>11, <2>13, <3>1, <3>2, <3>3, <3>4 DEF TokenOK, Good
  <2> QED BY <2>15, <2>17, <2>19, <2>20, <2>21, <2>22 DEF Inv
<1> QED BY <1>4, <1>5, <1>6 DEF Connect

\* Only the thread that holds a connection's mutex is exchanging its token.
LEMMA OneExchange ==
  ASSUME Inv, NEW p \in Thread, NEW q \in Thread, thread[p].pc \in Holding, thread[q].pc \in Holding,
         thread[p].lock = thread[q].lock
  PROVE  p = q
BY DEF Inv, ThreadOK, Stands

\* The server exchanges the token, or refuses it.
LEMMA AskedStep == ASSUME Inv, NEW p \in Thread, Asked(p) PROVE Inv'
<1>1. Typed /\ ThreadOK(p) BY DEF Inv
<1>2. /\ thread[p].pc = "asked" /\ UNCHANGED <<store, locks, cached, refreshing, cmd, app, why, spent>>
      /\ spent' \in Count
  BY <1>1, Counted DEF Asked, At
<1> DEFINE old == thread[p].grant
<1>3. thread[p].lock \in Lock /\ InUse(thread[p].lock) BY <1>1, <1>2, OnALock DEF Connected
<1>4. old = locks[thread[p].lock].refresh /\ refreshing[thread[p].lock] = p
  BY <1>1, <1>2 DEF ThreadOK, Stands, Holding
<1>5. CASE ~(old \in server.refresh /\ ~server.off)
  <2>1. thread' = [thread EXCEPT ![p].pc = "refused"] /\ UNCHANGED server BY <1>5 DEF Asked, Goto
  <2>2. "refused" \in Place BY DEF Place
  <2>3. /\ thread' \in [Thread -> Task] /\ \A q \in Thread : q # p => thread'[q] = thread[q]
        /\ thread'[p].pc = "refused" /\ thread'[p].lock = thread[p].lock /\ thread'[p].grant = old
        /\ thread'[p].out = thread[p].out /\ thread'[p].env = thread[p].env
    BY <1>1, <2>1, <2>2, GoneTo
  <2>4. ThreadOK(p)'
    BY <1>1, <1>2, <1>3, <1>4, <2>1, <2>3 DEF ThreadOK, Stands, Seals, Keeps, Holding, Connected, Blamed, Lost, Past, Lock
  <2>5. \A q \in Thread : thread[q].pc \in Holding => refreshing'[thread[q].lock] = q
    BY <1>2 DEF Inv, ThreadOK, Stands
  <2>6. refreshing' \in Mutex BY <1>1, <1>2 DEF Typed
  <2> QED BY <1>2, <2>1, <2>3, <2>4, <2>5, <2>6, ThreadStep
<1>6. CASE old \in server.refresh /\ ~server.off
  <2>0. PICK g \in Int : g = server.issued + 1
    BY <1>1, Bounds DEF Typed, Server
  <2>1. /\ server.issued < MaxGrants /\ server' = Granted(server, old)
        /\ thread' = [thread EXCEPT ![p].pc = "keep", ![p].grant = g]
    BY <1>6, <2>0 DEF Asked
  <2>2. server \in Server /\ server.issued \in Nat /\ MaxGrants \in Nat /\ g \in 0..MaxGrants /\ g \in Grant
    BY <1>1, <2>0, <2>1, Bounds DEF Typed, Server, Grant
  <2>3. /\ server' \in Server /\ server'.issued = g /\ server'.refresh = (server.refresh \ {old}) \cup {g}
        /\ server'.space = server.space /\ server'.made = server.made /\ server'.holds = server.holds
    BY <2>0, <2>1, <2>2 DEF Granted, Server
  <2>4. "keep" \in Place BY DEF Place
  <2>5. /\ thread' \in [Thread -> Task] /\ \A q \in Thread : q # p => thread'[q] = thread[q]
        /\ thread'[p].pc = "keep" /\ thread'[p].lock = thread[p].lock /\ thread'[p].grant = g
        /\ thread'[p].out = thread[p].out /\ thread'[p].env = thread[p].env
    <3>1. g \in 0..MaxGrants /\ thread' = [thread EXCEPT ![p].pc = "keep", ![p].grant = g] BY <2>1, <2>2
    <3>2. thread'[p] = [thread[p] EXCEPT !.pc = "keep", !.grant = g] BY <1>1, <3>1 DEF Typed
    <3>3. thread[p] \in Task BY <1>1 DEF Typed
    <3>4. thread'[p].grant = g BY <3>2, <3>3 DEF Task
    <3>5. /\ thread' \in [Thread -> Task] /\ \A q \in Thread : q # p => thread'[q] = thread[q]
          /\ thread'[p].pc = "keep" /\ thread'[p].lock = thread[p].lock
          /\ thread'[p].out = thread[p].out /\ thread'[p].env = thread[p].env
      BY <1>1, <2>4, <3>1, MovedTo
    <3> QED BY <3>4, <3>5
  <2>6. g \in Nat /\ g > server.issued BY <2>0, <2>2
  <2>7. Typed' BY <1>1, <1>2, <2>3, <2>5 DEF Typed
  <2>8. \A l : InUse(l)' <=> InUse(l) BY <1>2, <2>5 DEF InUse
  <2>9. (Lost' <=> Lost) /\ (Blamed' <=> Blamed) /\ \A s : Past(s)' <=> Past(s)
    BY <1>2, <2>3 DEF Lost, Blamed, Past
  <2>10. TokenOK /\ SpaceOK /\ HoldsOK BY DEF Inv
  <2>11. \A l \in Lock : locks[l].refresh <= server.issued /\ locks[l].refresh \in Nat
    BY <1>1, Bounds DEF Inv, LockOK, Typed, Connection
  <2>12. store.token \in Nat /\ cmd.grant \in Nat BY <1>1, Bounds DEF Typed, Store, Asking
  <2>13. New(g) /\ g # cmd.grant
    BY <2>2, <2>6, <2>10, <2>11, <2>12 DEF New, TokenOK
  <2>14. \A x : Good(x) /\ x # old => Good(x)' BY <2>3, <2>9 DEF Good
  <2>15. \A q \in Thread : ThreadOK(q)'
    <3> TAKE q \in Thread
    <3>1. ThreadOK(q) BY DEF Inv
    <3>2. CASE q = p
      <4>1. Stands(p)' /\ Seals(p)'
        BY <1>1, <1>2, <1>3, <1>4, <2>3, <2>5, <2>9 DEF ThreadOK, Stands, Seals, Connected, Holding, Lock
      <4>2. Keeps(p)'
        <5>1. \A x \in Thread : x # p /\ thread[x].pc = "keep" => thread[x].grant \in Nat /\ thread[x].grant <= server.issued
          BY <1>1, Bounds DEF Inv, ThreadOK, Keeps, Typed, Task
        <5>2. \A x \in Thread : x # p /\ thread'[x].pc = "keep" => thread'[x].grant # g
          BY <2>2, <2>5, <2>6, <5>1
        <5>4. New(thread[p].grant)' BY <2>5, <1>2, <2>13 DEF New
        <5>5. Good(thread[p].grant)' BY <2>3, <2>5 DEF Good
        <5> QED BY <1>2, <2>3, <2>5, <2>6, <2>13, <5>2, <5>4, <5>5 DEF Keeps
      <4>3. thread'[p].out \in {"signin", "logout"} => Blamed' BY <1>1, <2>5, <2>9 DEF ThreadOK
      <4> QED BY <3>2, <4>1, <4>2, <4>3 DEF ThreadOK
    <3>3. CASE q # p
      <4>1. thread'[q] = thread[q] BY <2>5, <3>3
      <4>2. Stands(q)' /\ Seals(q)' BY <1>2, <2>3, <2>9, <3>1, <4>1 DEF ThreadOK, Stands, Seals
      <4>3. Keeps(q)'
        <5> SUFFICES ASSUME thread[q].pc = "keep" PROVE Keeps(q)' BY <4>1 DEF Keeps
        <5>1. Keeps(q) BY <3>1 DEF ThreadOK
        <5>2. thread[q].grant \in Nat /\ thread[q].grant <= server.issued
          BY <1>1, <5>1, Bounds DEF Keeps, Typed, Task
        <5>3. New(thread[q].grant)' BY <1>2, <4>1, <5>1 DEF Keeps, New
        <5>4. thread[q].grant # old BY <1>3, <1>4, <5>1 DEF Keeps, New
        <5>5. Good(thread[q].grant)' BY <2>3, <2>9, <4>1, <5>1, <5>4 DEF Good, Keeps
        <5>6. \A x \in Thread : x # q /\ thread'[x].pc = "keep" => thread'[x].grant # thread'[q].grant
          BY <2>2, <2>5, <2>6, <4>1, <5>1, <5>2 DEF Keeps
        <5>7. thread'[q].grant <= server'.issued BY <2>2, <2>3, <2>6, <4>1, <5>2
        <5> QED BY <1>2, <4>1, <5>1, <5>3, <5>5, <5>6, <5>7 DEF Keeps
      <4> QED BY <2>9, <3>1, <4>1, <4>2, <4>3 DEF ThreadOK
    <3> QED BY <3>2, <3>3
  <2>16. ~Lost => \A k \in Lock : k # thread[p].lock => locks[k].refresh # old
    <3>1. old # 0 BY <1>3, <1>4 DEF Inv, LockOK
    <3> QED BY <1>3, <1>4, <2>10, <3>1 DEF TokenOK
  <2>17. \A l \in Lock : LockOK(l)'
    <3> TAKE l \in Lock
    <3>1. LockOK(l) BY DEF Inv
    <3>2. locks[l].refresh <= server'.issued BY <2>2, <2>3, <2>6, <2>11
    <3>3. InUse(l) => \/ Good(locks[l].refresh)'
                      \/ \E q \in Thread : thread'[q].pc = "keep" /\ thread'[q].lock = l
      <4> SUFFICES ASSUME InUse(l), l # thread[p].lock, ~Lost
                   PROVE  \/ Good(locks[l].refresh)'
                          \/ \E q \in Thread : thread'[q].pc = "keep" /\ thread'[q].lock = l
        BY <1>2, <2>5, <2>9 DEF Good
      <4>1. locks[l].refresh # old BY <2>16
      <4>2. CASE Good(locks[l].refresh) BY <1>2, <2>3, <2>9, <4>1, <4>2 DEF Good
      <4>3. CASE \E q \in Thread : thread[q].pc = "keep" /\ thread[q].lock = l
        <5>1. PICK q \in Thread : thread[q].pc = "keep" /\ thread[q].lock = l BY <4>3
        <5>2. q # p BY <1>2, <5>1
        <5> QED BY <2>5, <5>1, <5>2
      <4> QED BY <3>1, <4>2, <4>3 DEF LockOK
    <3> QED BY <1>2, <2>8, <2>9, <3>1, <3>2, <3>3 DEF LockOK
  <2>18. SpaceOK' BY <1>2, <2>3, <2>8, <2>9, <2>10 DEF SpaceOK
  <2>19. HoldsOK' BY <1>2, <2>3, <2>10 DEF HoldsOK
  <2>20. TokenOK'
    <3>1. server'.refresh \subseteq 1..server'.issued
      BY <2>2, <2>3, <2>6, <2>10 DEF TokenOK
    <3>2. store'.token <= server'.issued /\ cmd'.grant <= server'.issued
      BY <1>2, <2>2, <2>3, <2>6, <2>10, <2>12 DEF TokenOK
    <3>3. cmd.pc = "join" => New(cmd.grant)' /\ Good(cmd.grant)'
      <4> SUFFICES ASSUME cmd.pc = "join" PROVE New(cmd.grant)' /\ Good(cmd.grant)' OBVIOUS
      <4>1. New(cmd.grant) /\ Good(cmd.grant) BY <2>10 DEF TokenOK
      <4>2. cmd.grant # old BY <1>3, <1>4, <4>1 DEF New
      <4> QED BY <1>2, <2>3, <2>9, <4>1, <4>2 DEF New, Good
    <3>4. cmd.pc = "start" => Good(cmd.grant)'
      <4> SUFFICES ASSUME cmd.pc = "start", ~Lost PROVE Good(cmd.grant)' BY <2>9 DEF Good
      <4>1. Good(cmd.grant) /\ cmd.grant # old BY <1>3, <1>4, <2>10 DEF TokenOK
      <4> QED BY <1>2, <2>3, <2>9, <4>1 DEF Good
    <3>5. store.token # 0 => \/ Good(store.token)'
                             \/ \E q \in Thread : thread'[q].pc = "keep" /\ locks'[thread'[q].lock].refresh = store'.token
      <4> SUFFICES ASSUME store.token # 0, store.token # old
                   PROVE  \/ Good(store.token)'
                          \/ \E q \in Thread : thread'[q].pc = "keep" /\ locks'[thread'[q].lock].refresh = store'.token
        BY <1>2, <1>4, <2>5
      <4>1. CASE Good(store.token) BY <1>2, <2>3, <2>9, <4>1 DEF Good
      <4>2. CASE ~Good(store.token)
        <5>1. PICK q \in Thread : thread[q].pc = "keep" /\ locks[thread[q].lock].refresh = store.token
          BY <2>10, <4>2 DEF TokenOK
        <5>2. q # p BY <1>2, <5>1
        <5> QED BY <1>2, <2>5, <5>1, <5>2
      <4> QED BY <4>1, <4>2
    <3> QED BY <1>2, <2>9, <2>10, <3>1, <3>2, <3>3, <3>4, <3>5 DEF TokenOK
  <2> QED BY <2>7, <2>15, <2>17, <2>18, <2>19, <2>20 DEF Inv
<1> QED BY <1>5, <1>6

\* An exchange that brings nothing: the mutex is let go, the connection may have lost
\* its tokens for a reason, and a grant on its way is lost.
LEMMA ExchangeEnds ==
  ASSUME Inv, NEW p \in Thread, thread[p].pc \in Holding, Release(p),
         NEW o \in {"error", "signin"}, Ends(p, o),
         UNCHANGED <<server, store, cached, cmd, app>>, spent' \in Count,
         why' = why \/ why' = why \cup {"lost"} \/ why' = why \cup {"told"},
         UNCHANGED locks \/ locks' = [locks EXCEPT ![thread[p].lock].tokens = FALSE],
         UNCHANGED locks \/ Blamed', o = "signin" => Blamed',
         thread[p].pc = "keep" => Lost'
  PROVE  Inv'
<1>1. Typed /\ ThreadOK(p) BY DEF Inv
<1>2. /\ thread' \in [Thread -> Task] /\ \A q \in Thread : q # p => thread'[q] = thread[q]
      /\ thread'[p].pc = "out" /\ thread'[p].lock = thread[p].lock
      /\ thread'[p].out = o /\ thread'[p].env = 0
  BY <1>1, EndsAt
<1>3. thread[p].lock \in Lock /\ InUse(thread[p].lock) BY <1>1, OnALock DEF Connected, Holding
<1>4. /\ locks' \in [Lock -> Connection]
      /\ \A l \in Lock : /\ locks'[l].refresh = locks[l].refresh /\ locks'[l].space = locks[l].space
                         /\ l # thread[p].lock => locks'[l] = locks[l]
                         /\ locks'[l].tokens = locks[l].tokens \/ Blamed'
  <2>1. locks \in [Lock -> Connection] BY <1>1 DEF Typed
  <2>2. CASE UNCHANGED locks BY <2>1, <2>2
  <2>3. CASE locks' = [locks EXCEPT ![thread[p].lock].tokens = FALSE] /\ Blamed'
    BY <1>3, <2>1, <2>3, ZenonT(60) DEF Connection
  <2> QED BY <2>2, <2>3
<1>5. \A l : InUse(l)' <=> InUse(l) BY <1>2 DEF InUse
<1>6. /\ why' \in SUBSET Reason /\ (Lost => Lost') /\ (Blamed => Blamed')
      /\ ("told" \notin why' => "told" \notin why) /\ ("marked" \notin why' => "marked" \notin why)
  BY <1>1 DEF Typed, Reason, Lost, Blamed
<1>7. refreshing' \in Mutex BY <1>1 DEF Release, Typed, Mutex
<1>8. Typed' BY <1>1, <1>2, <1>4, <1>6, <1>7 DEF Typed
<1>9. \A q \in Thread : q # p /\ thread[q].pc \in Connected => thread[q].lock \in Lock
  BY <1>1, OnALock DEF Inv
<1>10. \A q \in Thread : q # p /\ thread[q].pc \in Holding => refreshing'[thread[q].lock] = q
  <2> SUFFICES ASSUME NEW q \in Thread, q # p, thread[q].pc \in Holding
               PROVE  refreshing'[thread[q].lock] = q OBVIOUS
  <2>1. refreshing[thread[q].lock] = q BY DEF Inv, ThreadOK, Stands
  <2>2. thread[q].lock # thread[p].lock BY OneExchange
  <2> QED BY <1>1, <1>9, <2>1, <2>2 DEF Release, Typed, Mutex, Holding, Connected
<1>11. \A q \in Thread : ThreadOK(q)'
  <2> TAKE q \in Thread
  <2>1. ThreadOK(q) BY DEF Inv
  <2>2. CASE q = p
    BY <1>2, <2>2 DEF ThreadOK, Stands, Seals, Keeps, Connected, Holding
  <2>3. CASE q # p
    <3>1. thread'[q] = thread[q] BY <1>2, <2>3
    <3>2. Stands(q)' /\ Seals(q)'
      BY <1>4, <1>9, <1>10, <2>1, <2>3, <3>1 DEF ThreadOK, Stands, Seals, Past, Connected, Holding
    <3>3. Keeps(q)'
      <4> SUFFICES ASSUME thread[q].pc = "keep" PROVE Keeps(q)' BY <3>1 DEF Keeps
      <4>1. Keeps(q) BY <2>1 DEF ThreadOK
      <4>2. New(thread[q].grant)' BY <1>4, <3>1, <4>1 DEF Keeps, New
      <4>3. Good(thread[q].grant)' BY <1>6, <3>1, <4>1 DEF Keeps, Good
      <4>4. \A x \in Thread : x # q /\ thread'[x].pc = "keep" => thread'[x].grant # thread'[q].grant
        BY <1>2, <3>1, <4>1 DEF Keeps
      <4> QED BY <3>1, <4>1, <4>2, <4>3, <4>4 DEF Keeps
    <3> QED BY <1>6, <2>1, <3>1, <3>2, <3>3 DEF ThreadOK
  <2> QED BY <2>2, <2>3
<1>12. \A q \in Thread : thread[q].pc = "keep" => Lost' \/ thread'[q] = thread[q] BY <1>2
<1>13. \A l \in Lock : LockOK(l)'
  <2> TAKE l \in Lock
  <2>1. LockOK(l) BY DEF Inv
  <2>2. ~InUse(l) => locks'[l] = NoLock BY <1>3, <1>4, <2>1 DEF LockOK
  <2> QED BY <1>4, <1>5, <1>6, <1>12, <2>1, <2>2 DEF LockOK, Good, Past
<1>14. SpaceOK' /\ HoldsOK' BY <1>4, <1>5, <1>6 DEF Inv, SpaceOK, HoldsOK, Past
<1>15. TokenOK'
  <2>1. TokenOK BY DEF Inv
  <2>2. store.token # 0 => \/ Good(store.token)'
                           \/ \E q \in Thread : thread'[q].pc = "keep" /\ locks'[thread'[q].lock].refresh = store'.token
    <3> SUFFICES ASSUME store.token # 0, ~Lost', store.token \notin server.refresh
                 PROVE  \E q \in Thread : thread'[q].pc = "keep" /\ locks'[thread'[q].lock].refresh = store'.token
      BY DEF Good
    <3>1. PICK q \in Thread : thread[q].pc = "keep" /\ locks[thread[q].lock].refresh = store.token
      BY <1>6, <2>1 DEF TokenOK, Good
    <3>2. thread'[q] = thread[q] /\ q # p BY <1>12, <3>1
    <3> QED BY <1>4, <1>9, <3>1, <3>2 DEF Connected
  <2> QED BY <1>4, <1>6, <2>1, <2>2 DEF TokenOK, New, Good
<1> QED BY <1>8, <1>11, <1>13, <1>14, <1>15 DEF Inv

\* The server does not answer an exchange.
LEMMA UnansweredStep == ASSUME Inv, NEW p \in Thread, Unanswered(p) PROVE Inv'
<1>1. Typed BY DEF Inv
<1>2. spent' \in Count BY <1>1, Counted DEF Unanswered
<1>3. thread[p].pc \in Holding /\ (thread[p].pc = "keep" => Lost')
  BY DEF Unanswered, At, Holding, Lost
<1> QED BY <1>2, <1>3, ExchangeEnds DEF Unanswered

\* A refusal takes the tokens only for a reason: nobody else was exchanging this
\* connection's token, so the server did not know it any more, or it was told so.
LEMMA RefusedStep == ASSUME Inv, NEW p \in Thread, Refused(p) PROVE Inv'
<1>1. Typed /\ ThreadOK(p) BY DEF Inv
<1>2. /\ thread[p].pc = "refused" /\ Release(p) /\ UNCHANGED <<server, store, cached, cmd, app>>
      /\ spent' \in Count
  BY <1>1, Counted DEF Refused, At
<1>3. CASE ~Over /\ Ends(p, "off") /\ UNCHANGED <<locks, why, spent>>
  BY <1>2, <1>3, EndStep DEF Holding
<1>4. CASE /\ Ends(p, "signin") /\ locks' = [locks EXCEPT ![thread[p].lock].tokens = FALSE]
           /\ why' = why \cup {"told"}
  <2>1. Blamed' BY <1>4 DEF Blamed
  <2> QED BY <1>2, <1>4, <2>1, ExchangeEnds DEF Holding
<1>5. CASE /\ Ends(p, "signin") /\ locks' = [locks EXCEPT ![thread[p].lock].tokens = FALSE]
           /\ Over /\ why' = why /\ thread[p].grant \notin server.refresh
  <2>1. thread[p].lock \in Lock /\ InUse(thread[p].lock) /\ thread[p].grant = locks[thread[p].lock].refresh
    BY <1>1, <1>2, OnALock DEF Connected, ThreadOK, Stands
  <2>2. LockOK(thread[p].lock) BY <2>1 DEF Inv
  <2>3. \A q \in Thread : thread[q].pc = "keep" => thread[q].lock # thread[p].lock
    BY <1>2, OneExchange DEF Holding
  <2>4. Lost BY <1>5, <2>1, <2>2, <2>3 DEF LockOK, Good
  <2>5. Blamed' BY <1>5, <2>4 DEF Blamed, Lost
  <2> QED BY <1>2, <1>5, <2>5, ExchangeEnds DEF Holding
<1> QED BY <1>3, <1>4, <1>5 DEF Refused, Over

\* take: the new token is kept on disk and in the connection, or keeping it fails.
LEMMA KeepStep == ASSUME Inv, NEW p \in Thread, Keep(p) PROVE Inv'
<1>1. Typed /\ ThreadOK(p) /\ TokenOK /\ SpaceOK /\ HoldsOK BY DEF Inv
<1>2. PICK l \in Lock, g \in 0..MaxGrants : l = thread[p].lock /\ g = thread[p].grant /\ InUse(l)
  <2>1. thread[p].lock \in Lock /\ InUse(thread[p].lock) BY <1>1, OnALock DEF Keep, At, Connected
  <2>2. thread[p].grant \in 0..MaxGrants BY <1>1 DEF Typed, Task
  <2> QED BY <2>1, <2>2
<1>3. /\ thread[p].pc = "keep" /\ UNCHANGED <<server, cached, cmd, app>>
      /\ refreshing' = [refreshing EXCEPT ![l] = "none"] /\ locks' = Took(l, g)
  BY <1>2 DEF Keep, At, Release
<1>4. \/ store' = Kept(g) /\ UNCHANGED <<why, spent>>
      \/ Event /\ why' = why \cup {"lost"} /\ UNCHANGED store
  BY <1>2 DEF Keep
<1>5. /\ thread' \in [Thread -> Task] /\ \A q \in Thread : q # p => thread'[q] = thread[q]
      /\ thread'[p].pc \in {"got", "token", "send"} /\ thread'[p].lock = l
      /\ thread'[p].out = thread[p].out /\ thread'[p].env = thread[p].env
  <2>1. Refreshed(p, g) BY <1>2 DEF Keep
  <2> QED BY <1>1, <1>2, <2>1, RefreshedAt
<1>6. /\ locks' \in [Lock -> Connection]
      /\ locks'[l].tokens /\ locks'[l].refresh = g /\ locks'[l].space = locks[l].space
      /\ \A k \in Lock : k # l => locks'[k] = locks[k]
  BY <1>1, <1>3, ZenonT(60) DEF Took, Typed, Connection
<1>7. spent' \in Count BY <1>1, <1>4, Counted
<1>8. refreshing' \in Mutex BY <1>1, <1>3 DEF Typed, Mutex
<1>9. /\ why' \in SUBSET Reason /\ (Lost => Lost') /\ (Blamed => Blamed')
      /\ ("told" \in why' <=> "told" \in why) /\ ("marked" \in why' <=> "marked" \in why)
  BY <1>1, <1>4 DEF Typed, Reason, Lost, Blamed
<1>10. /\ store' \in Store /\ store'.active = store.active /\ store'.space = store.space
       /\ store'.left = store.left /\ store'.dirty = store.dirty
       /\ \/ store'.token = store.token /\ (~store.active \/ Lost')
          \/ store'.token = g /\ store.active
  BY <1>1, <1>4 DEF Kept, Typed, Store, Lost
<1>11. Typed' BY <1>1, <1>3, <1>5, <1>6, <1>7, <1>8, <1>9, <1>10 DEF Typed
<1>12. \A k : InUse(k)' <=> InUse(k) BY <1>2, <1>3, <1>5 DEF InUse
<1>13. /\ New(g) /\ g <= server.issued /\ g # cmd.grant /\ Good(g)
       /\ \A q \in Thread : q # p /\ thread[q].pc = "keep" => thread[q].grant # g
  BY <1>1, <1>2, <1>3 DEF ThreadOK, Keeps
<1>14. Good(g)' /\ \A x : Good(x) => Good(x)' BY <1>3, <1>9, <1>13 DEF Good
<1>15. \A q \in Thread : q # p /\ thread[q].pc \in Connected => thread[q].lock \in Lock
  BY <1>1, OnALock DEF Inv
<1>16. \A q \in Thread : q # p /\ thread[q].pc \in Holding =>
         refreshing'[thread[q].lock] = q /\ thread[q].lock # l
  <2> SUFFICES ASSUME NEW q \in Thread, q # p, thread[q].pc \in Holding
               PROVE  refreshing'[thread[q].lock] = q /\ thread[q].lock # l OBVIOUS
  <2>1. refreshing[thread[q].lock] = q BY DEF Inv, ThreadOK, Stands
  <2>2. thread[q].lock # l BY <1>2, <1>3, OneExchange DEF Holding
  <2> QED BY <1>1, <1>3, <1>15, <2>1, <2>2 DEF Typed, Mutex, Holding, Connected
<1>17. \A q \in Thread : ThreadOK(q)'
  <2> TAKE q \in Thread
  <2>1. ThreadOK(q) BY DEF Inv
  <2>2. thread[q].pc \in Connected => locks'[thread[q].lock].space = locks[thread[q].lock].space
    BY <1>2, <1>6, <1>15
  <2>3. CASE q = p
    <3>1. Stands(q)' /\ Seals(q)'
      BY <1>2, <1>3, <1>5, <2>1, <2>2, <2>3 DEF ThreadOK, Stands, Seals, Past, Connected, Holding, Lock
    <3>2. Keeps(q)' BY <1>5, <2>3 DEF Keeps
    <3> QED BY <1>5, <1>9, <2>1, <2>3, <3>1, <3>2 DEF ThreadOK
  <2>4. CASE q # p
    <3>1. thread'[q] = thread[q] BY <1>5, <2>4
    <3>2. thread[q].pc \in Holding => locks'[thread[q].lock] = locks[thread[q].lock]
      BY <1>6, <1>15, <1>16, <2>4 DEF Holding, Connected
    <3>3. Stands(q)' /\ Seals(q)'
      BY <1>3, <1>16, <2>1, <2>2, <2>4, <3>1, <3>2 DEF ThreadOK, Stands, Seals, Past, Connected, Holding
    <3>4. Keeps(q)'
      <4> SUFFICES ASSUME thread[q].pc = "keep" PROVE Keeps(q)' BY <3>1 DEF Keeps
      <4>1. Keeps(q) /\ thread[q].grant # g BY <1>13, <2>1, <2>4 DEF ThreadOK
      <4>2. New(thread[q].grant)' BY <1>6, <1>10, <3>1, <4>1 DEF Keeps, New
      <4>3. Good(thread[q].grant)' BY <1>3, <1>9, <3>1, <4>1 DEF Keeps, Good
      <4>4. \A x \in Thread : x # q /\ thread'[x].pc = "keep" => thread'[x].grant # thread'[q].grant
        BY <1>5, <3>1, <4>1 DEF Keeps
      <4> QED BY <1>3, <3>1, <4>1, <4>2, <4>3, <4>4 DEF Keeps
    <3> QED BY <1>9, <2>1, <3>1, <3>3, <3>4 DEF ThreadOK
  <2> QED BY <2>3, <2>4
<1>18. \A k \in Lock : LockOK(k)'
  <2> TAKE k \in Lock
  <2>1. LockOK(k) BY DEF Inv
  <2>2. CASE k = l
    <3>1. g # 0 BY <1>13 DEF New
    <3> QED BY <1>2, <1>3, <1>6, <1>10, <1>12, <1>13, <1>14, <2>1, <2>2, <3>1 DEF LockOK, Past, Good
  <2>3. CASE k # l
    <3>1. locks'[k] = locks[k] BY <1>6, <2>3
    <3>2. Good(locks[k].refresh) => Good(locks[k].refresh)' BY <1>3, <1>9, <3>1 DEF Good
    <3>3. (\E q \in Thread : thread[q].pc = "keep" /\ thread[q].lock = k)
            => \E q \in Thread : thread'[q].pc = "keep" /\ thread'[q].lock = k
      BY <1>2, <1>5, <2>3
    <3> QED BY <1>3, <1>9, <1>10, <1>12, <2>1, <3>1, <3>2, <3>3 DEF LockOK, Past
  <2> QED BY <2>2, <2>3
<1>19. SpaceOK'
  <2>1. \A k \in Lock : locks'[k].space = locks[k].space BY <1>6
  <2> QED BY <1>1, <1>3, <1>9, <1>10, <1>12, <2>1 DEF SpaceOK, Past
<1>20. HoldsOK' BY <1>1, <1>3, <1>9, <1>10 DEF HoldsOK
<1>21. TokenOK'
  <2>1. g # 0 /\ \A k \in Lock : locks[k].refresh # g BY <1>13 DEF New
  <2>2. store'.token <= server'.issued /\ (~store'.active => store'.token = 0)
        /\ (store'.active /\ store'.token = 0 => Blamed')
    BY <1>1, <1>3, <1>9, <1>10, <1>13, <2>1 DEF TokenOK
  <2>3. cmd.pc = "join" => New(cmd.grant)' /\ Good(cmd.grant)'
    BY <1>1, <1>3, <1>6, <1>9, <1>10, <1>13 DEF TokenOK, New, Good
  <2>4. cmd.pc = "start" => Good(cmd.grant)' /\ (Lost' \/ \A k \in Lock : locks'[k].refresh # cmd.grant)
    BY <1>1, <1>3, <1>6, <1>9, <1>13 DEF TokenOK, Good
  <2>5. ~Lost' => \A k, m \in Lock : k # m /\ locks'[k].refresh # 0 => locks'[k].refresh # locks'[m].refresh
    BY <1>1, <1>6, <1>9, <2>1 DEF TokenOK
  <2>6. store'.token # 0 => Good(store.token)'
    <3>1. CASE store'.token = g BY <1>3, <1>9, <1>13, <3>1 DEF Good
    <3>2. CASE store'.token # g BY <1>1, <1>10, <3>2 DEF TokenOK, Good
    <3> QED BY <3>1, <3>2
  <2> QED BY <1>1, <1>3, <2>2, <2>3, <2>4, <2>5, <2>6 DEF TokenOK
<1> QED BY <1>11, <1>17, <1>18, <1>19, <1>20, <1>21 DEF Inv

------------------------------------------------------------------------------
(* The push                                                                 *)

\* check_space: a push reaches the space the connection is of, and then what it
\* carries is sealed for that space; a refusal of the space is a reason to sign in.
LEMMA SendStep == ASSUME Inv, NEW p \in Thread, Send(p) PROVE Inv'
<1>1. Typed /\ ThreadOK(p) /\ SpaceOK /\ HoldsOK /\ TokenOK BY DEF Inv
<1>2. /\ thread[p].pc = "send" /\ UNCHANGED <<store, locks, cached, refreshing, cmd, app, why, spent>>
      /\ spent' \in Count
  BY <1>1, Counted DEF Send, At
<1>3. thread[p].lock \in Lock /\ InUse(thread[p].lock) /\ Mine(p) = locks[thread[p].lock]
  BY <1>1, <1>2, OnALock DEF Connected
<1>4. CASE UNCHANGED server /\ (Ends(p, "error") \/ Ends(p, "off") \/ Ends(p, "ok"))
  BY <1>2, <1>4, EndStep
<1>5. CASE UNCHANGED server /\ ~SameSpace(p) /\ Ends(p, "signin")
  <2>1. Blamed BY <1>1, <1>3, <1>5 DEF SpaceOK, SameSpace, Blamed
  <2> QED BY <1>2, <1>5, <2>1, EndStep
<1>6. CASE /\ SameSpace(p) /\ thread[p].env # 0
           /\ server' = [server EXCEPT !.holds[server.space] = thread[p].env] /\ Goto(p, "mark")
  <2>1. /\ thread' \in [Thread -> Task] /\ \A q \in Thread : q # p => thread'[q] = thread[q]
        /\ thread'[p].pc = "mark" /\ thread'[p].lock = thread[p].lock
        /\ thread'[p].out = thread[p].out /\ thread'[p].env = thread[p].env
    <3>1. thread' = [thread EXCEPT ![p].pc = "mark"] BY <1>6 DEF Goto
    <3>2. "mark" \in Place BY DEF Place
    <3> QED BY <1>1, <3>1, <3>2, GoneTo
  <2>2. PICK e \in 0..MaxSpaces : e = thread[p].env BY <1>1 DEF Typed, Task
  <2>3. server.space = e
    <3>1. server.space = locks[thread[p].lock].space BY <1>3, <1>6 DEF SameSpace
    <3> QED BY <1>1, <1>2, <1>6, <2>2, <3>1 DEF ThreadOK, Seals, Connected, Past
  <2>4. e \in Space /\ e \in 1..server.made
    BY <1>1, <1>6, <2>2, <2>3, Bounds DEF Typed, Server, Space, SpaceOK
  <2>5. /\ server' \in Server /\ server'.holds[e] = e
        /\ \A s \in Space : s # e => server'.holds[s] = server.holds[s]
        /\ server'.space = server.space /\ server'.made = server.made /\ server'.issued = server.issued
        /\ server'.refresh = server.refresh
    <3>1. server' = [server EXCEPT !.holds = [server.holds EXCEPT ![e] = e]]
      BY <1>1, <1>6, <2>2, <2>3 DEF Typed, Server
    <3>2. [server.holds EXCEPT ![e] = e] \in [Space -> 0..MaxSpaces]
      BY <1>1, <2>4 DEF Typed, Server
    <3>3. server'.holds = [server.holds EXCEPT ![e] = e] BY <1>1, <3>1 DEF Typed, Server
    <3>4. /\ server'.space = server.space /\ server'.made = server.made
          /\ server'.issued = server.issued /\ server'.refresh = server.refresh /\ server' \in Server
      BY <1>1, <3>1, <3>2 DEF Typed, Server
    <3> QED BY <1>1, <2>4, <3>3, <3>4 DEF Typed, Server
  <2>6. Typed' BY <1>1, <1>2, <2>1, <2>5 DEF Typed
  <2>7. \A l : InUse(l)' <=> InUse(l) BY <1>2, <2>1 DEF InUse
  <2>8. (Lost' <=> Lost) /\ (Blamed' <=> Blamed) /\ (\A s : Past(s)' <=> Past(s)) /\ \A x : Good(x)' <=> Good(x)
    BY <1>2, <2>5 DEF Lost, Blamed, Past, Good
  <2>9. \A q \in Thread : ThreadOK(q)'
    <3> TAKE q \in Thread
    <3>1. ThreadOK(q) BY DEF Inv
    <3>2. \A x \in Thread : thread'[x].pc = "keep" => thread'[x] = thread[x] BY <2>1
    <3>3. Stands(q)' BY <1>2, <2>1, <3>1 DEF ThreadOK, Stands, Connected, Holding
    <3>4. Seals(q)'
      <4>1. thread[q].pc = "mark" => thread[q].env \in Space
        BY <3>1, <1>1, Bounds DEF ThreadOK, Seals, Typed, Server, Space
      <4>2. CASE q = p BY <1>2, <2>1, <2>2, <2>4, <2>5, <2>8, <3>1, <4>2 DEF ThreadOK, Seals, Connected
      <4>3. CASE q # p
        <5>1. thread'[q] = thread[q] BY <2>1, <4>3
        <5> QED BY <1>2, <2>5, <2>8, <3>1, <4>1, <5>1 DEF ThreadOK, Seals
      <4> QED BY <4>2, <4>3
    <3>5. Keeps(q)'
      BY <1>2, <2>5, <2>8, <3>1, <3>2 DEF ThreadOK, Keeps, New, Good
    <3> QED BY <1>2, <2>1, <2>8, <3>1, <3>3, <3>4, <3>5 DEF ThreadOK
  <2>10. \A l \in Lock : LockOK(l)'
    <3> TAKE l \in Lock
    <3>1. LockOK(l) BY DEF Inv
    <3>2. (\E q \in Thread : thread[q].pc = "keep" /\ thread[q].lock = l)
            => \E q \in Thread : thread'[q].pc = "keep" /\ thread'[q].lock = l
      BY <1>2, <2>1
    <3> QED BY <1>2, <2>5, <2>7, <2>8, <3>1, <3>2 DEF LockOK, Good, Past
  <2>11. SpaceOK' BY <1>1, <1>2, <2>5, <2>7, <2>8 DEF SpaceOK, Past
  <2>12. HoldsOK'
    <3>1. store.space \in 0..MaxSpaces BY <1>1 DEF Typed, Store
    <3> QED BY <1>1, <1>2, <2>5, <3>1, Bounds DEF HoldsOK, Space
  <2>13. TokenOK'
    <3>1. (\E q \in Thread : thread[q].pc = "keep" /\ locks[thread[q].lock].refresh = store.token)
            => \E q \in Thread : thread'[q].pc = "keep" /\ locks'[thread'[q].lock].refresh = store'.token
      BY <1>2, <2>1
    <3> QED BY <1>1, <1>2, <2>5, <2>8, <3>1 DEF TokenOK, New, Good
  <2> QED BY <2>6, <2>9, <2>10, <2>11, <2>12, <2>13 DEF Inv
<1> QED BY <1>4, <1>5, <1>6 DEF Send

\* mark_pushed: what the pass has pushed counts as pushed.
LEMMA MarkStep == ASSUME Inv, Mark PROVE Inv'
<1> DEFINE p == "pass"
<1>1. Typed /\ p \in Thread /\ ThreadOK(p) /\ SpaceOK /\ HoldsOK /\ TokenOK BY DEF Inv, Thread
<1>2. /\ thread[p].pc = "mark" /\ UNCHANGED <<server, locks, cached, refreshing, cmd, app, spent>>
      /\ store' = [store EXCEPT !.dirty = FALSE]
      /\ why' = IF store.space = thread[p].env THEN why ELSE why \cup {"marked"}
  BY DEF Mark, At
<1>3. /\ thread' \in [Thread -> Task] /\ \A q \in Thread : q # p => thread'[q] = thread[q]
      /\ thread'[p].pc = "out" /\ thread'[p].lock = thread[p].lock
      /\ thread'[p].out = "ok" /\ thread'[p].env = 0
  BY <1>1, EndsAt DEF Mark
<1>4. /\ store' \in Store /\ store'.active = store.active /\ store'.space = store.space
      /\ store'.left = store.left /\ store'.token = store.token
  BY <1>1, <1>2 DEF Typed, Store
<1>5. why' \in SUBSET Reason /\ (Lost' <=> Lost) /\ (Blamed' <=> Blamed) /\ ("told" \in why' <=> "told" \in why)
  BY <1>1, <1>2 DEF Typed, Reason, Lost, Blamed
<1>6. Typed' BY <1>1, <1>2, <1>3, <1>4, <1>5 DEF Typed
<1>7. (\A l : InUse(l)' <=> InUse(l)) /\ (\A s : Past(s)' <=> Past(s)) /\ (\A x : Good(x)' <=> Good(x))
      /\ (\A x : New(x)' <=> New(x))
  BY <1>2, <1>3, <1>4, <1>5 DEF InUse, Past, Good, New
<1>8. \A q \in Thread : thread'[q].pc = "keep" => thread'[q] = thread[q] BY <1>3
<1>9. \A q \in Thread : thread[q].pc = "keep" => thread'[q] = thread[q] BY <1>2, <1>3
<1>10. \A q \in Thread : ThreadOK(q)'
  <2> TAKE q \in Thread
  <2>1. ThreadOK(q) BY DEF Inv
  <2>2. CASE q = p BY <1>3, <2>2 DEF ThreadOK, Stands, Seals, Keeps, Connected, Holding
  <2>3. CASE q # p
    <3>1. thread'[q] = thread[q] BY <1>3, <2>3
    <3>2. Stands(q)' /\ Seals(q)' BY <1>2, <2>1, <3>1 DEF ThreadOK, Stands, Seals, Past
    <3>3. Keeps(q)' BY <1>2, <1>4, <1>5, <1>8, <2>1, <3>1 DEF ThreadOK, Keeps, New, Good
    <3> QED BY <1>5, <2>1, <3>1, <3>2, <3>3 DEF ThreadOK
  <2> QED BY <2>2, <2>3
<1>11. \A l \in Lock : LockOK(l)'
  <2> TAKE l \in Lock
  <2>1. LockOK(l) BY DEF Inv
  <2> QED BY <1>2, <1>4, <1>5, <1>7, <1>9, <2>1 DEF LockOK, Good, Past
<1>12. SpaceOK' BY <1>1, <1>2, <1>4, <1>5, <1>7 DEF SpaceOK, Past
<1>13. HoldsOK' BY <1>1, <1>2, <1>4 DEF HoldsOK, ThreadOK, Seals
<1>14. TokenOK' BY <1>1, <1>2, <1>4, <1>5, <1>9 DEF TokenOK, New, Good
<1> QED BY <1>6, <1>10, <1>11, <1>12, <1>13, <1>14 DEF Inv

------------------------------------------------------------------------------
(* Commands, the user, the server and the machine                           *)

\* What happens at the server, or to a command, while the threads and the store stay
\* where they are: spaces that are past stay past, tokens stay good or are lost.
LEMMA OutsideStep ==
  ASSUME Inv, UNCHANGED <<store, cached, refreshing, thread>>, app' \in Flags, spent' \in Count,
         server' \in Server, cmd' \in Asking, why' \in SUBSET Reason, locks' \in [Lock -> Connection],
         \A l \in Lock : /\ locks'[l].tokens = locks[l].tokens /\ locks'[l].refresh = locks[l].refresh
                         /\ locks'[l].space = locks[l].space
                         /\ locks[l] = NoLock => locks'[l] = NoLock,
         server.issued <= server'.issued, server'.refresh \subseteq 1..server'.issued,
         server.made <= server'.made,
         \A s : Past(s) => Past(s)', \A x : Good(x) => Good(x)',
         why \subseteq why', "marked" \in why' <=> "marked" \in why,
         \A s \in Space : server'.holds[s] \in {0, s},
         \A s \in 1..server.made : server.holds[s] = s => server'.holds[s] = s,
         "told" \notin why' => server'.space = server.space,
         SpaceOK', cmd'.grant <= server'.issued,
         \A q \in Thread : thread[q].pc = "keep" => thread[q].grant # cmd'.grant,
         cmd'.pc = "join" => New(cmd.grant)' /\ Good(cmd.grant)',
         cmd'.pc = "start" => cmd' = cmd
  PROVE  Inv'
<1>1. Typed /\ TokenOK /\ HoldsOK BY DEF Inv
<1>2. Typed' BY <1>1 DEF Typed
<1>3. (Lost => Lost') /\ (Blamed => Blamed') BY DEF Lost, Blamed
<1>4. (\A l : InUse(l)' <=> InUse(l)) /\ (\A x : New(x) => New(x)') BY DEF InUse, New
<1>5. server.issued \in Nat /\ server'.issued \in Nat /\ server.made \in Nat /\ server'.made \in Nat
  BY <1>1, Bounds DEF Typed, Server
<1>6. \A q \in Thread : thread[q].pc \in Connected => thread[q].lock \in Lock
  BY <1>1, OnALock DEF Inv
<1>7. \A q \in Thread : ThreadOK(q)'
  <2> TAKE q \in Thread
  <2>1. ThreadOK(q) BY DEF Inv
  <2>2. Stands(q)' BY <1>6, <2>1 DEF ThreadOK, Stands, Connected
  <2>3. Seals(q)'
    <3>1. thread[q].env # 0 /\ thread[q].pc \in Connected =>
            locks'[thread[q].lock].space = thread[q].env \/ Past(locks[thread[q].lock].space)
      BY <1>6, <2>1 DEF ThreadOK, Seals
    <3>2. \A s : s \in 1..server.made => s \in 1..server'.made BY <1>5
    <3>3. thread[q].pc \in Connected => locks'[thread[q].lock].space = locks[thread[q].lock].space BY <1>6
    <3>4. \A s : Past(s)' <=> (s \in 1..server'.made /\ s # server'.space) BY DEF Past
    <3>5. thread[q].env # 0 /\ thread[q].pc \in Connected =>
            \/ locks'[thread[q].lock].space = thread[q].env
            \/ /\ locks'[thread[q].lock].space \in 1..server'.made
               /\ locks'[thread[q].lock].space # server'.space
      BY <3>1, <3>3, <3>4
    <3>6. thread[q].pc = "mark" => thread[q].env \in 1..server'.made /\ server'.holds[thread[q].env] = thread[q].env
      BY <2>1, <3>2 DEF ThreadOK, Seals
    <3> QED BY <3>5, <3>6 DEF Seals, Past
  <2>4. Keeps(q)'
    <3> SUFFICES ASSUME thread[q].pc = "keep" PROVE Keeps(q)' BY DEF Keeps
    <3>1. Keeps(q) BY <2>1 DEF ThreadOK
    <3>2. thread[q].grant \in Nat BY <1>1, Bounds DEF Typed, Task
    <3>3. Good(thread[q].grant)' BY <3>1 DEF Keeps, Good
    <3>4. New(thread[q].grant)' BY <3>1 DEF Keeps, New
    <3>5. thread[q].grant <= server'.issued BY <1>5, <3>1, <3>2 DEF Keeps
    <3> QED BY <3>1, <3>3, <3>4, <3>5 DEF Keeps
  <2> QED BY <1>3, <2>1, <2>2, <2>3, <2>4 DEF ThreadOK
<1>8. \A l \in Lock : LockOK(l)'
  <2> TAKE l \in Lock
  <2>1. LockOK(l) BY DEF Inv
  <2>2. locks[l].refresh \in Nat BY <1>1, Bounds DEF Typed, Connection
  <2>3. Good(locks[l].refresh) => Good(locks[l].refresh)' BY DEF Good
  <2>4. Past(locks[l].space) => Past(locks[l].space)' BY DEF Past
  <2>5. locks'[l].refresh <= server'.issued BY <1>5, <2>1, <2>2 DEF LockOK
  <2> QED BY <1>3, <1>4, <2>1, <2>3, <2>4, <2>5 DEF LockOK
<1>9. HoldsOK'
  <2>1. store.space \in Nat /\ store.space <= server.made
    BY <1>1, Bounds DEF Typed, Store, Inv, SpaceOK
  <2>2. store.space # 0 => store.space \in 1..server.made BY <1>5, <2>1
  <2> QED BY <1>1, <2>2 DEF HoldsOK
<1>10. TokenOK'
  <2>1. store.token \in Nat BY <1>1, Bounds DEF Typed, Store
  <2>2. store'.token <= server'.issued BY <1>1, <1>5, <2>1 DEF TokenOK
  <2>3. Good(store.token) => Good(store.token)' BY DEF Good
  <2>4. cmd'.pc = "start" => Good(cmd.grant)' BY <1>1 DEF TokenOK, Good
  <2>5. \A q \in Thread : thread[q].pc = "keep" => locks'[thread'[q].lock].refresh = locks[thread[q].lock].refresh
    BY <1>6 DEF Connected
  <2> QED BY <1>1, <1>3, <2>2, <2>3, <2>4, <2>5 DEF TokenOK
<1> QED BY <1>2, <1>7, <1>8, <1>9, <1>10 DEF Inv

\* Access tokens run out, app sync is switched off or on, the vault is locked or
\* unlocked.
LEMMA SameStep ==
  ASSUME Inv, UNCHANGED <<store, cached, refreshing, thread, cmd, why>>, app' \in Flags, spent' \in Count,
         server' \in Server, locks' \in [Lock -> Connection],
         \A l \in Lock : /\ locks'[l].tokens = locks[l].tokens /\ locks'[l].refresh = locks[l].refresh
                         /\ locks'[l].space = locks[l].space
                         /\ locks[l] = NoLock => locks'[l] = NoLock,
         server'.issued = server.issued, server'.refresh = server.refresh,
         server'.made = server.made, server'.space = server.space, server'.holds = server.holds
  PROVE  Inv'
<1>1. Typed /\ TokenOK /\ HoldsOK /\ SpaceOK BY DEF Inv
<1>2. (\A s : Past(s) => Past(s)') /\ (\A x : Good(x) => Good(x)') BY DEF Past, Good, Lost
<1>3. \A l : InUse(l)' <=> InUse(l) BY DEF InUse
<1>4. SpaceOK' BY <1>1, <1>3 DEF SpaceOK, Past
<1>5. server.issued <= server'.issued /\ server.made <= server'.made /\ cmd' \in Asking /\ why' \in SUBSET Reason
  BY <1>1, Bounds DEF Typed, Server
<1>6. /\ server'.refresh \subseteq 1..server'.issued /\ cmd'.grant <= server'.issued
      /\ (cmd'.pc = "join" => New(cmd.grant)' /\ Good(cmd.grant)')
      /\ \A s \in Space : server'.holds[s] \in {0, s}
  BY <1>1 DEF TokenOK, New, Good, HoldsOK, Lost
<1>7. \A q \in Thread : thread[q].pc = "keep" => thread[q].grant # cmd'.grant BY DEF Inv, ThreadOK, Keeps
<1> QED BY <1>2, <1>4, <1>5, <1>6, <1>7, OutsideStep

\* Locking, a token that expires, and app sync switched off or on touch no thread.
LEMMA QuietStep == ASSUME Inv, LockOrUnlock \/ Expire \/ Switch PROVE Inv'
<1>1. Typed BY DEF Inv
<1>2. spent' \in Count BY <1>1, Counted DEF LockOrUnlock, Expire, Switch
<1>3. CASE LockOrUnlock
  <2>1. app' \in Flags /\ server' \in Server /\ locks' \in [Lock -> Connection]
    BY <1>1, <1>3 DEF LockOrUnlock, Typed, Flags
  <2> QED BY <1>2, <1>3, <2>1, SameStep DEF LockOrUnlock
<1>4. CASE Switch
  <2>1. app' \in Flags /\ locks' \in [Lock -> Connection] BY <1>1, <1>4 DEF Switch, Typed
  <2>2. /\ server' \in Server /\ server'.issued = server.issued /\ server'.refresh = server.refresh
        /\ server'.made = server.made /\ server'.space = server.space /\ server'.holds = server.holds
    BY <1>1, <1>4 DEF Switch, Typed, Server
  <2> QED BY <1>2, <1>4, <2>1, <2>2, SameStep DEF Switch
<1>5. CASE Expire
  <2>1. app' \in Flags BY <1>1, <1>5 DEF Expire, Typed
  <2>2. /\ server' \in Server /\ server'.issued = server.issued /\ server'.refresh = server.refresh
        /\ server'.made = server.made /\ server'.space = server.space /\ server'.holds = server.holds
    BY <1>1, <1>5 DEF Expire, Typed, Server
  <2>3. PICK early \in BOOLEAN : locks' = [l \in Lock |-> [locks[l] EXCEPT !.fresh = @ /\ early]]
    BY <1>5 DEF Expire
  <2>4. /\ locks' \in [Lock -> Connection]
        /\ \A l \in Lock : /\ locks'[l].tokens = locks[l].tokens /\ locks'[l].refresh = locks[l].refresh
                           /\ locks'[l].space = locks[l].space
    BY <1>1, <2>3 DEF Typed, Connection
  <2>5. \A l \in Lock : locks[l] = NoLock => locks'[l] = NoLock
    <3> SUFFICES ASSUME NEW l \in Lock, locks[l] = NoLock PROVE locks'[l] = NoLock OBVIOUS
    <3>1. locks'[l] = [NoLock EXCEPT !.fresh = NoLock.fresh /\ early] BY <2>3
    <3> QED BY <3>1 DEF NoLock
  <2> QED BY <1>2, <1>5, <2>1, <2>2, <2>4, <2>5, SameStep DEF Expire
<1> QED BY <1>3, <1>4, <1>5

\* The server ends the session: every token is lost.
LEMMA EndSessionStep == ASSUME Inv, EndSession PROVE Inv'
<1>1. Typed /\ TokenOK /\ HoldsOK /\ SpaceOK BY DEF Inv
<1>2. spent' \in Count BY <1>1, Counted DEF EndSession
<1>3. /\ server' \in Server /\ server'.issued = server.issued /\ server'.refresh = {}
      /\ server'.made = server.made /\ server'.space = server.space /\ server'.holds = server.holds
  BY <1>1 DEF EndSession, Typed, Server
<1>4. UNCHANGED <<store, locks, cached, refreshing, thread, cmd, app>> /\ why' = why \cup {"lost"}
  BY DEF EndSession
<1>5. why' \in SUBSET Reason /\ Lost' BY <1>1, <1>4 DEF Typed, Reason, Lost
<1>6. (\A s : Past(s) => Past(s)') /\ (\A x : Good(x)') BY <1>3, <1>5 DEF Past, Good
<1>7. \A l : InUse(l)' <=> InUse(l) BY <1>4 DEF InUse
<1>8. SpaceOK' BY <1>1, <1>3, <1>4, <1>7 DEF SpaceOK, Past
<1>9. server.issued <= server'.issued /\ server.made <= server'.made /\ cmd' \in Asking
      /\ app' \in Flags /\ locks' \in [Lock -> Connection]
  BY <1>1, <1>3, <1>4, Bounds DEF Typed, Server
<1>10. /\ server'.refresh \subseteq 1..server'.issued /\ cmd'.grant <= server'.issued
       /\ (cmd'.pc = "join" => New(cmd.grant)' /\ Good(cmd.grant)')
       /\ \A s \in Space : server'.holds[s] \in {0, s}
  BY <1>1, <1>3, <1>4, <1>5 DEF TokenOK, New, Good, HoldsOK
<1>11. \A q \in Thread : thread[q].pc = "keep" => thread[q].grant # cmd'.grant
  BY <1>4 DEF Inv, ThreadOK, Keeps
<1>12. ("marked" \in why' <=> "marked" \in why) /\ why \subseteq why' BY <1>4
<1> QED BY <1>2, <1>3, <1>4, <1>5, <1>6, <1>8, <1>9, <1>10, <1>11, <1>12, OutsideStep

\* Another device gives the space a new key or deletes it: the spaces that were the
\* account's stay past.
LEMMA RekeyStep == ASSUME Inv, Rekey PROVE Inv'
<1>1. Typed /\ TokenOK /\ HoldsOK /\ SpaceOK BY DEF Inv
<1>2. spent' \in Count BY <1>1, Counted DEF Rekey
<1>3. UNCHANGED <<store, locks, cached, refreshing, thread, cmd, app>> /\ why' = why \cup {"told"}
  BY DEF Rekey
<1>4. server \in Server /\ server.made \in Nat /\ server.space \in Nat /\ server.issued \in Nat /\ MaxSpaces \in Nat
  BY <1>1, Bounds DEF Typed, Server
<1>5. /\ server' \in Server /\ server'.issued = server.issued /\ server'.refresh = server.refresh
      /\ server.made <= server'.made /\ server'.space <= server'.made
      /\ \A s \in 1..server.made : s # server'.space \/ s = server.space
      /\ \A s \in Space : server'.holds[s] \in {0, s}
      /\ \A s \in 1..server.made : server'.holds[s] = server.holds[s]
  <2>1. CASE server' = [server EXCEPT !.space = 0]
    BY <1>1, <1>4, <2>1 DEF Server, HoldsOK
  <2>2. CASE /\ server.made < MaxSpaces
             /\ \E r \in {0, server.made + 1} :
                  server' = [server EXCEPT !.made = server.made + 1, !.space = server.made + 1,
                                           !.holds[server.made + 1] = r]
    <3>1. PICK n \in Int : n = server.made + 1 BY <1>4
    <3>2. PICK r \in {0, n} : server' = [server EXCEPT !.made = n, !.space = n, !.holds[n] = r]
      BY <2>2, <3>1
    <3>3. n \in Space /\ n \in 0..MaxSpaces /\ r \in 0..MaxSpaces BY <1>4, <2>2, <3>1 DEF Space
    <3>4. PICK h \in [Space -> 0..MaxSpaces] : h = [server.holds EXCEPT ![n] = r]
      BY <1>4, <3>3 DEF Server
    <3>5. server' = [server EXCEPT !.made = n, !.space = n, !.holds = h] BY <1>4, <3>2, <3>4 DEF Server
    <3>6. /\ server' \in Server /\ server'.issued = server.issued /\ server'.refresh = server.refresh
          /\ server'.made = n /\ server'.space = n /\ server'.holds = h
      BY <1>4, <3>3, <3>5 DEF Server
    <3>7. \A s \in Space : h[s] \in {0, s}
      BY <1>1, <1>4, <3>2, <3>4 DEF HoldsOK, Server
    <3>8. \A s \in 1..server.made : h[s] = server.holds[s] /\ s # n
      <4>1. \A s \in 1..server.made : s \in Space /\ s # n BY <1>4, <2>2, <3>1 DEF Space
      <4> QED BY <1>4, <3>4, <4>1 DEF Server
    <3> QED BY <1>4, <3>1, <3>6, <3>7, <3>8
  <2> QED BY <2>1, <2>2 DEF Rekey
<1>6. why' \in SUBSET Reason /\ (Lost' <=> Lost) BY <1>1, <1>3 DEF Typed, Reason, Lost
<1>7. \A s : Past(s) => Past(s)'
  <2>1. server'.made \in Nat BY <1>5, Bounds DEF Server
  <2> QED BY <1>4, <1>5, <2>1 DEF Past
<1>8. \A x : Good(x) => Good(x)' BY <1>5, <1>6 DEF Good
<1>9. SpaceOK'
  <2>1. server'.made \in Nat /\ store.space \in Nat /\ cmd.space \in Nat /\ MaxSpaces \in Nat
    BY <1>1, <1>5, Bounds DEF Server, Typed, Store, Asking
  <2>2. store.space <= server'.made /\ cmd.space <= server'.made
    BY <1>1, <1>4, <1>5, <2>1 DEF SpaceOK
  <2>3. store.left \subseteq 1..server'.made BY <1>1, <1>4, <1>5, <2>1 DEF SpaceOK
  <2>4. Past(store.space) => Past(store.space)' BY <1>3, <1>7 DEF Past
  <2>5. "told" \in why' BY <1>3
  <2> QED BY <1>1, <1>3, <1>5, <2>2, <2>3, <2>4, <2>5 DEF SpaceOK
<1>10. server.issued <= server'.issued /\ cmd' \in Asking /\ app' \in Flags /\ locks' \in [Lock -> Connection]
  BY <1>1, <1>3, <1>4, <1>5 DEF Typed
<1>11. /\ server'.refresh \subseteq 1..server'.issued /\ cmd'.grant <= server'.issued
       /\ (cmd'.pc = "join" => New(cmd.grant)' /\ Good(cmd.grant)')
  BY <1>1, <1>3, <1>5, <1>6 DEF TokenOK, New, Good
<1>12. \A q \in Thread : thread[q].pc = "keep" => thread[q].grant # cmd'.grant
  BY <1>3 DEF Inv, ThreadOK, Keeps
<1>13. ("marked" \in why' <=> "marked" \in why) /\ why \subseteq why' /\ "told" \in why' BY <1>3
<1> QED BY <1>2, <1>3, <1>5, <1>6, <1>7, <1>8, <1>9, <1>10, <1>11, <1>12, <1>13, OutsideStep

\* sign_in: the space the account has is one the device has not left, or a new one;
\* the grant is one nobody has.
LEMMA SignInStep == ASSUME Inv, SignIn PROVE Inv'
<1>1. Typed /\ TokenOK /\ HoldsOK /\ SpaceOK BY DEF Inv
<1>2. spent' \in Count BY <1>1, Counted DEF SignIn
<1>3. UNCHANGED <<store, locks, cached, refreshing, thread, app, why>> /\ server.issued < MaxGrants
  BY DEF SignIn
<1>4. /\ server \in Server /\ server.made \in Nat /\ server.space \in Nat /\ server.issued \in Nat
      /\ MaxSpaces \in Nat /\ MaxGrants \in Nat /\ cmd.shown \in -1..MaxSpaces
  BY <1>1, Bounds DEF Typed, Server, Asking
<1>5. PICK g \in Int : g = server.issued + 1 BY <1>4
<1>6. g \in 0..MaxGrants /\ g \in Grant /\ g > server.issued BY <1>3, <1>4, <1>5 DEF Grant
<1>7. why' \in SUBSET Reason /\ (Lost' <=> Lost) /\ app' \in Flags /\ locks' \in [Lock -> Connection]
      /\ ("marked" \in why' <=> "marked" \in why) /\ why \subseteq why'
  BY <1>1, <1>3 DEF Typed, Lost
<1>8. \A l : InUse(l)' <=> InUse(l) BY <1>3 DEF InUse
<1>9. store.space \in Nat /\ store.token \in Nat BY <1>1, Bounds DEF Typed, Store
<1>10. CASE UNCHANGED server /\ cmd' = [NoCmd EXCEPT !.shown = IF Left(server.space) THEN -1 ELSE server.space]
  <2>1. PICK w \in -1..MaxSpaces : w = IF Left(server.space) THEN -1 ELSE server.space
    BY <1>4 DEF Server
  <2>2. cmd' = [NoCmd EXCEPT !.shown = w] BY <1>10, <2>1
  <2>3. cmd' \in Asking /\ cmd'.pc = NoCmd.pc /\ cmd'.grant = NoCmd.grant /\ cmd'.space = NoCmd.space
    BY <2>2, IdleTyped DEF Asking
  <2>4. cmd'.pc = "idle" /\ cmd'.grant = 0 /\ cmd'.space = 0 BY <2>3 DEF NoCmd
  <2>5. (\A s : Past(s) => Past(s)') /\ (\A x : Good(x) => Good(x)')
    BY <1>7, <1>10 DEF Past, Good
  <2>6. SpaceOK' BY <1>1, <1>3, <1>4, <1>8, <1>10, <2>4 DEF SpaceOK, Past
  <2>7. \A q \in Thread : thread[q].pc = "keep" => thread[q].grant # cmd'.grant
    BY <2>4 DEF Inv, ThreadOK, Keeps, New
  <2>8. server' \in Server /\ server.issued <= server'.issued /\ server.made <= server'.made
        /\ cmd'.grant <= server'.issued
    BY <1>4, <1>10, <2>4
  <2>9. server'.refresh \subseteq 1..server'.issued /\ \A s \in Space : server'.holds[s] \in {0, s}
    BY <1>1, <1>10 DEF TokenOK, HoldsOK
  <2> QED BY <1>2, <1>3, <1>7, <1>10, <2>3, <2>4, <2>5, <2>6, <2>7, <2>8, <2>9, OutsideStep
<1>11. ASSUME NEW s \in Nat, s # 0, cmd' = [NoCmd EXCEPT !.pc = "join", !.grant = g, !.space = s],
              server' \in Server, server'.issued = g, server'.refresh = server.refresh \cup {g},
              server'.holds = server.holds, server'.space = s, server.made <= server'.made, s <= server'.made,
              s \notin store.left, s = server.space \/ (server.space = 0 /\ s > server.made)
       PROVE  Inv'
  <2>1. s \in 0..MaxSpaces /\ server'.made \in Nat BY <1>11, Bounds DEF Server
  <2>2. cmd' \in Asking /\ cmd'.pc = "join" /\ cmd'.grant = g /\ cmd'.space = s
    BY <1>6, <1>11, <2>1, IdleTyped DEF Asking
  <2>3. \A x : Past(x) => Past(x)'
    BY <1>4, <1>11, <2>1 DEF Past
  <2>4. \A x : Good(x) => Good(x)' BY <1>7, <1>11 DEF Good
  <2>5. SpaceOK'
    <3>1. store.space \in {0, s} \/ Past(store.space)'
      BY <1>1, <1>3, <1>4, <1>9, <1>11, <2>1 DEF SpaceOK, Past
    <3>2. "told" \notin why => server.space = s BY <1>1, <1>11 DEF SpaceOK
    <3>3. store.space <= server'.made /\ store.left \subseteq 1..server'.made
      BY <1>1, <1>4, <1>9, <1>11, <2>1 DEF SpaceOK
    <3> QED BY <1>1, <1>3, <1>8, <1>11, <2>2, <3>1, <3>2, <3>3 DEF SpaceOK
  <2>6. \A l \in Lock : locks[l].refresh \in Nat /\ locks[l].refresh <= server.issued
    BY <1>1, Bounds DEF Inv, LockOK, Typed, Connection
  <2>7. New(cmd.grant)' BY <1>1, <1>3, <1>4, <1>6, <1>9, <2>2, <2>6 DEF New, TokenOK
  <2>8. Good(cmd.grant)' BY <1>11, <2>2 DEF Good
  <2>9. \A q \in Thread : thread[q].pc = "keep" => thread[q].grant # cmd'.grant
    <3>1. \A q \in Thread : thread[q].grant \in Nat BY <1>1, Bounds DEF Typed, Task
    <3> QED BY <1>4, <1>6, <2>2, <3>1 DEF Inv, ThreadOK, Keeps
  <2>10. server.issued <= server'.issued /\ cmd'.grant <= server'.issued
    BY <1>4, <1>6, <1>11, <2>2
  <2>11. server'.refresh \subseteq 1..server'.issued
    BY <1>1, <1>4, <1>6, <1>11 DEF TokenOK
  <2>12. "told" \notin why' => server'.space = server.space BY <1>1, <1>3, <1>11 DEF SpaceOK
  <2>13. \A x \in Space : server'.holds[x] \in {0, x} BY <1>1, <1>11 DEF HoldsOK
  <2> QED BY <1>2, <1>3, <1>7, <1>11, <2>2, <2>3, <2>4, <2>5, <2>7, <2>8, <2>9, <2>10, <2>11, <2>12, <2>13, OutsideStep
<1>12. /\ Granted(server, 0) \in Server /\ Granted(server, 0).issued = g
       /\ Granted(server, 0).refresh = server.refresh \cup {g} /\ Granted(server, 0).holds = server.holds
       /\ Granted(server, 0).made = server.made /\ Granted(server, 0).space = server.space
  <2>1. 0 \notin server.refresh BY <1>1, <1>4 DEF TokenOK
  <2> QED BY <1>4, <1>5, <1>6, <2>1 DEF Granted, Server
<1>13. CASE /\ server.space # 0 /\ ~Left(server.space) /\ server' = Granted(server, 0)
            /\ cmd' = [NoCmd EXCEPT !.pc = "join", !.grant = server.issued + 1, !.space = server.space]
  <2>1. PICK s \in Nat : s = server.space BY <1>4
  <2>2. s # 0 /\ s \notin store.left /\ s <= server.made BY <1>1, <1>13, <2>1 DEF SpaceOK, Left
  <2>3. /\ server' \in Server /\ server'.issued = g /\ server'.refresh = server.refresh \cup {g}
        /\ server'.holds = server.holds /\ server'.space = s /\ server'.made = server.made
    BY <1>12, <1>13, <2>1
  <2>4. server.made <= server'.made /\ s <= server'.made BY <1>4, <2>2, <2>3
  <2>5. cmd' = [NoCmd EXCEPT !.pc = "join", !.grant = g, !.space = s] BY <1>5, <1>13, <2>1
  <2> QED BY <1>11, <2>1, <2>2, <2>3, <2>4, <2>5
<1>14. CASE /\ server.space = 0 /\ server.made < MaxSpaces
            /\ server' = [Granted(server, 0) EXCEPT !.made = @ + 1, !.space = server.made + 1]
            /\ cmd' = [NoCmd EXCEPT !.pc = "join", !.grant = server.issued + 1, !.space = server.made + 1]
  <2>1. PICK s \in Nat : s = server.made + 1 BY <1>4
  <2>2. s \in 0..MaxSpaces /\ s # 0 /\ s > server.made BY <1>4, <1>14, <2>1
  <2>3. server' = [Granted(server, 0) EXCEPT !.made = s, !.space = s] BY <1>12, <1>14, <2>1
  <2>4. /\ server' \in Server /\ server'.issued = g /\ server'.refresh = server.refresh \cup {g}
        /\ server'.holds = server.holds /\ server'.space = s /\ server'.made = s
    BY <1>12, <2>2, <2>3 DEF Server
  <2>5. s \notin store.left BY <1>1, <1>4, <2>2 DEF SpaceOK
  <2>6. server.made <= server'.made /\ s <= server'.made BY <1>4, <2>2, <2>4
  <2> QED BY <1>5, <1>11, <1>14, <2>1, <2>2, <2>4, <2>5, <2>6
<1> QED BY <1>10, <1>13, <1>14 DEF SignIn, MayTake

\* join_space: the device takes the space of the account, its records come along and
\* the space it was in is left.
LEMMA JoinStep == ASSUME Inv, Join PROVE Inv'
<1>1. Typed /\ TokenOK /\ HoldsOK /\ SpaceOK BY DEF Inv
<1>2. cmd.pc = "join" /\ UNCHANGED <<server, locks, cached, refreshing, thread, why, spent>>
  BY DEF Join
<1>3. New(cmd.grant) /\ Good(cmd.grant) /\ cmd.grant # 0 BY <1>1, <1>2 DEF TokenOK, New
<1>4. /\ server.made \in Nat /\ server.space \in Nat /\ server.issued \in Nat /\ MaxSpaces \in Nat
      /\ store.space \in Nat /\ cmd.space \in Nat /\ store.space \in 0..MaxSpaces /\ cmd.space \in 0..MaxSpaces
  BY <1>1, Bounds DEF Typed, Server, Store, Asking
<1>5. CASE cmd' = NoCmd /\ UNCHANGED <<store, app>>
  <2>1. cmd' \in Asking /\ cmd'.pc = "idle" /\ cmd'.grant = 0 /\ cmd'.space = 0
    BY <1>5, IdleTyped DEF NoCmd
  <2>2. (\A s : Past(s) => Past(s)') /\ (\A x : Good(x) => Good(x)') /\ \A l : InUse(l)' <=> InUse(l)
    BY <1>2 DEF Past, Good, Lost, InUse
  <2>3. SpaceOK' BY <1>1, <1>2, <1>4, <1>5, <2>1, <2>2 DEF SpaceOK, Past
  <2>4. /\ server' \in Server /\ server.issued <= server'.issued /\ server.made <= server'.made
        /\ cmd'.grant <= server'.issued /\ why' \in SUBSET Reason /\ app' \in Flags /\ spent' \in Count
        /\ locks' \in [Lock -> Connection] /\ server'.refresh \subseteq 1..server'.issued
        /\ \A s \in Space : server'.holds[s] \in {0, s}
    BY <1>1, <1>2, <1>4, <1>5, <2>1 DEF Typed, TokenOK, HoldsOK
  <2>5. \A q \in Thread : thread[q].pc = "keep" => thread[q].grant # cmd'.grant
    BY <2>1 DEF Inv, ThreadOK, Keeps, New
  <2> QED BY <1>2, <1>5, <2>1, <2>2, <2>3, <2>4, <2>5, OutsideStep
<1>6. CASE /\ store' = Joined(cmd.space) /\ app' = [app EXCEPT !.unlocked = TRUE]
           /\ cmd' = [cmd EXCEPT !.pc = "start"]
  <2>1. cmd' \in Asking /\ cmd'.pc = "start" /\ cmd'.grant = cmd.grant /\ cmd'.space = cmd.space
    BY <1>1, <1>6 DEF Typed, Asking
  <2>2. PICK left \in SUBSET Space : left = (store.left \cup ({store.space} \ {0})) \ {cmd.space}
    <3>1. \A s \in {store.space} \ {0} : s \in Space BY <1>4 DEF Space
    <3>2. store.left \subseteq Space BY <1>1 DEF Typed, Store
    <3>3. (store.left \cup ({store.space} \ {0})) \ {cmd.space} \in SUBSET Space BY <3>1, <3>2
    <3> QED BY <3>3
  <2>3. PICK dirty \in BOOLEAN : dirty = (store.dirty \/ store.space # cmd.space)
    BY <1>1 DEF Typed, Store
  <2>4. store' = [store EXCEPT !.active = TRUE, !.token = cmd.grant, !.space = cmd.space,
                               !.left = left, !.dirty = dirty]
    BY <1>1, <1>6, <2>2, <2>3 DEF Joined, Typed, Store
  <2>5. store \in Store /\ cmd.grant \in 0..MaxGrants BY <1>1 DEF Typed, Asking
  <2>6. /\ store' \in Store /\ store'.active /\ store'.token = cmd.grant /\ store'.space = cmd.space
        /\ store'.left = left /\ store'.dirty = dirty
    BY <1>4, <2>4, <2>5 DEF Store
  <2>7. app' \in Flags BY <1>1, <1>6 DEF Typed, Flags
  <2>8. Typed' BY <1>1, <1>2, <2>1, <2>6, <2>7 DEF Typed
  <2>9. (\A s : Past(s)' <=> Past(s)) /\ (\A x : Good(x)' <=> Good(x)) /\ (\A l : InUse(l)' <=> InUse(l))
        /\ (Lost' <=> Lost) /\ (Blamed' <=> Blamed)
    BY <1>2 DEF Past, Good, Lost, InUse, Blamed
  <2>10. store.space \in {0, cmd.space} \/ Past(store.space) BY <1>1, <1>2 DEF SpaceOK
  <2>11. \A q \in Thread : ThreadOK(q)'
    <3> TAKE q \in Thread
    <3>1. ThreadOK(q) BY DEF Inv
    <3>2. Stands(q)' /\ Seals(q)' BY <1>2, <3>1 DEF ThreadOK, Stands, Seals, Past
    <3>3. Keeps(q)' BY <1>2, <2>1, <2>6, <2>9, <3>1 DEF ThreadOK, Keeps, New, Good
    <3> QED BY <1>2, <2>9, <3>1, <3>2, <3>3 DEF ThreadOK
  <2>12. \A l \in Lock : LockOK(l)'
    <3> TAKE l \in Lock
    <3>1. LockOK(l) BY DEF Inv
    <3>2. locks[l].space \in {0, cmd.space} \/ Past(locks[l].space) BY <2>10, <3>1 DEF LockOK
    <3> QED BY <1>2, <2>6, <2>9, <3>1, <3>2 DEF LockOK, Good, Past
  <2>13. SpaceOK'
    <3>1. left \subseteq 1..server.made BY <1>1, <1>4, <2>2 DEF SpaceOK
    <3> QED BY <1>1, <1>2, <2>1, <2>6, <2>9, <3>1 DEF SpaceOK
  <2>14. HoldsOK' BY <1>1, <1>2, <2>3, <2>6 DEF HoldsOK
  <2>15. TokenOK' BY <1>1, <1>2, <1>3, <2>1, <2>6, <2>9 DEF TokenOK, New, Good
  <2> QED BY <2>8, <2>11, <2>12, <2>13, <2>14, <2>15 DEF Inv
<1> QED BY <1>5, <1>6 DEF Join

\* start_syncing: a new connection with the sign-in's own grant becomes the cached one.
LEMMA StartSyncingStep == ASSUME Inv, StartSyncing PROVE Inv'
<1>1. Typed /\ TokenOK /\ HoldsOK /\ SpaceOK BY DEF Inv
<1>2. cmd.pc = "start" /\ UNCHANGED <<server, store, refreshing, thread, why, spent>> /\ cmd' = NoCmd
      /\ app' = [app EXCEPT !.refused = FALSE]
  BY DEF StartSyncing
<1>3. PICK l \in Lock : l = CHOOSE k \in Free : TRUE BY <1>1, FreeLock
<1>4. ~InUse(l) BY <1>1, <1>3, FreeLock
<1> DEFINE c == [Took(l, cmd.grant)[l] EXCEPT !.space = cmd.space]
           conns == [locks EXCEPT ![l] = c]
<1>5. cached' = l /\ Used(conns) BY <1>3 DEF StartSyncing
<1>6. c \in Connection /\ c.tokens /\ c.refresh = cmd.grant /\ c.space = cmd.space
  <2>1. locks[l] \in Connection /\ cmd.grant \in 0..MaxGrants /\ cmd.space \in 0..MaxSpaces
    BY <1>1 DEF Typed, Asking
  <2>2. Took(l, cmd.grant)[l] = [locks[l] EXCEPT !.tokens = TRUE, !.refresh = cmd.grant, !.access = cmd.grant, !.fresh = TRUE]
    BY <1>1 DEF Took, Typed
  <2>3. Took(l, cmd.grant)[l] \in Connection /\ Took(l, cmd.grant)[l].tokens /\ Took(l, cmd.grant)[l].refresh = cmd.grant
    BY <2>1, <2>2 DEF Connection
  <2> QED BY <2>1, <2>3 DEF Connection
<1> HIDE DEF c
<1>7. \A k \in Lock : InUse(k)' <=> k = l \/ \E p \in Thread : k = thread[p].lock
  BY <1>2, <1>5 DEF InUse, Lock
<1>8. \A k \in Lock : InUse(k)' => k = l \/ InUse(k) BY <1>7 DEF InUse, Lock
<1>9. \A k \in Lock : locks'[k] = IF InUse(k)' THEN (IF k = l THEN c ELSE locks[k]) ELSE NoLock
  <2>1. \A k \in Lock : conns[k] = IF k = l THEN c ELSE locks[k] BY <1>1 DEF Typed
  <2> HIDE DEF conns
  <2> QED BY <1>5, <2>1, UsedLocks
<1>10. locks' \in [Lock -> Connection]
  <2>1. locks' = [k \in Lock |-> locks'[k]] BY <1>5, UsedLocks
  <2>2. \A k \in Lock : locks'[k] \in Connection BY <1>1, <1>6, <1>9, IdleTyped DEF Typed
  <2> QED BY <2>1, <2>2
<1>11. cmd' \in Asking /\ cmd'.pc = "idle" /\ cmd'.grant = 0 /\ cmd'.space = 0 BY <1>2, IdleTyped DEF NoCmd
<1>12. app' \in Flags /\ cached' \in 0..4
  <2>1. app' \in Flags BY <1>1, <1>2 DEF Typed, Flags
  <2>2. cached' \in 0..4 BY <1>5 DEF Lock
  <2> QED BY <2>1, <2>2
<1>13. Typed' BY <1>1, <1>2, <1>10, <1>11, <1>12 DEF Typed
<1>14. (\A s : Past(s)' <=> Past(s)) /\ (\A x : Good(x)' <=> Good(x)) /\ (Lost' <=> Lost) /\ (Blamed' <=> Blamed)
  BY <1>2 DEF Past, Good, Lost, Blamed
<1>15. \A q \in Thread : thread[q].pc \in Connected =>
         thread[q].lock \in Lock /\ locks'[thread[q].lock] = locks[thread[q].lock]
  <2> SUFFICES ASSUME NEW q \in Thread, thread[q].pc \in Connected
               PROVE  thread[q].lock \in Lock /\ locks'[thread[q].lock] = locks[thread[q].lock] OBVIOUS
  <2>1. ThreadOK(q) BY DEF Inv
  <2>2. thread[q].lock \in Lock /\ InUse(thread[q].lock) BY <1>1, <2>1, OnALock
  <2>3. thread[q].lock # l BY <1>4, <2>2
  <2> QED BY <1>7, <1>9, <2>2, <2>3
<1>16. cmd.grant # 0 /\ Good(cmd.grant) /\ cmd.space # 0 /\ cmd.space = store.space
       /\ (Lost \/ \A k \in Lock : locks[k].refresh # cmd.grant)
  BY <1>1, <1>2 DEF TokenOK, SpaceOK
<1>17. \A q \in Thread : ThreadOK(q)'
  <2> TAKE q \in Thread
  <2>1. ThreadOK(q) BY DEF Inv
  <2>2. Stands(q)' /\ Seals(q)' BY <1>2, <1>15, <2>1 DEF ThreadOK, Stands, Seals, Past, Connected
  <2>3. Keeps(q)'
    <3> SUFFICES ASSUME thread[q].pc = "keep" PROVE Keeps(q)' BY <1>2 DEF Keeps
    <3>1. Keeps(q) BY <2>1 DEF ThreadOK
    <3>2. New(thread[q].grant)' BY <1>2, <1>6, <1>9, <3>1 DEF Keeps, New, NoLock
    <3>3. thread[q].grant # 0 BY <3>1 DEF Keeps, New
    <3> QED BY <1>2, <1>11, <1>14, <3>1, <3>2, <3>3 DEF Keeps, Good
  <2> QED BY <1>2, <1>14, <2>1, <2>2, <2>3 DEF ThreadOK
<1>18. \A k \in Lock : LockOK(k)'
  <2> TAKE k \in Lock
  <2>1. LockOK(k) BY DEF Inv
  <2>2. CASE ~InUse(k)'
    <3>1. locks'[k] = NoLock /\ server.issued \in Nat BY <1>1, <1>9, <2>2, Bounds DEF Typed, Server
    <3> QED BY <1>2, <2>2, <3>1 DEF LockOK, NoLock
  <2>3. CASE InUse(k)' /\ k # l
    <3>1. locks'[k] = locks[k] /\ InUse(k) BY <1>8, <1>9, <2>3
    <3> QED BY <1>2, <1>14, <2>1, <2>3, <3>1 DEF LockOK, Good, Past
  <2>4. CASE k = l
    <3>1. InUse(k)' /\ locks'[k] = c BY <1>7, <1>9, <2>4
    <3>2. cmd.grant <= server.issued BY <1>1 DEF TokenOK
    <3>3. Good(locks[k].refresh)' BY <1>2, <1>6, <1>14, <1>16, <3>1 DEF Good
    <3> QED BY <1>2, <1>6, <1>14, <1>16, <3>1, <3>2, <3>3 DEF LockOK
  <2> QED BY <2>2, <2>3, <2>4
<1>19. SpaceOK'
  <2>1. server.made \in Nat BY <1>1, Bounds DEF Typed, Server
  <2>2. "told" \notin why => \A k \in Lock : InUse(k)' => locks'[k].space = server.space
    BY <1>1, <1>2, <1>6, <1>8, <1>9 DEF SpaceOK
  <2> QED BY <1>1, <1>2, <1>11, <2>1, <2>2 DEF SpaceOK
<1>20. HoldsOK' BY <1>1, <1>2 DEF HoldsOK
<1>21. TokenOK'
  <2>1. ~Lost => \A k, m \in Lock : k # m /\ locks'[k].refresh # 0 => locks'[k].refresh # locks'[m].refresh
    BY <1>1, <1>6, <1>9, <1>16 DEF TokenOK, NoLock
  <2>2. (\E q \in Thread : thread[q].pc = "keep" /\ locks[thread[q].lock].refresh = store.token)
          => \E q \in Thread : thread'[q].pc = "keep" /\ locks'[thread'[q].lock].refresh = store'.token
    BY <1>2, <1>15 DEF Connected
  <2>3. server.issued \in Nat BY <1>1, Bounds DEF Typed, Server
  <2> QED BY <1>1, <1>2, <1>11, <1>14, <2>1, <2>2, <2>3 DEF TokenOK, Good
<1> QED BY <1>13, <1>17, <1>18, <1>19, <1>20, <1>21 DEF Inv

\* leave_lock: the token goes, the space stays.
LEMMA SignOutStep == ASSUME Inv, SignOut PROVE Inv'
<1>1. Typed /\ TokenOK /\ HoldsOK /\ SpaceOK BY DEF Inv
<1>2. /\ UNCHANGED <<server, locks, cached, refreshing, thread, app, why>>
      /\ store' = [store EXCEPT !.active = FALSE, !.token = 0] /\ cmd' = [NoCmd EXCEPT !.pc = "leave"]
  BY DEF SignOut
<1>3. spent' \in Count BY <1>1, Counted DEF SignOut
<1>4. /\ store' \in Store /\ ~store'.active /\ store'.token = 0 /\ store'.space = store.space
      /\ store'.left = store.left /\ store'.dirty = store.dirty
  <2>1. store \in Store /\ 0 \in 0..MaxGrants BY <1>1, Bounds DEF Typed
  <2> QED BY <1>2, <2>1 DEF Store
<1>5. cmd' \in Asking /\ cmd'.pc = "leave" /\ cmd'.grant = 0 /\ cmd'.space = 0
  <2>1. cmd' \in Asking /\ cmd'.pc = "leave" /\ cmd'.grant = NoCmd.grant /\ cmd'.space = NoCmd.space
    BY <1>2, IdleTyped DEF Asking
  <2> QED BY <2>1 DEF NoCmd
<1>6. Typed' BY <1>1, <1>2, <1>3, <1>4, <1>5 DEF Typed
<1>7. (\A s : Past(s)' <=> Past(s)) /\ (\A x : Good(x)' <=> Good(x)) /\ (Lost' <=> Lost) /\ (Blamed' <=> Blamed)
      /\ (\A l : InUse(l)' <=> InUse(l))
  BY <1>2 DEF Past, Good, Lost, Blamed, InUse
<1>8. server.issued \in Nat /\ server.made \in Nat BY <1>1, Bounds DEF Typed, Server
<1>9. \A q \in Thread : ThreadOK(q)'
  <2> TAKE q \in Thread
  <2>1. ThreadOK(q) BY DEF Inv
  <2>2. Stands(q)' /\ Seals(q)' BY <1>2, <2>1 DEF ThreadOK, Stands, Seals, Past
  <2>3. Keeps(q)' BY <1>2, <1>4, <1>5, <1>7, <2>1 DEF ThreadOK, Keeps, New, Good
  <2> QED BY <1>2, <1>7, <2>1, <2>2, <2>3 DEF ThreadOK
<1>10. \A l \in Lock : LockOK(l)'
  <2> TAKE l \in Lock
  <2>1. LockOK(l) BY DEF Inv
  <2> QED BY <1>2, <1>4, <1>7, <2>1 DEF LockOK, Good, Past
<1>11. SpaceOK' BY <1>1, <1>2, <1>4, <1>5, <1>7, <1>8 DEF SpaceOK
<1>12. HoldsOK' BY <1>1, <1>2, <1>4 DEF HoldsOK
<1>13. TokenOK' BY <1>1, <1>2, <1>4, <1>5, <1>7, <1>8 DEF TokenOK
<1> QED BY <1>6, <1>9, <1>10, <1>11, <1>12, <1>13 DEF Inv

\* The program stops and starts again: only the store and the server are left, and a
\* grant on its way is lost.
LEMMA RestartStep == ASSUME Inv, Restart PROVE Inv'
<1>1. Typed /\ TokenOK /\ HoldsOK /\ SpaceOK BY DEF Inv
<1>2. /\ UNCHANGED <<server, store>> /\ locks' = [l \in Lock |-> NoLock] /\ cached' = 0
      /\ refreshing' = [l \in Lock |-> "none"] /\ thread' = [p \in Thread |-> AtEase] /\ cmd' = NoCmd
      /\ app' = [unlocked |-> FALSE, refused |-> FALSE, off |-> FALSE]
      /\ why' = IF \E p \in Thread : At(p, "keep") THEN why \cup {"lost"} ELSE why
  BY DEF Restart
<1>3. spent' \in Count BY <1>1, Counted DEF Restart
<1>4. /\ why' \in SUBSET Reason /\ (Lost => Lost') /\ (Blamed => Blamed')
      /\ ("told" \in why' <=> "told" \in why) /\ ("marked" \in why' <=> "marked" \in why)
      /\ ((\E p \in Thread : thread[p].pc = "keep") => Lost')
  BY <1>1, <1>2 DEF Typed, Reason, Lost, Blamed, At
<1>5. Typed'
  <2>1. app' \in Flags /\ refreshing' \in Mutex /\ cached' \in 0..4 BY <1>2 DEF Flags, Mutex
  <2> QED BY <1>1, <1>2, <1>3, <1>4, <2>1, IdleTyped DEF Typed
<1>6. \A p \in Thread : thread'[p].pc = "idle" /\ thread'[p].lock = 0 /\ thread'[p].env = 0 /\ thread'[p].out = "none"
  BY <1>2 DEF AtEase
<1>7. \A l \in Lock : locks'[l] = NoLock /\ ~InUse(l)'
  BY <1>2, <1>6 DEF InUse, Lock
<1>8. server.issued \in Nat /\ server.made \in Nat BY <1>1, Bounds DEF Typed, Server
<1>9. \A p \in Thread : ThreadOK(p)'
  BY <1>6 DEF ThreadOK, Stands, Seals, Keeps, Connected, Holding
<1>10. \A l \in Lock : LockOK(l)'
  BY <1>2, <1>7, <1>8 DEF LockOK, NoLock
<1>11. cmd'.pc = "idle" /\ cmd'.grant = 0 /\ cmd'.space = 0 BY <1>2 DEF NoCmd
<1>12. SpaceOK' BY <1>1, <1>2, <1>4, <1>7, <1>8, <1>11 DEF SpaceOK
<1>13. HoldsOK' BY <1>1, <1>2, <1>4 DEF HoldsOK
<1>14. TokenOK' BY <1>1, <1>2, <1>4, <1>7, <1>8, <1>11 DEF TokenOK, Good, NoLock
<1> QED BY <1>5, <1>9, <1>10, <1>12, <1>13, <1>14 DEF Inv

------------------------------------------------------------------------------
(* The invariant holds                                                      *)

\* A device that has just started.
LEMMA InitInv == Init => Inv
<1> SUFFICES ASSUME Init PROVE Inv OBVIOUS
<1>1. PICK mine \in 0..MaxSpaces, here \in Space :
       /\ <<mine, here>> \in {<<0, 1>>, <<1, 1>>, <<1, 2>>, <<2, 1>>}
       /\ store = [active |-> mine # 0, token |-> IF mine = 0 THEN 0 ELSE 1, space |-> mine,
                   left |-> 1..mine - 1, dirty |-> mine \in {0, here}]
       /\ server = [space |-> here, made |-> IF mine > here THEN mine ELSE here, issued |-> 1,
                    off |-> FALSE, refresh |-> IF mine = 0 THEN {} ELSE {1}, access |-> {},
                    holds |-> [s \in Space |-> IF s = mine /\ s # here THEN s ELSE 0]]
       /\ why = IF mine \in {0, here} THEN {} ELSE {"told"}
  BY DEF Init
<1>2. /\ locks = [l \in Lock |-> NoLock] /\ cached = 0 /\ refreshing = [l \in Lock |-> "none"]
      /\ thread = [p \in Thread |-> AtEase] /\ cmd = NoCmd
      /\ app = [unlocked |-> TRUE, refused |-> FALSE, off |-> FALSE]
      /\ spent = [commands |-> 0, events |-> 0]
  BY DEF Init
<1>3. mine \in Nat /\ here \in Nat /\ here # 0 /\ MaxSpaces \in Nat /\ here <= MaxSpaces /\ mine <= MaxSpaces
      /\ MaxGrants \in Nat /\ MaxGrants >= 1
  BY Bounds DEF Space
<1>4. PICK made \in 0..MaxSpaces : made = IF mine > here THEN mine ELSE here BY <1>3
<1>5. made \in Nat /\ here <= made /\ mine <= made BY <1>3, <1>4
<1>6. PICK holds \in [Space -> 0..MaxSpaces] : holds = [s \in Space |-> IF s = mine /\ s # here THEN s ELSE 0]
  <2>1. [s \in Space |-> IF s = mine /\ s # here THEN s ELSE 0] \in [Space -> 0..MaxSpaces]
    BY <1>3 DEF Space
  <2> QED BY <2>1
<1>7. /\ server \in Server /\ server.space = here /\ server.made = made /\ server.issued = 1
      /\ server.refresh = (IF mine = 0 THEN {} ELSE {1}) /\ server.holds = holds
  <2>1. 1 \in 0..MaxGrants /\ {} \in SUBSET Grant /\ here \in 0..MaxSpaces
        /\ (IF mine = 0 THEN {} ELSE {1}) \in SUBSET Grant
    BY <1>3 DEF Grant
  <2>2. server = [space |-> here, made |-> made, issued |-> 1, off |-> FALSE,
                  refresh |-> IF mine = 0 THEN {} ELSE {1}, access |-> {}, holds |-> holds]
    BY <1>1, <1>4, <1>6
  <2> QED BY <2>1, <2>2 DEF Server
<1>8. /\ store \in Store /\ store.active = (mine # 0) /\ store.token = (IF mine = 0 THEN 0 ELSE 1)
      /\ store.space = mine /\ store.left = 1..mine - 1 /\ store.dirty = (mine \in {0, here})
  <2>1. (IF mine = 0 THEN 0 ELSE 1) \in 0..MaxGrants /\ 1..mine - 1 \in SUBSET Space /\ (mine # 0) \in BOOLEAN
        /\ (mine \in {0, here}) \in BOOLEAN
    BY <1>3 DEF Space
  <2> QED BY <1>1, <2>1 DEF Store
<1>9. Typed
  <2>1. app \in Flags /\ refreshing \in Mutex /\ cached \in 0..4 /\ spent \in Count
    BY <1>2 DEF Flags, Mutex, Count
  <2>2. why \in SUBSET Reason BY <1>1 DEF Reason
  <2> QED BY <1>2, <1>7, <1>8, <2>1, <2>2, IdleTyped DEF Typed
<1>10. \A p \in Thread : thread[p].pc = "idle" /\ thread[p].lock = 0 /\ thread[p].env = 0 /\ thread[p].out = "none"
  BY <1>2 DEF AtEase
<1>11. \A l \in Lock : locks[l] = NoLock /\ ~InUse(l) BY <1>2, <1>10 DEF InUse, Lock
<1>12. \A p \in Thread : ThreadOK(p)
  BY <1>10 DEF ThreadOK, Stands, Seals, Keeps, Connected, Holding
<1>13. \A l \in Lock : LockOK(l) BY <1>7, <1>11 DEF LockOK, NoLock
<1>14. cmd.pc = "idle" /\ cmd.grant = 0 /\ cmd.space = 0 BY <1>2 DEF NoCmd
<1>15. SpaceOK
  <2>1. "told" \notin why => mine \in {0, here} BY <1>1
  <2>2. 1..mine - 1 \subseteq 1..made BY <1>3, <1>5
  <2>3. store.left \subseteq 1..server.made BY <1>7, <1>8, <2>2
  <2>4. server.space <= server.made /\ store.space <= server.made /\ cmd.space <= server.made
    BY <1>3, <1>5, <1>7, <1>8, <1>14
  <2>5. store.active => store.space # 0 BY <1>8
  <2>6. "told" \notin why => server.space # 0 /\ store.space \in {0, server.space} BY <1>3, <1>7, <1>8, <2>1
  <2> QED BY <1>11, <1>14, <2>3, <2>4, <2>5, <2>6 DEF SpaceOK
<1>16. HoldsOK
  <2>1. \A s \in Space : holds[s] \in {0, s} BY <1>6
  <2>2. mine # 0 /\ mine # here => holds[mine] = mine BY <1>3, <1>6 DEF Space
  <2> QED BY <1>7, <1>8, <2>1, <2>2 DEF HoldsOK
<1>17. TokenOK
  <2>1. CASE mine = 0
    <3>1. store.token = 0 /\ ~store.active /\ server.refresh = {} /\ server.issued = 1 BY <1>7, <1>8, <2>1
    <3> QED BY <1>11, <1>14, <3>1 DEF TokenOK, NoLock
  <2>2. CASE mine # 0
    <3>1. store.token = 1 /\ store.active /\ server.refresh = {1} /\ server.issued = 1 BY <1>7, <1>8, <2>2
    <3> QED BY <1>11, <1>14, <3>1 DEF TokenOK, Good, NoLock
  <2> QED BY <2>1, <2>2
<1> QED BY <1>9, <1>12, <1>13, <1>15, <1>16, <1>17 DEF Inv

\* Every step keeps it.
LEMMA NextInv == Inv /\ [Next]_vars => Inv'
<1> SUFFICES ASSUME Inv, [Next]_vars PROVE Inv' OBVIOUS
<1>1. ASSUME NEW p \in Thread, Calls(p) PROVE Inv'
  BY <1>1, ConnectStep, PublishStep, TokenStep, RefreshStep, AskedStep, RefusedStep, KeepStep, AgainStep,
     SendStep, UncacheStep DEF Calls
<1>2. "pass" \in Thread /\ "live" \in Thread BY DEF Thread
<1>3. CASE Worker
  <2>1. CASE PassStarts BY <1>2, <2>1, StartStep DEF PassStarts, At
  <2> QED BY <1>1, <1>2, <1>3, <2>1, SealStep, MarkStep, PassEndsStep DEF Worker
<1>4. CASE Listener
  <2>1. CASE ListenStarts BY <1>2, <2>1, StartStep DEF ListenStarts, At
  <2> QED BY <1>1, <1>2, <1>4, <2>1, ListenRunsStep, AuthStep, ListenEndsStep, EndedStep DEF Listener
<1>5. CASE Command BY <1>5, JoinStep, StartSyncingStep, LeaveStep DEF Command
<1>6. CASE Outside
  BY <1>6, SignInStep, SignOutStep, QuietStep, RestartStep, EndSessionStep, RekeyStep, UnansweredStep
     DEF Outside
<1>7. CASE UNCHANGED vars
  <2>1. UNCHANGED <<server, store, locks, cached, refreshing, thread, cmd, app, why, spent>> BY <1>7 DEF vars
  <2>2. Typed BY DEF Inv
  <2>3. app' \in Flags /\ spent' \in Count /\ server' \in Server /\ locks' \in [Lock -> Connection]
    BY <2>1, <2>2 DEF Typed
  <2> QED BY <2>1, <2>3, SameStep
<1> QED BY <1>3, <1>4, <1>5, <1>6, <1>7 DEF Next

\* The inductive invariant holds in every reachable state.
THEOREM Invariance == Spec => []Inv
BY InitInv, NextInv, PTL DEF Spec

------------------------------------------------------------------------------
(* What it gives                                                            *)

\* Connections, grants and kept tokens are ones that were made, and a thread that
\* exchanges a token holds the connection's mutex.
THEOREM TypeCorrect == Spec => []TypeOK
<1>1. Inv => TypeOK
  <2> SUFFICES ASSUME Inv PROVE TypeOK OBVIOUS
  <2>1. Typed BY DEF Inv
  <2>2. /\ server.space \in 0..MaxSpaces /\ server.refresh \cup server.access \subseteq Grant
        /\ server.issued \in 0..MaxGrants
    BY <2>1 DEF Typed, Server
  <2>3. store.token \in 0..MaxGrants /\ store.space \in 0..MaxSpaces /\ store.left \subseteq Space /\ cached \in 0..4
    BY <2>1 DEF Typed, Store
  <2>4. \A p \in Thread : thread[p].lock \in 0..4 /\ thread[p].stale \in 0..MaxGrants BY <2>1 DEF Typed, Task
  <2>5. \A p \in Thread : thread[p].pc \in {"asked", "refused", "keep"} => refreshing[thread[p].lock] = p
    BY DEF Inv, ThreadOK, Stands, Holding
  <2> QED BY <2>2, <2>3, <2>4, <2>5 DEF TypeOK
<1> QED BY <1>1, Invariance, PTL

\* No record reaches a space it is not sealed for (push names its space, check_space).
THEOREM Sealed == Spec => []SealedForItsSpace
<1>1. Inv => SealedForItsSpace BY DEF Inv, HoldsOK, SealedForItsSpace
<1> QED BY <1>1, Invariance, PTL

\* What the device takes for pushed is in the space it syncs with (mark_pushed,
\* join_space).
THEOREM NothingBehind == Spec => []NothingStaysBehind
<1>1. Inv => NothingStaysBehind BY DEF Inv, HoldsOK, NothingStaysBehind
<1> QED BY <1>1, Invariance, PTL

\* A session is given up only for a reason (session_ended).
THEOREM SessionKept == Spec => []SessionIsKept
<1>1. Inv => SessionIsKept BY DEF Inv, TokenOK, SessionIsKept, Blamed, Lost
<1> QED BY <1>1, Invariance, PTL

\* The token on disk is one the server takes, at every moment the program may stop
\* (keep_lock_refresh_token).
THEOREM SessionFound == Spec => []RestartFindsTheSession
<1>1. Inv => RestartFindsTheSession BY DEF Inv, TokenOK, RestartFindsTheSession, Good, Lost, At
<1> QED BY <1>1, Invariance, PTL
==============================================================================
