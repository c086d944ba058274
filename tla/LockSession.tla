---------------------------- MODULE LockSession ----------------------------
(***************************************************************************)
(* A device that syncs through UwULock: its session, its connections and   *)
(* the space it pushes to (uwussh-sync, lock/api.rs, lock/account.rs,      *)
(* lock/live.rs; uwussh-store, lock.rs; apps/desktop/src-tauri, lock.rs    *)
(* and sync.rs).                                                           *)
(*                                                                         *)
(* Two threads of the server use the connection: the worker's pass and the *)
(* listener of the realtime channel.  Commands sign in and out beside      *)
(* them.  A grant is a number: the access and the refresh token it brings. *)
(* A space is a number, too; a new key makes a new space.  The device has  *)
(* one record; edits of it are the subject of Sync.  The UwULock Server is *)
(* another repository; it is modelled by what api.rs asks of it and the    *)
(* test double answers.                                                    *)
(***************************************************************************)
EXTENDS Integers, FiniteSets

CONSTANTS
  MaxGrants,   \* bound: grants the server gives
  MaxSpaces,   \* bound: spaces the account ever has
  MaxCommands, \* bound: sign-ins and sign-outs
  MaxEvents    \* bound: faults, restarts, locks and what others do at the server

ASSUME LockSessionAssumption ==
  {MaxGrants, MaxSpaces, MaxCommands, MaxEvents} \subseteq Nat \ {0}

Grant   == 1..MaxGrants
Space   == 1..MaxSpaces
Thread  == {"pass", "live"}
Lock    == 1..4    \* connections at a time: the cached one and one for each thread and command

VARIABLES
  server,      \* the UwULock Server
  store,       \* what the database keeps
  locks,       \* connections (Lock): tokens and space
  cached,      \* sync.lock
  refreshing,  \* who holds a connection's refreshing mutex
  thread,      \* the worker's pass and the listener
  cmd,         \* a sign-in or sign-out
  app,         \* vault_status and the flags live_refused, switched_off
  why,         \* what may have cost the session
  spent

vars == <<server, store, locks, cached, refreshing, thread, cmd, app, why, spent>>

NoLock   == [tokens |-> FALSE, refresh |-> 0, access |-> 0, fresh |-> FALSE, space |-> 0]
AtEase   == [pc |-> "idle", lock |-> 0, req |-> "none", stale |-> 0, tried |-> FALSE,
             grant |-> 0, env |-> 0, out |-> "none"]
NoCmd    == [pc |-> "idle", grant |-> 0, space |-> 0, shown |-> -1]

\* Connections, grants and kept tokens are ones that were made.
TypeOK ==
  /\ server.space \in 0..MaxSpaces /\ server.refresh \cup server.access \subseteq Grant
  /\ server.issued \in 0..MaxGrants
  /\ store.token \in 0..MaxGrants /\ store.space \in 0..MaxSpaces /\ store.left \subseteq Space
  /\ cached \in 0..4
  /\ \A p \in Thread : thread[p].lock \in 0..4 /\ thread[p].stale \in 0..MaxGrants
  /\ \A p \in Thread : thread[p].pc \in {"asked", "refused", "keep"} =>
       refreshing[thread[p].lock] = p

-----------------------------------------------------------------------------
At(p, pc)   == thread[p].pc = pc
Goto(p, pc) == thread' = [thread EXCEPT ![p].pc = pc]
Ends(p, o)  == thread' = [thread EXCEPT ![p] = [AtEase EXCEPT !.pc = "out", !.out = o, !.lock = thread[p].lock]]

\* An event costs one of a bounded number.
Event == spent.events < MaxEvents /\ spent' = [spent EXCEPT !.events = @ + 1]

Asks == spent.commands < MaxCommands /\ spent' = [spent EXCEPT !.commands = @ + 1]

Free == Lock \ ({cached} \cup {thread[p].lock : p \in Thread})

Mine(p) == IF thread[p].lock = 0 THEN NoLock ELSE locks[thread[p].lock]

\* A connection nobody refers to any more is gone.
Used(conns) == locks' = [l \in Lock |-> IF l \in {cached'} \cup {thread'[p].lock : p \in Thread}
                                         THEN conns[l] ELSE NoLock]

Release(p) == refreshing' = [refreshing EXCEPT ![thread[p].lock] = "none"]

-----------------------------------------------------------------------------
(* The connection: connection() of the desktop's lock.rs.                  *)

\* The cached one, or one made from what the device kept.
Connect(p) ==
  /\ At(p, "conn")
  /\ \/ /\ cached # 0
        /\ thread' = [thread EXCEPT ![p].pc = "got", ![p].lock = cached]
        /\ UNCHANGED <<locks, why>>
     \/ /\ cached = 0 /\ (~store.active \/ store.token = 0)
        /\ Ends(p, IF store.active THEN "signin" ELSE "error")
        /\ UNCHANGED <<locks, why>>
     \/ /\ cached = 0 /\ store.active /\ store.token # 0
        /\ LET l == CHOOSE k \in Free : TRUE IN
           /\ locks' = [locks EXCEPT ![l] = [NoLock EXCEPT !.tokens = TRUE, !.refresh = store.token,
                                                           !.space = store.space]]
           /\ thread' = [thread EXCEPT ![p].pc = "publish", ![p].lock = l]
        /\ why' = IF store.token \in {cmd.grant} \cup {locks[k].refresh : k \in Lock \ Free}
                  THEN why \cup {"twice"} ELSE why
  /\ UNCHANGED <<server, store, cached, refreshing, cmd, app, spent>>

Publish(p) ==
  /\ At(p, "publish")
  /\ cached' = thread[p].lock
  /\ Goto(p, "got")
  /\ Used(locks)
  /\ UNCHANGED <<server, store, refreshing, cmd, app, why, spent>>

-----------------------------------------------------------------------------
(* Tokens: access_token, refresh, take and call of api.rs.                 *)

Request(p, req) ==
  thread' = [thread EXCEPT ![p].pc = "token", ![p].req = req, ![p].tried = FALSE, ![p].grant = 0,
                           ![p].stale = 0]

\* What a refresh goes on to: access_token takes what is there now, call asks
\* access_token again after an answer that was unauthorised, and the channel
\* connects again after renew.
Refreshed(p, access) ==
  thread' = [thread EXCEPT ![p].pc = IF thread[p].req = "renew" THEN "got"
                                     ELSE IF thread[p].stale # 0 THEN "token" ELSE "send",
                           ![p].grant = access]

\* Mutant of OneAtATime: no mutex.
AnyNumber(l) == TRUE

OneAtATime(l) == refreshing[l] = "none"

Exchange(p) ==
  /\ OneAtATime(thread[p].lock)
  /\ refreshing' = [refreshing EXCEPT ![thread[p].lock] = p]
  /\ thread' = [thread EXCEPT ![p].pc = "asked", ![p].grant = Mine(p).refresh]

\* access_token: what is there, if it is fresh, or refresh(None).
Token(p) ==
  /\ At(p, "token")
  /\ \/ ~Mine(p).tokens /\ Ends(p, "signin") /\ UNCHANGED refreshing
     \/ /\ Mine(p).tokens /\ Mine(p).fresh
        /\ thread' = [thread EXCEPT ![p].pc = "send", ![p].grant = Mine(p).access]
        /\ UNCHANGED refreshing
     \/ Mine(p).tokens /\ ~Mine(p).fresh /\ Exchange(p)
  /\ UNCHANGED <<server, store, locks, cached, cmd, app, why, spent>>

\* refresh(Some(stale)): another thread may have refreshed meanwhile.
Refresh(p) ==
  /\ At(p, "refresh") /\ OneAtATime(thread[p].lock)
  /\ \/ ~Mine(p).tokens /\ Ends(p, "signin") /\ UNCHANGED refreshing
     \/ /\ Mine(p).tokens /\ Mine(p).fresh /\ thread[p].stale # Mine(p).access
        /\ Refreshed(p, Mine(p).access)
        /\ UNCHANGED refreshing
     \/ /\ Mine(p).tokens /\ ~(Mine(p).fresh /\ thread[p].stale # Mine(p).access)
        /\ Exchange(p)
  /\ UNCHANGED <<server, store, locks, cached, cmd, app, why, spent>>

\* The server exchanges a refresh token, which works once.
Granted(s, r) == [s EXCEPT !.issued = @ + 1, !.refresh = (@ \ {r}) \cup {s.issued + 1},
                           !.access = @ \cup {s.issued + 1}]

Asked(p) ==
  /\ At(p, "asked")
  /\ LET r == thread[p].grant IN
     IF r \in server.refresh /\ ~server.off
     THEN /\ server.issued < MaxGrants
          /\ server' = Granted(server, r)
          /\ thread' = [thread EXCEPT ![p].pc = "keep", ![p].grant = server.issued + 1]
     ELSE Goto(p, "refused") /\ UNCHANGED server
  /\ UNCHANGED <<store, locks, cached, refreshing, cmd, app, why, spent>>

\* The server does not answer, or its answer is lost after it has exchanged
\* the token.
Unanswered(p) ==
  /\ Event
  /\ \/ At(p, "asked") /\ UNCHANGED why
     \/ At(p, "keep") /\ why' = why \cup {"lost"}
  /\ Release(p)
  /\ Ends(p, "error")
  /\ UNCHANGED <<server, store, locks, cached, cmd, app>>

\* Mutant of Over: a refusal ends the session whatever the server says of itself.
OverAlways == TRUE

\* app_sync_switched_off says no.
Over == ~server.off

\* A refusal: with app sync switched off it ends nothing.  A server that does
\* not answer the question says nothing.
Refused(p) ==
  /\ At(p, "refused")
  /\ Release(p)
  /\ \/ /\ Over
        /\ locks' = [locks EXCEPT ![thread[p].lock].tokens = FALSE]
        /\ why' = IF ~server.off /\ thread[p].grant \in server.refresh THEN why \cup {"told"} ELSE why
        /\ Ends(p, "signin")
        /\ UNCHANGED spent
     \/ /\ ~Over /\ Ends(p, "off")
        /\ UNCHANGED <<locks, why, spent>>
     \/ /\ Event
        /\ locks' = [locks EXCEPT ![thread[p].lock].tokens = FALSE]
        /\ why' = why \cup {"told"}
        /\ Ends(p, "signin")
  /\ UNCHANGED <<server, store, cached, cmd, app>>

\* Mutant of Kept: the token is kept in memory only.
KeptNowhere(n) == store

\* keep_lock_refresh_token
Kept(n) == IF store.active THEN [store EXCEPT !.token = n] ELSE store

Took(l, n) == [locks EXCEPT ![l].tokens = TRUE, ![l].refresh = n, ![l].access = n, ![l].fresh = TRUE]

\* take: the new token is kept, or that fails and is only logged.
Keep(p) ==
  /\ At(p, "keep")
  /\ \/ store' = Kept(thread[p].grant) /\ UNCHANGED <<why, spent>>
     \/ Event /\ why' = why \cup {"lost"} /\ UNCHANGED store
  /\ locks' = Took(thread[p].lock, thread[p].grant)
  /\ Release(p)
  /\ Refreshed(p, thread[p].grant)
  /\ UNCHANGED <<server, cached, cmd, app>>

Unauthorised(p) == thread[p].grant \notin server.access

\* An answer that the access token is no good: once more after refreshing.
Again(p) ==
  /\ At(p, "send") /\ thread[p].req # "auth" /\ Unauthorised(p) /\ ~thread[p].tried
  /\ thread' = [thread EXCEPT ![p].pc = "refresh", ![p].stale = thread[p].grant, ![p].tried = TRUE]
  /\ UNCHANGED <<server, store, locks, cached, refreshing, cmd, app, why, spent>>

\* Mutant of SameSpace: the push names no space and the server takes it.
AnySpace(p) == TRUE

\* check_space, and the spaceId a push names.
SameSpace(p) == server.space = Mine(p).space

Send(p) ==
  /\ At(p, "send") /\ thread[p].req # "auth" /\ (Unauthorised(p) => thread[p].tried)
  /\ IF Unauthorised(p) THEN Ends(p, "error") /\ UNCHANGED server
     ELSE IF server.off THEN Ends(p, "off") /\ UNCHANGED server
     ELSE IF ~SameSpace(p) THEN Ends(p, "signin") /\ UNCHANGED server
     ELSE IF thread[p].env = 0 THEN Ends(p, "ok") /\ UNCHANGED server
     ELSE /\ server' = [server EXCEPT !.holds[server.space] = thread[p].env]
          /\ Goto(p, "mark")
  /\ UNCHANGED <<store, locks, cached, refreshing, cmd, app, why, spent>>

-----------------------------------------------------------------------------
(* The worker's pass: pass of sync.rs and sync_once, whose merging is the  *)
(* subject of Sync.                                                        *)

PassStarts ==
  /\ At("pass", "idle") /\ store.active /\ store.token # 0 /\ app.unlocked
  /\ Goto("pass", "conn")
  /\ UNCHANGED <<server, store, locks, cached, refreshing, cmd, app, why, spent>>

\* pending_envelopes: sealed for the vault that is here now.
Seal ==
  /\ At("pass", "got")
  /\ IF ~app.unlocked THEN Ends("pass", "error")
     ELSE thread' = [thread EXCEPT !["pass"].pc = "token", !["pass"].req = "space",
                       !["pass"].tried = FALSE,
                       !["pass"].env = IF store.dirty THEN store.space ELSE 0]
  /\ UNCHANGED <<server, store, locks, cached, refreshing, cmd, app, why, spent>>

\* mark_pushed looks at the record's timestamp only.
Mark ==
  /\ At("pass", "mark")
  /\ store' = [store EXCEPT !.dirty = FALSE]
  /\ why' = IF store.space = thread["pass"].env THEN why ELSE why \cup {"marked"}
  /\ Ends("pass", "ok")
  /\ UNCHANGED <<server, locks, cached, refreshing, cmd, app, spent>>

\* session_ended: the token is forgotten, then the connection.
Forget(p) ==
  /\ store' = [store EXCEPT !.token = 0]
  /\ why' = IF store.token \in {0, Mine(p).refresh} THEN why ELSE why \cup {"told"}
  /\ Goto(p, "uncache")

PassEnds ==
  /\ At("pass", "out")
  /\ LET o == thread["pass"].out IN
     /\ app' = [app EXCEPT !.off = (o = "off"),
                           !.refused = @ /\ ~(app.off /\ o = "ok")]
     /\ IF o = "signin" THEN Forget("pass")
        ELSE thread' = [thread EXCEPT !["pass"] = AtEase] /\ UNCHANGED <<store, why>>
  /\ UNCHANGED cached /\ Used(locks)
  /\ UNCHANGED <<server, refreshing, cmd, spent>>

\* A logout locks the vault.
Uncache(p) ==
  /\ At(p, "uncache")
  /\ cached' = 0
  /\ app' = [app EXCEPT !.unlocked = @ /\ thread[p].out # "logout"]
  /\ thread' = [thread EXCEPT ![p] = AtEase]
  /\ Used(locks)
  /\ UNCHANGED <<server, store, refreshing, cmd, why, spent>>

-----------------------------------------------------------------------------
(* The listener: listen_once, and run and connection of live.rs.           *)

ListenStarts ==
  /\ At("live", "idle") /\ store.active /\ store.token # 0 /\ app.unlocked
  /\ ~app.refused /\ ~app.off
  /\ Goto("live", "conn")
  /\ UNCHANGED <<server, store, locks, cached, refreshing, cmd, app, why, spent>>

\* The next round of run.
Back == thread' = [thread EXCEPT !["live"] = [AtEase EXCEPT !.pc = "got", !.lock = thread["live"].lock]]

KeepGoing == app.unlocked /\ cached = thread["live"].lock

ListenRuns ==
  /\ At("live", "got")
  /\ IF KeepGoing THEN Request("live", "auth") ELSE Ends("live", "stopped")
  /\ UNCHANGED <<server, store, locks, cached, refreshing, cmd, app, why, spent>>

\* The socket opens and takes the token, or closes with 4401 and the token is
\* renewed.
Auth ==
  /\ At("live", "send") /\ thread["live"].req = "auth"
  /\ IF Unauthorised("live")
     THEN /\ locks' = [locks EXCEPT ![thread["live"].lock].fresh = FALSE]
          /\ thread' = [thread EXCEPT !["live"].pc = "refresh", !["live"].req = "renew",
                                      !["live"].stale = Mine("live").access]
     ELSE /\ Goto("live", "listening")
          /\ UNCHANGED locks
  /\ UNCHANGED <<server, store, cached, refreshing, cmd, app, why, spent>>

\* The token is renewed on the same connection before it runs out.
RenewAhead ==
  /\ At("live", "listening") /\ KeepGoing /\ ~Mine("live").fresh
  /\ Request("live", "auth")
  /\ UNCHANGED <<server, store, locks, cached, refreshing, cmd, app, why, spent>>

\* The channel ends: asked to stop, told that the session is over, closed
\* because the token is no good, refused (4403), or broken.
ListenEnds ==
  /\ At("live", "listening")
  /\ \/ ~KeepGoing /\ Ends("live", "stopped") /\ UNCHANGED spent
     \/ server.refresh = {} /\ Ends("live", "logout") /\ UNCHANGED spent
     \/ server.off /\ Ends("live", "refused") /\ UNCHANGED spent
     \/ Unauthorised("live") /\ Goto("live", "send") /\ UNCHANGED spent
     \/ Event /\ Back
  /\ UNCHANGED <<server, store, locks, cached, refreshing, cmd, app, why>>

Ended ==
  /\ At("live", "out")
  /\ LET o == thread["live"].out IN
     /\ app' = [app EXCEPT !.refused = @ \/ o = "refused"]
     /\ IF o \in {"signin", "logout"} THEN Forget("live")
        ELSE /\ IF o \in {"error", "off"} /\ thread["live"].lock # 0 THEN Back
                ELSE thread' = [thread EXCEPT !["live"] = AtEase]
             /\ UNCHANGED <<store, why>>
  /\ UNCHANGED cached /\ Used(locks)
  /\ UNCHANGED <<server, refreshing, cmd, spent>>

-----------------------------------------------------------------------------
(* Commands: lock_sign_in with sign_in and space of account.rs, and        *)
(* lock_sign_out.                                                          *)

\* SpaceLeft: a space this device has left is refused.
Left(s) == s \in store.left

\* The space the account has is taken if this device knows it, knew none, or the
\* person agreed.
MayTake(s, accept) == ~Left(s) /\ (store.space \in {0, s} \/ accept = s)

\* The page offers it to a device that does not sync, or whose session ended;
\* the space another sign-in was shown may be agreed to, or a new one when it was
\* shown none.  The password grant, then the space: what it was told is another
\* space than the device's, it shows.  The requests of a sign-in are one step here;
\* the join and the connection that follow are steps of their own.
SignIn ==
  /\ cmd.pc = "idle" /\ (~store.active \/ store.token = 0)
  /\ store.space = 0 => app.unlocked
  /\ ~server.off /\ server.issued < MaxGrants
  /\ Asks
  /\ \E accept \in {-1, cmd.shown} :
       LET goOn(s) == cmd' = [NoCmd EXCEPT !.pc = "join", !.grant = server.issued + 1, !.space = s] IN
       \/ /\ server.space # 0 /\ MayTake(server.space, accept)
          /\ goOn(server.space)
          /\ server' = Granted(server, 0)
       \/ /\ server.space = 0 /\ (store.space = 0 \/ accept = 0)
          /\ server.made < MaxSpaces
          /\ goOn(server.made + 1)
          /\ server' = [Granted(server, 0) EXCEPT !.made = @ + 1, !.space = server.made + 1]
       \/ /\ IF server.space = 0 THEN store.space # 0 /\ accept # 0
             ELSE ~MayTake(server.space, accept)
          /\ cmd' = [NoCmd EXCEPT !.shown = IF Left(server.space) THEN -1 ELSE server.space]
          /\ UNCHANGED server
  /\ UNCHANGED <<store, locks, cached, refreshing, thread, app, why>>

\* Mutant of Joined: what is here counts as pushed.
JoinedClean(s) ==
  [store EXCEPT !.active = TRUE, !.token = cmd.grant, !.space = s,
                !.left = (@ \cup ({store.space} \ {0})) \ {s}]

\* join_space: the records come along into another space.
Joined(s) ==
  [store EXCEPT !.active = TRUE, !.token = cmd.grant, !.space = s,
                !.left = (@ \cup ({store.space} \ {0})) \ {s},
                !.dirty = @ \/ store.space # s]

Join ==
  /\ cmd.pc = "join"
  /\ IF store.space # cmd.space /\ ~app.unlocked
     THEN cmd' = NoCmd /\ UNCHANGED <<store, app>>
     ELSE /\ store' = Joined(cmd.space)
          /\ app' = [app EXCEPT !.unlocked = TRUE]
          /\ cmd' = [cmd EXCEPT !.pc = "start"]
  /\ UNCHANGED <<server, locks, cached, refreshing, thread, why, spent>>

\* start_syncing
StartSyncing ==
  /\ cmd.pc = "start"
  /\ UNCHANGED thread
  /\ LET l == CHOOSE k \in Free : TRUE IN
     /\ cached' = l
     /\ Used([locks EXCEPT ![l] = [Took(l, cmd.grant)[l] EXCEPT !.space = cmd.space]])
  /\ app' = [app EXCEPT !.refused = FALSE]
  /\ cmd' = NoCmd
  /\ UNCHANGED <<server, store, refreshing, why, spent>>

\* leave_lock, then the connection is let go.
SignOut ==
  /\ cmd.pc = "idle" /\ store.active /\ Asks
  /\ store' = [store EXCEPT !.active = FALSE, !.token = 0]
  /\ cmd' = [NoCmd EXCEPT !.pc = "leave"]
  /\ UNCHANGED <<server, locks, cached, refreshing, thread, app, why>>

Leave ==
  /\ cmd.pc = "leave"
  /\ cached' = 0
  /\ app' = [app EXCEPT !.refused = FALSE]
  /\ cmd' = NoCmd
  /\ UNCHANGED thread /\ Used(locks)
  /\ UNCHANGED <<server, store, refreshing, why, spent>>

-----------------------------------------------------------------------------
(* The user, the server and the machine.                                   *)

LockOrUnlock ==
  /\ Event
  /\ app' = [app EXCEPT !.unlocked = ~@]
  /\ UNCHANGED <<server, store, locks, cached, refreshing, thread, cmd, why>>

\* The program stops and starts again, its vault locked.
Restart ==
  /\ Event
  /\ why' = IF \E p \in Thread : At(p, "keep") THEN why \cup {"lost"} ELSE why
  /\ locks' = [l \in Lock |-> NoLock] /\ cached' = 0
  /\ refreshing' = [l \in Lock |-> "none"]
  /\ thread' = [p \in Thread |-> AtEase] /\ cmd' = NoCmd
  /\ app' = [unlocked |-> FALSE, refused |-> FALSE, off |-> FALSE]
  /\ UNCHANGED <<server, store>>

\* The server: access tokens run out, early or late by this device's clock; app
\* sync is switched off or on; the session is ended.
Expire ==
  /\ Event /\ server.access # {}
  /\ server' = [server EXCEPT !.access = {}]
  /\ \E early \in BOOLEAN : locks' = [l \in Lock |-> [locks[l] EXCEPT !.fresh = @ /\ early]]
  /\ UNCHANGED <<store, cached, refreshing, thread, cmd, app, why>>

Switch ==
  /\ Event
  /\ server' = [server EXCEPT !.off = ~@]
  /\ UNCHANGED <<store, locks, cached, refreshing, thread, cmd, app, why>>

EndSession ==
  /\ Event /\ server.refresh # {}
  /\ server' = [server EXCEPT !.refresh = {}, !.access = {}]
  /\ why' = why \cup {"lost"}
  /\ UNCHANGED <<store, locks, cached, refreshing, thread, cmd, app>>

\* Another device gives the space a new key and pushes what it holds, or deletes
\* the space.  An earlier space is never listed again in a run; a server that kept
\* one and lists it is among the initial states only.
Rekey ==
  /\ Event /\ server.space # 0
  /\ why' = why \cup {"told"}
  /\ \/ /\ server.made < MaxSpaces
        /\ LET s == server.made + 1 IN
           \E r \in {0, s} : server' = [server EXCEPT !.made = s, !.space = s, !.holds[s] = r]
     \/ server' = [server EXCEPT !.space = 0]
  /\ UNCHANGED <<store, locks, cached, refreshing, thread, cmd, app>>

-----------------------------------------------------------------------------
\* A device that has just started: it never signed in and has something to push,
\* or it did and has pushed everything.  The account's space may have been replaced
\* meanwhile, or be one the device has left.
Init ==
  /\ \E mine \in 0..MaxSpaces, here \in Space :
       /\ <<mine, here>> \in {<<0, 1>>, <<1, 1>>, <<1, 2>>, <<2, 1>>}
       /\ store = [active |-> mine # 0, token |-> IF mine = 0 THEN 0 ELSE 1, space |-> mine,
                   left |-> 1..mine - 1, dirty |-> mine \in {0, here}]
       /\ server = [space |-> here, made |-> IF mine > here THEN mine ELSE here, issued |-> 1,
                    off |-> FALSE, refresh |-> IF mine = 0 THEN {} ELSE {1}, access |-> {},
                    holds |-> [s \in Space |-> IF s = mine /\ s # here THEN s ELSE 0]]
       /\ why = IF mine \in {0, here} THEN {} ELSE {"told"}
  /\ locks = [l \in Lock |-> NoLock] /\ cached = 0 /\ refreshing = [l \in Lock |-> "none"]
  /\ thread = [p \in Thread |-> AtEase] /\ cmd = NoCmd
  /\ app = [unlocked |-> TRUE, refused |-> FALSE, off |-> FALSE]
  /\ spent = [commands |-> 0, events |-> 0]

Calls(p) == \/ Connect(p) \/ Publish(p) \/ Token(p) \/ Refresh(p) \/ Asked(p) \/ Refused(p)
            \/ Keep(p) \/ Again(p) \/ Send(p) \/ Uncache(p)

Worker   == PassStarts \/ Seal \/ Mark \/ PassEnds \/ Calls("pass")
Listener == ListenStarts \/ ListenRuns \/ Auth \/ RenewAhead \/ ListenEnds \/ Ended \/ Calls("live")
Command  == Join \/ StartSyncing \/ Leave

Outside ==
  \/ SignIn \/ SignOut \/ LockOrUnlock \/ Restart
  \/ Expire \/ Switch \/ EndSession \/ Rekey
  \/ \E p \in Thread : Unanswered(p)

Next == Worker \/ Listener \/ Command \/ Outside

Spec == Init /\ [][Next]_vars

-----------------------------------------------------------------------------
(* Properties.                                                             *)

\* A session is given up only for a reason: the server ended it or gave the space
\* a new key, an exchange's answer was lost, a token could not be kept, a refusal
\* could not be explained, or two connections met (see TokenIsUsedOnce).
SessionIsKept == store.active /\ store.token = 0 => why \cap {"lost", "told", "twice"} # {}

\* The token on disk is one the server takes: a restart at any moment finds the
\* session again, unless an exchange was cut off or a token could not be kept
\* (keep_lock_refresh_token, "Kept before it is used").
RestartFindsTheSession ==
  store.token # 0 /\ store.token \notin server.refresh =>
    \/ why \cap {"lost", "twice"} # {}
    \/ \E p \in Thread : At(p, "keep")

\* No record reaches a space it is not sealed for, although passes go on while a
\* sign-in takes another space (push names its space, check_space).
SealedForItsSpace == \A s \in Space : server.holds[s] \in {0, s}

\* What this device takes for pushed is in the space it syncs with, unless a pass
\* that had pushed to the space before marked it (see the README).
NothingStaysBehind ==
  store.active /\ store.space # 0 /\ ~store.dirty /\ "marked" \notin why
    => server.holds[store.space] = store.space

\* Without a fault, an end or a new key, the device stays signed in: a refresh
\* token is never sent by two connections, "its refresh token must not be used
\* twice" (desktop sync.rs, Sync::lock).
TokenIsUsedOnce == store.active /\ store.token = 0 => why \cap {"lost", "told"} # {}
=============================================================================
