---------------------------- MODULE SessionsProofs ----------------------------
(***************************************************************************)
(* Proofs about Sessions, for any commands, connections and tunnels.        *)
(***************************************************************************)
EXTENDS Sessions, FiniteSetTheorems, TLAPS

------------------------------------------------------------------------------
(* Types                                                                    *)

Login  == {"auth", "channel", "insert", "link"}
After  == {"hosts", "password"}
Locked == {"old", "bind", "keep", "say"}
Holder == {"old", "keep", "finish"}
Place  == Login \cup After \cup Locked
            \cup {"idle", "open", "each", "start", "stop", "gather", "finish", "end", "drain"}

Task  == [pc : Place, cmd : {"none", "shell", "files", "tunnel", "auto", "stop", "close", "reload"},
          attempt : Attempt \cup {None}, conn : Conn \cup {None}, page : Nat,
          tunnel : Tunnel \cup {None}, run : Run \cup {None}, ids : SUBSET Tunnel]
Start0 == [tunnel : Tunnel \cup {None}, state : Status, session : Conn \cup {None}, link : Conn \cup {None},
           stop : BOOLEAN, listening : BOOLEAN, task : {"on", "lost", "off"}]

Typed ==
  /\ conn \in [Conn -> {"unused", "open", "in", "link", "ending", "closed"}]
  /\ of \in [Conn -> Nat] /\ late \subseteq Conn /\ losses \in Nat
  /\ pending \in [Attempt -> Conn \cup {None}]
  /\ sessions \subseteq Conn /\ files \subseteq Conn /\ hosts \subseteq Conn /\ passwords \subseteq Conn
  /\ call \in [Call -> Task] /\ spawned \subseteq Conn
  /\ tunnels \in [Tunnel -> Run \cup {None}] /\ locked \in Call \cup {None}
  /\ run \in [Run -> Start0] /\ dedicated \in Conn \cup {None} /\ shown \in [Tunnel -> Status]
  /\ page \in Nat /\ known \subseteq Conn /\ asked \in Nat

------------------------------------------------------------------------------
(* The tunnels                                                              *)

\* The lock is held by the command that is between taking it and giving it back.
LockOK == \A c \in Call : locked = c <=> call[c].pc \in Locked

\* What a command has in hand: a start it waits for the end of, or one it has not put
\* into the map yet.
CallOK(c) ==
  /\ call[c].pc \in {"start", "old", "bind", "keep", "say", "finish"} => call[c].tunnel \in Tunnel
  /\ call[c].pc \in {"start", "old", "bind", "keep", "say"} => call[c].conn \in Conn
  /\ call[c].pc \in Holder =>
       call[c].run \in Run /\ \A t \in Tunnel : tunnels[t] # call[c].run
  /\ call[c].pc = "bind" => call[c].run = None
  /\ call[c].pc \in {"old", "bind", "keep"} => tunnels[call[c].tunnel] = None
  /\ call[c].pc \in {"keep", "say"} => call[c].run \in Run /\ run[call[c].run].tunnel = call[c].tunnel
  /\ call[c].pc = "say" => tunnels[call[c].tunnel] = call[c].run

\* What a command was asked to do.
CmdOK(t) ==
  /\ t.cmd = "tunnel" => t.tunnel \in Tunnel
  /\ t.cmd = "auto" => t.conn \in Conn
  /\ t.pc = "link" => t.cmd = "tunnel"
  /\ t.pc = "open" => t.cmd # "auto"
  /\ t.pc = "each" => t.cmd = "auto"

HoldersDiffer ==
  \A c, e \in Call : c # e /\ call[c].pc \in Holder /\ call[e].pc \in Holder => call[c].run # call[e].run

\* A start whose task runs is in the map under its tunnel, or in a command's hand.
RunOK(i) ==
  /\ run[i].listening <=> run[i].task = "on"
  /\ run[i].task # "off" =>
       /\ run[i].tunnel \in Tunnel /\ run[i].link \in Conn
       /\ tunnels[run[i].tunnel] = i \/ \E c \in Call : call[c].pc \in Holder /\ call[c].run = i

MapOK == \A t \in Tunnel : tunnels[t] # None => run[tunnels[t]].tunnel = t

OnePort == \A i, j \in Run : i # j /\ run[i].listening /\ run[j].listening => run[i].tunnel # run[j].tunnel

TunnelInv ==
  /\ LockOK /\ HoldersDiffer /\ MapOK /\ OnePort
  /\ \A c \in Call : CallOK(c) /\ CmdOK(call[c])
  /\ \A i \in Run : RunOK(i)

\* A terminal that was there is there, or its connection is ending or has ended.
Was(k) == k \in sessions \/ conn[k] \in {"ending", "closed"}

FollowInv ==
  /\ \A k \in spawned : Was(k)
  /\ \A c \in Call : call[c].pc \in After \/ call[c].cmd = "auto" => Was(call[c].conn)
  /\ \A i \in Run : run[i].listening /\ run[i].session # None =>
       run[i].link = run[i].session /\ Was(run[i].session)

------------------------------------------------------------------------------
(* The connections                                                          *)

\* The connection a command logs in on, or has just logged in on, is its own.
LoginOK(c) ==
  /\ call[c].pc \in {"open", "auth", "channel"} => call[c].attempt \in Attempt
  /\ call[c].pc \in Login \cup After =>
       /\ call[c].conn \in Conn /\ conn[call[c].conn] # "unused" /\ call[c].conn \notin files
       /\ \A a \in Attempt : pending[a] # call[c].conn
  /\ call[c].pc \in Login =>
       call[c].conn \notin hosts \cup passwords /\ of[call[c].conn] = call[c].page
  /\ call[c].pc \in Login \ {"auth"} => conn[call[c].conn] # "open"

OwnOK ==
  \A c, e \in Call : c # e /\ call[c].pc \in Login \cup After /\ call[e].pc \in Login \cup After
    => call[c].conn # call[e].conn

PendingOK ==
  /\ \A a \in Attempt : pending[a] # None =>
       conn[pending[a]] # "unused" /\ pending[a] \notin files \cup hosts \cup passwords
  /\ \A a, b \in Attempt : a # b /\ pending[a] # None => pending[a] # pending[b]

MapsOK ==
  /\ \A k \in sessions \cup files \cup hosts \cup passwords : conn[k] # "unused"
  /\ files \cap (hosts \cup passwords) = {}

\* An open connection is somebody's.
Kept ==
  \A k \in Conn : conn[k] \in {"open", "in"} =>
    \/ k \in sessions \cup files \/ \E a \in Attempt : pending[a] = k
    \/ \E c \in Call : call[c].pc \in Login /\ call[c].conn = k

\* What an earlier page left is going to be closed.
Reloading(pcs) == \E c \in Call : call[c].cmd = "reload" /\ call[c].pc \in pcs
Before == {"gather", "stop", "finish", "end"}

Paged ==
  /\ \A k \in sessions \ late : of[k] = page \/ Reloading(Before)
  /\ \A k \in files \ late : of[k] = page \/ Reloading(Before \cup {"drain"})
  /\ \A a \in Attempt : pending[a] # None /\ pending[a] \notin late =>
       of[pending[a]] = page \/ Reloading(Before \cup {"drain"})

\* The password of a terminal is that of one the page has the id of, or is about to.
Wiped ==
  \A k \in hosts \cup passwords :
    k \in known \cup late \/ \E c \in Call : call[c].pc = "password" /\ call[c].conn = k /\ call[c].page = page

ConnInv ==
  /\ OwnOK /\ PendingOK /\ MapsOK /\ Kept /\ Paged /\ Wiped
  /\ \A c \in Call : LoginOK(c)

Inv == Typed /\ TunnelInv /\ FollowInv /\ ConnInv

------------------------------------------------------------------------------
(* A step of one command                                                    *)

\* A command that has ended, and a start that is not used, are of their types.
LEMMA NothingTyped ==
  /\ Idle \in Task /\ NoRun \in Start0 /\ CmdOK(Idle)
  /\ Idle.pc = "idle" /\ Idle.cmd = "none" /\ Idle.run = None
  /\ NoRun.task = "off" /\ NoRun.listening = FALSE
<1>1. Idle \in Task BY DEF Idle, Task, Place
<1>2. NoRun \in Start0 BY DEF NoRun, Start0, Status
<1>3. /\ Idle.pc = "idle" /\ Idle.cmd = "none" /\ Idle.run = None
      /\ NoRun.task = "off" /\ NoRun.listening = FALSE
  BY DEF Idle, NoRun
<1> QED BY <1>1, <1>2, <1>3 DEF CmdOK

\* A step of one command leaves the others where they are.
LEMMA Moved ==
  ASSUME Typed, NEW c \in Call, NEW t \in Task, call' = [call EXCEPT ![c] = t]
  PROVE  call' \in [Call -> Task] /\ call'[c] = t /\ \A e \in Call : e # c => call'[e] = call[e]
BY DEF Typed

\* Where a command has a start of a tunnel in hand.
InHand == Locked \cup {"finish"}

\* The tunnels have no part in a step that has no start in hand.
LEMMA TunnelsAlone ==
  ASSUME Typed, TunnelInv, UNCHANGED <<tunnels, locked, run>>, NEW c \in Call, NEW t \in Task,
         call' = [call EXCEPT ![c] = t], call[c].pc \notin InHand, t.pc \notin InHand,
         t.pc = "start" => t.tunnel \in Tunnel /\ t.conn \in Conn, CmdOK(t)
  PROVE  TunnelInv'
<1>1. call'[c] = t /\ \A e \in Call : e # c => call'[e] = call[e] BY Moved
<1>2. LockOK' BY <1>1 DEF TunnelInv, LockOK, InHand
<1>3. \A e \in Call : call'[e].pc \in Holder => call[e].pc \in Holder /\ call'[e] = call[e] BY <1>1 DEF Holder, InHand, Locked
<1>4. HoldersDiffer' BY <1>3 DEF TunnelInv, HoldersDiffer
<1>5. MapOK' /\ OnePort' BY DEF TunnelInv, MapOK, OnePort
<1>6. ASSUME NEW e \in Call PROVE CallOK(e)' /\ CmdOK(call[e])'
  <2>1. CASE e = c BY <1>1, <2>1 DEF CallOK, CmdOK, InHand, Locked, Holder
  <2>2. CASE e # c BY <1>1, <2>2 DEF TunnelInv, CallOK, CmdOK
  <2> QED BY <2>1, <2>2
<1>7. \A e \in Call : call[e].pc \in Holder => call'[e] = call[e] BY <1>1 DEF Holder, InHand, Locked
<1>8. ASSUME NEW i \in Run PROVE RunOK(i)'
  <2>1. RunOK(i) BY DEF TunnelInv
  <2> QED BY <1>7, <2>1 DEF RunOK
<1> QED BY <1>2, <1>4, <1>5, <1>6, <1>8 DEF TunnelInv

\* Terminals stay followed while they only come, or go with their connection.
LEMMA Following ==
  ASSUME FollowInv, Typed, Typed', \A k \in Conn : Was(k) => Was(k)',
         \A k \in spawned' : k \in spawned \/ Was(k)',
         \A e \in Call : call'[e].pc \in After \/ call'[e].cmd = "auto" =>
            \/ (call[e].pc \in After \/ call[e].cmd = "auto") /\ call'[e].conn = call[e].conn /\ call'[e].conn \in Conn
            \/ Was(call[e].conn)',
         \A i \in Run : run'[i].listening =>
            \/ run[i].listening /\ run'[i].link = run[i].link /\ run'[i].session = run[i].session
            \/ run'[i].session # None => run'[i].link = run'[i].session /\ Was(run[i].session)'
  PROVE  FollowInv'
<1>1. \A k \in spawned' : Was(k)' BY DEF FollowInv, Typed
<1>2. \A e \in Call : call'[e].pc \in After \/ call'[e].cmd = "auto" => Was(call[e].conn)'
  <2> SUFFICES ASSUME NEW e \in Call, call'[e].pc \in After \/ call'[e].cmd = "auto" PROVE Was(call[e].conn)' OBVIOUS
  <2>1. CASE /\ call[e].pc \in After \/ call[e].cmd = "auto"
             /\ call'[e].conn = call[e].conn /\ call'[e].conn \in Conn
    <3>1. Was(call[e].conn) BY <2>1 DEF FollowInv
    <3> QED BY <2>1, <3>1 DEF Was
  <2> QED BY <2>1
<1>3. \A i \in Run : run'[i].listening /\ run'[i].session # None =>
         run'[i].link = run'[i].session /\ Was(run[i].session)'
  <2> SUFFICES ASSUME NEW i \in Run, run'[i].listening, run'[i].session # None
               PROVE run'[i].link = run'[i].session /\ Was(run[i].session)'
    OBVIOUS
  <2>1. CASE run[i].listening /\ run'[i].link = run[i].link /\ run'[i].session = run[i].session
    <3>1. run[i].link = run[i].session /\ Was(run[i].session) BY <2>1 DEF FollowInv
    <3>2. run[i].session \in Conn BY <2>1 DEF Typed, Start0
    <3> QED BY <2>1, <3>1, <3>2 DEF Was
  <2> QED BY <2>1
<1> QED BY <1>1, <1>2, <1>3 DEF FollowInv

\* A command that only goes on to its next step.
LEMMA Gone ==
  ASSUME Typed, NEW c \in Call, NEW p \in Place, Goto(c, p)
  PROVE  \E t \in Task : /\ call' = [call EXCEPT ![c] = t] /\ t.pc = p
                         /\ t.cmd = call[c].cmd /\ t.attempt = call[c].attempt /\ t.conn = call[c].conn
                         /\ t.page = call[c].page /\ t.tunnel = call[c].tunnel /\ t.run = call[c].run
                         /\ t.ids = call[c].ids
<1>1. call[c] \in Task BY DEF Typed
<1>2. PICK t : t = [call[c] EXCEPT !.pc = p] OBVIOUS
<1>3. t \in Task BY <1>1, <1>2 DEF Task
<1>4. call' = [call EXCEPT ![c] = t] BY <1>2 DEF Goto, Typed
<1> QED BY <1>1, <1>2, <1>3, <1>4 DEF Task

\* A command that has come to its end.
LEMMA Returned ==
  ASSUME NEW c \in Call, Return(c)
  PROVE  \E t \in Task : call' = [call EXCEPT ![c] = t] /\ t = Idle /\ t.pc = "idle" /\ t.cmd = "none" /\ CmdOK(t)
BY NothingTyped DEF Return

------------------------------------------------------------------------------
(* What is left of the invariant for a step that has no part in it          *)

\* Logging in and closing have no part in a step that neither does.
LEMMA ConnectionsAlone ==
  ASSUME ConnInv, UNCHANGED <<net, maps, view>>,
         \A e \in Call : \/ call'[e] = call[e]
                         \/ /\ {call[e].pc, call'[e].pc} \cap (Login \cup After \cup {"open", "drain"}) = {}
                            /\ call[e].cmd = "reload" /\ call[e].pc \in Before =>
                                 call'[e].cmd = "reload" /\ call'[e].pc \in Before
  PROVE  ConnInv'
<1> USE DEF net, maps, view
<1>1. \A e \in Call : call'[e].pc \in Login \cup After \cup {"open"} \/ call[e].pc \in Login \cup After \cup {"open"}
                        => call'[e] = call[e]
  OBVIOUS
<1>2. OwnOK' BY <1>1 DEF ConnInv, OwnOK
<1>3. PendingOK' /\ MapsOK' BY DEF ConnInv, PendingOK, MapsOK
<1>4. Kept' BY <1>1 DEF ConnInv, Kept
<1>5. Reloading(Before) => Reloading(Before)' BY DEF Reloading, Before
<1>6. Reloading(Before \cup {"drain"}) => Reloading(Before \cup {"drain"})' BY DEF Reloading, Before
<1>7. Paged' BY <1>5, <1>6 DEF ConnInv, Paged
<1>8. Wiped' BY <1>1 DEF ConnInv, Wiped, After
<1>9. ASSUME NEW e \in Call PROVE LoginOK(e)' BY <1>1 DEF ConnInv, LoginOK, Login, After
<1> QED BY <1>2, <1>3, <1>4, <1>7, <1>8, <1>9 DEF ConnInv

\* A connection that closes, and nothing else: what held it holds it still.
LEMMA ClosedAlone ==
  ASSUME Inv, NEW K \in SUBSET Conn, Closing(K), K \cap {k \in Conn : conn[k] = "unused"} = {},
         UNCHANGED <<of, late, maps, call, spawned, tunnel, view, asked>>, losses' \in Nat
  PROVE  Inv'
<1> USE DEF Inv, maps, tunnel, view
<1>0. conn' \in [Conn -> {"unused", "open", "in", "link", "ending", "closed"}] BY DEF Closing, Typed
<1>1. Typed' BY <1>0 DEF Typed
<1>2. TunnelInv' BY DEF TunnelInv, LockOK, HoldersDiffer, MapOK, OnePort, CallOK, CmdOK, RunOK
<1>3. \A k \in Conn : Was(k) => Was(k)' BY DEF Was, Closing, Typed
<1>a. \A e \in Call : call[e].pc \in After \/ call[e].cmd = "auto" => call[e].conn \in Conn
  BY DEF ConnInv, LoginOK, TunnelInv, CmdOK
<1>4. FollowInv' BY <1>1, <1>3, <1>a, Following
<1>5. \A k \in Conn : conn'[k] = conn[k] \/ (conn'[k] = "closed" /\ conn[k] # "unused") BY DEF Closing, Typed
<1>6. OwnOK' /\ Paged' /\ Wiped' BY DEF ConnInv, OwnOK, Paged, Reloading, Wiped
<1>7. PendingOK' /\ MapsOK' BY <1>5 DEF ConnInv, PendingOK, MapsOK, Typed
<1>8. Kept' BY <1>5 DEF ConnInv, Kept
<1>9. ASSUME NEW e \in Call PROVE LoginOK(e)' BY <1>5 DEF ConnInv, LoginOK
<1> QED BY <1>1, <1>2, <1>4, <1>6, <1>7, <1>8, <1>9 DEF ConnInv

\* A command or a terminal's autostart that is followed has a connection.
LEMMA HasConn ==
  ASSUME Inv, NEW e \in Call, call[e].pc \in After \/ call[e].cmd = "auto"
  PROVE  call[e].conn \in Conn
BY DEF Inv, ConnInv, LoginOK, TunnelInv, CmdOK

\* What waits, is cancelled.
LEMMA CancelStep ==
  ASSUME Inv, NEW a \in Attempt, Cancel(a), UNCHANGED asked
  PROVE  Inv'
<1> USE DEF Inv, Cancel, tunnel, view
<1>0. pending[a] \in Conn /\ pending' \in [Attempt -> Conn \cup {None}] BY DEF Typed
<1>5. /\ conn' \in [Conn -> {"unused", "open", "in", "link", "ending", "closed"}]
      /\ \A k \in Conn : conn'[k] = IF k = pending[a] THEN "closed" ELSE conn[k]
      /\ conn[pending[a]] # "unused"
  BY <1>0 DEF Closing, Typed, ConnInv, PendingOK
<1>b. \A b \in Attempt : pending'[b] = IF b = a THEN None ELSE pending[b] BY DEF Typed
<1>1. Typed' BY <1>0, <1>5 DEF Typed
<1>2. TunnelInv' BY DEF TunnelInv, LockOK, HoldersDiffer, MapOK, OnePort, CallOK, CmdOK, RunOK
<1>3. \A k \in Conn : Was(k) => Was(k)' BY <1>5 DEF Was
<1>4. FollowInv' BY <1>1, <1>3, HasConn, Following
<1>6. OwnOK' /\ Wiped' BY DEF ConnInv, OwnOK, Wiped
<1>c. Paged' BY <1>b DEF ConnInv, Paged, Reloading
<1>7. PendingOK' /\ MapsOK' BY <1>5, <1>b, <1>1 DEF ConnInv, PendingOK, MapsOK, Typed
<1>8. Kept' BY <1>5, <1>b DEF ConnInv, Kept
<1>n. None \notin Conn BY SessionsAssumption
<1>9. ASSUME NEW e \in Call PROVE LoginOK(e)' BY <1>5, <1>b, <1>n DEF ConnInv, LoginOK
<1> QED BY <1>1, <1>2, <1>4, <1>6, <1>c, <1>7, <1>8, <1>9 DEF ConnInv

\* close_files: the browser goes with its connection.
LEMMA CloseFilesStep ==
  ASSUME Inv, NEW k \in Conn, CloseFiles(k), UNCHANGED asked
  PROVE  Inv'
<1> USE DEF Inv, CloseFiles, tunnel
<1>5. /\ conn' \in [Conn -> {"unused", "open", "in", "link", "ending", "closed"}]
      /\ \A j \in Conn : conn'[j] = IF j = k THEN "closed" ELSE conn[j]
      /\ conn[k] # "unused"
  BY DEF Closing, Typed, ConnInv, MapsOK
<1>1. Typed' BY <1>5 DEF Typed
<1>2. TunnelInv' BY DEF TunnelInv, LockOK, HoldersDiffer, MapOK, OnePort, CallOK, CmdOK, RunOK
<1>3. \A j \in Conn : Was(j) => Was(j)' BY <1>5 DEF Was
<1>4. FollowInv' BY <1>1, <1>3, HasConn, Following
<1>6. OwnOK' BY DEF ConnInv, OwnOK
<1>c. Paged' BY DEF ConnInv, Paged, Reloading
<1>d. Wiped' BY DEF ConnInv, Wiped, MapsOK
<1>7. PendingOK' /\ MapsOK' BY <1>5, <1>1 DEF ConnInv, PendingOK, MapsOK, Typed
<1>8. Kept' BY <1>5 DEF ConnInv, Kept
<1>9. ASSUME NEW e \in Call PROVE LoginOK(e)' BY <1>5 DEF ConnInv, LoginOK
<1> QED BY <1>1, <1>2, <1>4, <1>6, <1>c, <1>d, <1>7, <1>8, <1>9 DEF ConnInv

\* Connections that break, are told goodbye, or go with the last tunnel on them.
LEMMA EndsStep ==
  ASSUME Inv, NEW k \in Conn, Break(k) \/ Disconnect(k) \/ DropLink(k), UNCHANGED asked
  PROVE  Inv'
<1>1. Closing({k}) /\ conn[k] # "unused" /\ UNCHANGED <<of, late, maps, call, spawned, tunnel, view, asked>>
  BY DEF Break, Disconnect, DropLink
<1>2. losses' \in Nat BY DEF Inv, Typed, Break, Disconnect, DropLink
<1> QED BY <1>1, <1>2, ClosedAlone

------------------------------------------------------------------------------
(* Logging in                                                               *)

\* A step of a command that has no tunnel's start in hand.
LEMMA Aside ==
  ASSUME Inv, Typed', ConnInv', UNCHANGED <<tunnels, locked, run>>, NEW c \in Call, NEW t \in Task,
         call' = [call EXCEPT ![c] = t], call[c].pc \notin InHand, t.pc \notin InHand,
         t.pc = "start" => t.tunnel \in Tunnel /\ t.conn \in Conn, CmdOK(t),
         \A k \in Conn : Was(k) => Was(k)',
         \A k \in spawned' : k \in spawned \/ Was(k)',
         t.pc \in After \/ t.cmd = "auto" =>
            t.conn \in Conn /\ (((call[c].pc \in After \/ call[c].cmd = "auto") /\ t.conn = call[c].conn) \/ Was(t.conn)')
  PROVE  Inv'
<1> USE DEF Inv
<1>1. call'[c] = t /\ \A e \in Call : e # c => call'[e] = call[e] BY Moved
<1>2. TunnelInv' BY TunnelsAlone
<1>3. \A e \in Call : call'[e].pc \in After \/ call'[e].cmd = "auto" =>
            \/ (call[e].pc \in After \/ call[e].cmd = "auto") /\ call'[e].conn = call[e].conn /\ call'[e].conn \in Conn
            \/ Was(call[e].conn)'
  <2> SUFFICES ASSUME NEW e \in Call, call'[e].pc \in After \/ call'[e].cmd = "auto"
               PROVE  \/ (call[e].pc \in After \/ call[e].cmd = "auto") /\ call'[e].conn = call[e].conn /\ call'[e].conn \in Conn
                      \/ Was(call[e].conn)'
    OBVIOUS
  <2>1. CASE e # c BY <1>1, <2>1, HasConn
  <2>2. CASE e = c
    <3>1. CASE Was(t.conn)' BY <1>1, <2>2, <3>1 DEF Was
    <3>2. CASE ~Was(t.conn)' BY <1>1, <2>2, <3>2
    <3> QED BY <3>1, <3>2
  <2> QED BY <2>1, <2>2
<1>4. FollowInv' BY <1>3, Following
<1> QED BY <1>2, <1>4

\* open_shell, open_files or the login gave a terminal or a browser: it goes into its map.
LEMMA InsertStep ==
  ASSUME Inv, NEW c \in Call, Insert(c), UNCHANGED asked
  PROVE  Inv'
<1> USE DEF Inv, tunnel
<1>1. PICK t \in Task : /\ call' = [call EXCEPT ![c] = t] /\ CmdOK(t) /\ t.cmd # "auto"
                        /\ \/ call[c].cmd = "shell" /\ t.pc = "hosts" /\ t.conn = call[c].conn /\ t.page = call[c].page
                           \/ call[c].cmd # "shell" /\ t.pc = "idle" /\ t.cmd = "none"
  <2>1. CASE call[c].cmd = "shell"
    <3>1. PICK t \in Task : /\ call' = [call EXCEPT ![c] = t] /\ t.pc = "hosts" /\ t.conn = call[c].conn 
                            /\ t.page = call[c].page /\ t.cmd = call[c].cmd
      BY <2>1, Gone DEF Insert, Place, After
    <3> QED BY <2>1, <3>1 DEF CmdOK
  <2>2. CASE call[c].cmd # "shell" BY <2>2, Returned DEF Insert
  <2> QED BY <2>1, <2>2
<1>2. call'[c] = t /\ \A e \in Call : e # c => call'[e] = call[e] BY <1>1, Moved
<1>a. call[c].pc = "insert" /\ call[c].conn \in Conn /\ conn[call[c].conn] \notin {"unused", "open"}
  BY DEF Insert, At, ConnInv, LoginOK, Login
<1>b. /\ late' = IF call[c].page = page THEN late ELSE late \cup {call[c].conn}
      /\ UNCHANGED <<conn, of, losses, pending, hosts, passwords, spawned, tunnel, page>>
      /\ known' = known \/ known' = known \cup {call[c].conn}
  BY DEF Insert, Late, Reply
<1>c. \/ t.pc = "hosts" /\ sessions' = sessions \cup {call[c].conn} /\ UNCHANGED files
      \/ t.pc = "idle" /\ files' = files \cup {call[c].conn} /\ UNCHANGED sessions
  BY <1>1 DEF Insert
<1>3. Typed' BY <1>1, <1>a, <1>b, <1>c, Moved DEF Typed
<1>4. OwnOK' BY <1>1, <1>2, <1>a DEF ConnInv, OwnOK, Login, After
<1>5. PendingOK' BY <1>a, <1>b, <1>c DEF ConnInv, PendingOK, LoginOK, Login
<1>6. MapsOK' BY <1>a, <1>b, <1>c DEF ConnInv, MapsOK, LoginOK, Login
<1>7. Kept'
  <2> SUFFICES ASSUME NEW k \in Conn, conn[k] \in {"open", "in"}
               PROVE  \/ k \in sessions' \cup files' \/ \E a \in Attempt : pending'[a] = k
                      \/ \E e \in Call : call'[e].pc \in Login /\ call'[e].conn = k
    BY <1>b DEF Kept
  <2> QED BY <1>2, <1>a, <1>b, <1>c DEF ConnInv, Kept
<1>r. \A pcs : pcs \subseteq Before \cup {"drain"} => (Reloading(pcs) => Reloading(pcs)')
  BY <1>2, <1>a DEF Reloading, Before
<1>8. Paged' BY <1>r, <1>a, <1>b, <1>c DEF ConnInv, Paged, LoginOK, Login
<1>9. Wiped' BY <1>2, <1>a, <1>b DEF ConnInv, Wiped
<1>10. ASSUME NEW e \in Call PROVE LoginOK(e)'
  <2>1. CASE e = c BY <1>1, <1>2, <1>a, <1>b, <1>c, <2>1 DEF ConnInv, LoginOK, Login, After
  <2>2. CASE e # c
    <3>1. LoginOK(e) BY DEF ConnInv
    <3>2. call[e].pc \in Login \cup After => call[e].conn # call[c].conn BY <1>a, <2>2 DEF ConnInv, OwnOK, Login
    <3> QED BY <1>2, <1>b, <1>c, <2>2, <3>1, <3>2 DEF LoginOK
  <2> QED BY <2>1, <2>2
<1>11. ConnInv' BY <1>4, <1>5, <1>6, <1>7, <1>8, <1>9, <1>10 DEF ConnInv
<1>12. \A k \in Conn : Was(k) => Was(k)' BY <1>b, <1>c DEF Was
<1>13. t.pc \in After => t.conn \in Conn /\ Was(t.conn)' BY <1>1, <1>a, <1>c DEF Was, After
<1>14. {call[c].pc, t.pc} \cap InHand = {} /\ t.pc # "start" BY <1>1, <1>a DEF InHand, Locked
<1>15. UNCHANGED <<tunnels, locked, run, spawned>> BY <1>b
<1> QED BY <1>1, <1>3, <1>11, <1>12, <1>13, <1>14, <1>15, Aside

\* connect_host notes the terminal's host, and spawns its autostart.
LEMMA HostsStep ==
  ASSUME Inv, NEW c \in Call, Hosts(c), UNCHANGED asked
  PROVE  Inv'
<1> USE DEF Inv, tunnel
<1>1. PICK t \in Task : /\ call' = [call EXCEPT ![c] = t] /\ t.pc = "password" /\ t.conn = call[c].conn
                        /\ t.page = call[c].page /\ t.cmd = call[c].cmd /\ t.tunnel = call[c].tunnel
  BY Gone DEF Hosts, Place, After
<1>2. call'[c] = t /\ \A e \in Call : e # c => call'[e] = call[e] BY <1>1, Moved
<1>a. call[c].pc = "hosts" /\ call[c].conn \in Conn /\ conn[call[c].conn] # "unused" /\ Was(call[c].conn)
  BY DEF Hosts, At, ConnInv, LoginOK, After, FollowInv
<1>b. /\ late' = IF call[c].page = page THEN late ELSE late \cup {call[c].conn}
      /\ hosts' = hosts \cup {call[c].conn} /\ spawned' = spawned \cup {call[c].conn}
      /\ UNCHANGED <<conn, of, losses, pending, sessions, files, passwords, tunnel, page, known, asked>>
  BY DEF Hosts, Late, view
<1>3. Typed' BY <1>1, <1>a, <1>b, Moved DEF Typed
<1>4. OwnOK' BY <1>1, <1>2, <1>a DEF ConnInv, OwnOK, Login, After
<1>5. PendingOK' BY <1>a, <1>b DEF ConnInv, PendingOK, LoginOK, After
<1>6. MapsOK' BY <1>a, <1>b DEF ConnInv, MapsOK, LoginOK, After
<1>7. Kept' BY <1>1, <1>2, <1>a, <1>b DEF ConnInv, Kept, Login
<1>r. \A pcs : pcs \subseteq Before \cup {"drain"} => (Reloading(pcs) => Reloading(pcs)')
  BY <1>2, <1>a DEF Reloading, Before
<1>8. Paged' BY <1>r, <1>a, <1>b DEF ConnInv, Paged
<1>9. Wiped' BY <1>1, <1>2, <1>a, <1>b DEF ConnInv, Wiped
<1>10. ASSUME NEW e \in Call PROVE LoginOK(e)'
  <2>1. CASE e = c BY <1>1, <1>2, <1>a, <1>b, <2>1 DEF ConnInv, LoginOK, Login, After
  <2>2. CASE e # c
    <3>1. LoginOK(e) BY DEF ConnInv
    <3>2. call[e].pc \in Login \cup After => call[e].conn # call[c].conn BY <1>a, <2>2 DEF ConnInv, OwnOK, After
    <3> QED BY <1>2, <1>b, <2>2, <3>1, <3>2 DEF LoginOK
  <2> QED BY <2>1, <2>2
<1>11. ConnInv' BY <1>4, <1>5, <1>6, <1>7, <1>8, <1>9, <1>10 DEF ConnInv
<1>12. \A k \in Conn : Was(k) => Was(k)' BY <1>b DEF Was
<1>13. t.conn \in Conn /\ (call[c].pc \in After \/ call[c].cmd = "auto") BY <1>1, <1>a DEF After
<1>14. {call[c].pc, t.pc} \cap InHand = {} /\ t.pc # "start" BY <1>1, <1>a DEF InHand, Locked
<1>15. UNCHANGED <<tunnels, locked, run>> /\ \A k \in spawned' : k \in spawned \/ Was(k)' BY <1>a, <1>b, <1>12
<1>16. CmdOK(t) BY <1>1, <1>a DEF TunnelInv, CmdOK
<1> QED BY <1>1, <1>3, <1>11, <1>12, <1>13, <1>14, <1>15, <1>16, Aside

\* The password is kept, and the page is given the id.
LEMMA PasswordStep ==
  ASSUME Inv, NEW c \in Call, Password(c), UNCHANGED asked
  PROVE  Inv'
<1> USE DEF Inv, tunnel
<1>1. PICK t \in Task : call' = [call EXCEPT ![c] = t] /\ t.pc = "idle" /\ t.cmd = "none" /\ CmdOK(t)
  BY Returned DEF Password
<1>2. call'[c] = t /\ \A e \in Call : e # c => call'[e] = call[e] BY <1>1, Moved
<1>a. call[c].pc = "password" /\ call[c].conn \in Conn /\ conn[call[c].conn] # "unused"
  BY DEF Password, At, ConnInv, LoginOK, After
<1>b. /\ late' = IF call[c].page = page THEN late ELSE late \cup {call[c].conn}
      /\ known' = IF call[c].page = page THEN known \cup {call[c].conn} ELSE known
      /\ passwords' = passwords \/ passwords' = passwords \cup {call[c].conn}
      /\ UNCHANGED <<conn, of, losses, pending, sessions, files, hosts, spawned, tunnel, page, asked>>
  BY DEF Password, Late, Reply
<1>3. Typed' BY <1>1, <1>a, <1>b, Moved DEF Typed
<1>4. OwnOK' BY <1>1, <1>2, <1>a DEF ConnInv, OwnOK, Login, After
<1>5. PendingOK' BY <1>a, <1>b DEF ConnInv, PendingOK, LoginOK, After
<1>6. MapsOK' BY <1>a, <1>b DEF ConnInv, MapsOK, LoginOK, After
<1>7. Kept' BY <1>1, <1>2, <1>a, <1>b DEF ConnInv, Kept, Login
<1>r. \A pcs : pcs \subseteq Before \cup {"drain"} => (Reloading(pcs) => Reloading(pcs)')
  BY <1>2, <1>a DEF Reloading, Before
<1>8. Paged' BY <1>r, <1>a, <1>b DEF ConnInv, Paged
<1>9. Wiped' BY <1>1, <1>2, <1>a, <1>b DEF ConnInv, Wiped
<1>10. ASSUME NEW e \in Call PROVE LoginOK(e)'
  <2>1. CASE e = c BY <1>1, <1>2, <2>1 DEF LoginOK, Login, After
  <2>2. CASE e # c
    <3>1. LoginOK(e) BY DEF ConnInv
    <3>2. call[e].pc \in Login \cup After => call[e].conn # call[c].conn BY <1>a, <2>2 DEF ConnInv, OwnOK, After
    <3> QED BY <1>2, <1>b, <2>2, <3>1, <3>2 DEF LoginOK
  <2> QED BY <2>1, <2>2
<1>11. ConnInv' BY <1>4, <1>5, <1>6, <1>7, <1>8, <1>9, <1>10 DEF ConnInv
<1>12. \A k \in Conn : Was(k) => Was(k)' BY <1>b DEF Was
<1>14. {call[c].pc, t.pc} \cap InHand = {} /\ t.pc \notin After \cup {"start"} BY <1>1, <1>a DEF InHand, Locked, After
<1>15. UNCHANGED <<tunnels, locked, run, spawned>> BY <1>b
<1> QED BY <1>1, <1>3, <1>11, <1>12, <1>14, <1>15, Aside

\* into_link: the connection goes over to the tunnels.
LEMMA LinkStep ==
  ASSUME Inv, NEW c \in Call, Link(c), UNCHANGED asked
  PROVE  Inv'
<1> USE DEF Inv, maps, view
<1>1. PICK t \in Task : /\ call' = [call EXCEPT ![c] = t] /\ t.pc = "start" /\ t.conn = call[c].conn
                        /\ t.page = call[c].page /\ t.cmd = call[c].cmd /\ t.tunnel = call[c].tunnel
  BY Gone DEF Link, Place
<1>2. call'[c] = t /\ \A e \in Call : e # c => call'[e] = call[e] BY <1>1, Moved
<1>a. /\ call[c].pc = "link" /\ call[c].conn \in Conn /\ conn[call[c].conn] \notin {"unused", "open"}
      /\ call[c].cmd = "tunnel" /\ call[c].tunnel \in Tunnel
  BY DEF Link, At, ConnInv, LoginOK, Login, TunnelInv, CmdOK
<1>b. /\ dedicated' = call[c].conn
      /\ UNCHANGED <<of, late, losses, maps, spawned, tunnels, locked, run, shown, view, asked>>
  BY DEF Link
<1>c. /\ conn' \in [Conn -> {"unused", "open", "in", "link", "ending", "closed"}]
      /\ \A k \in Conn : \/ conn'[k] = conn[k] /\ (k = call[c].conn => conn[k] # "in")
                         \/ k = call[c].conn /\ conn[k] = "in" /\ conn'[k] = "link"
  BY <1>a DEF Link, Typed
<1>3. Typed' BY <1>1, <1>a, <1>b, <1>c, Moved DEF Typed
<1>4. OwnOK' BY <1>1, <1>2, <1>a DEF ConnInv, OwnOK, Login, After
<1>5. PendingOK' BY <1>b, <1>c, <1>3 DEF ConnInv, PendingOK, Typed
<1>6. MapsOK' BY <1>b, <1>c, <1>3 DEF ConnInv, MapsOK, Typed
<1>7. Kept' BY <1>1, <1>2, <1>a, <1>b, <1>c DEF ConnInv, Kept
<1>r. \A pcs : pcs \subseteq Before \cup {"drain"} => (Reloading(pcs) => Reloading(pcs)')
  BY <1>2, <1>a DEF Reloading, Before
<1>8. Paged' BY <1>r, <1>a, <1>b DEF ConnInv, Paged
<1>9. Wiped' BY <1>1, <1>2, <1>a, <1>b DEF ConnInv, Wiped
<1>10. ASSUME NEW e \in Call PROVE LoginOK(e)'
  <2>1. CASE e = c BY <1>1, <1>2, <2>1 DEF LoginOK, Login, After
  <2>2. CASE e # c
    <3>1. LoginOK(e) BY DEF ConnInv
    <3> QED BY <1>2, <1>b, <1>c, <2>2, <3>1 DEF LoginOK
  <2> QED BY <2>1, <2>2
<1>11. ConnInv' BY <1>4, <1>5, <1>6, <1>7, <1>8, <1>9, <1>10 DEF ConnInv
<1>12. \A k \in Conn : Was(k) => Was(k)' BY <1>b, <1>c DEF Was
<1>14. {call[c].pc, t.pc} \cap InHand = {} /\ t.pc \notin After /\ t.cmd # "auto" BY <1>1, <1>a DEF InHand, Locked, After
<1>15. UNCHANGED <<tunnels, locked, run, spawned>> /\ t.tunnel \in Tunnel /\ t.conn \in Conn /\ CmdOK(t) BY <1>1, <1>a, <1>b DEF CmdOK
<1> QED BY <1>1, <1>3, <1>11, <1>12, <1>14, <1>15, Aside

\* The user is asked, and the connection waits for the answer.
LEMMA AskStep ==
  ASSUME Inv, NEW c \in Call, call[c].pc \in {"auth", "channel"}, Ask(c), Return(c),
         UNCHANGED <<of, losses, sessions, files, hosts, passwords, spawned, tunnel, view, asked>>
  PROVE  Inv'
<1> USE DEF Inv, tunnel, view
<1>1. PICK t \in Task : call' = [call EXCEPT ![c] = t] /\ t.pc = "idle" /\ t.cmd = "none" /\ CmdOK(t)
  BY Returned
<1>2. call'[c] = t /\ \A e \in Call : e # c => call'[e] = call[e] BY <1>1, Moved
<1>n. None \notin Conn BY SessionsAssumption
<1>a. /\ call[c].pc \in Login /\ call[c].conn \in Conn /\ conn[call[c].conn] # "unused" /\ call[c].attempt \in Attempt
      /\ call[c].conn \notin files \cup hosts \cup passwords /\ of[call[c].conn] = call[c].page
      /\ \A a \in Attempt : pending[a] # call[c].conn
  BY DEF ConnInv, LoginOK, Login
<1>b. late' = IF call[c].page = page THEN late ELSE late \cup {call[c].conn} BY DEF Ask, Late
<1>w. PICK w \in Conn \cup {None} : w = pending[call[c].attempt] BY <1>a DEF Typed
<1>p. /\ pending' \in [Attempt -> Conn \cup {None}]
      /\ \A a \in Attempt : pending'[a] = IF a = call[c].attempt THEN call[c].conn ELSE pending[a]
  BY <1>a DEF Ask, Typed
<1>c. /\ conn' \in [Conn -> {"unused", "open", "in", "link", "ending", "closed"}]
      /\ \A k \in Conn : conn'[k] = IF k = w THEN "closed" ELSE conn[k]
  BY <1>w, <1>n DEF Ask, Closing, Typed
<1>d. w # call[c].conn /\ (w # None => conn[w] # "unused") BY <1>a, <1>w DEF ConnInv, PendingOK
<1>3. Typed' BY <1>1, <1>a, <1>b, <1>c, <1>p, Moved DEF Typed
<1>4. OwnOK' BY <1>1, <1>2 DEF ConnInv, OwnOK, Login, After
<1>5. PendingOK' BY <1>a, <1>c, <1>d, <1>p, <1>3 DEF ConnInv, PendingOK, Typed
<1>6. MapsOK' BY <1>c, <1>d, <1>3 DEF ConnInv, MapsOK, Typed
<1>7. Kept'
  <2> SUFFICES ASSUME NEW k \in Conn, conn'[k] \in {"open", "in"}
               PROVE  \/ k \in sessions \cup files \/ \E a \in Attempt : pending'[a] = k
                      \/ \E e \in Call : call'[e].pc \in Login /\ call'[e].conn = k
    BY DEF Kept
  <2>1. k # w /\ conn[k] \in {"open", "in"} BY <1>c
  <2>2. \/ k \in sessions \cup files \/ \E a \in Attempt : pending[a] = k
        \/ \E e \in Call : call[e].pc \in Login /\ call[e].conn = k
    BY <2>1 DEF ConnInv, Kept
  <2>3. CASE \E a \in Attempt : pending[a] = k BY <1>p, <1>w, <2>1, <2>3
  <2>4. CASE \E e \in Call : call[e].pc \in Login /\ call[e].conn = k BY <1>2, <1>a, <1>p, <2>4
  <2> QED BY <2>2, <2>3, <2>4
<1>r. \A pcs : pcs \subseteq Before \cup {"drain"} => (Reloading(pcs) => Reloading(pcs)')
  BY <1>2 DEF Reloading, Before
<1>8. Paged' BY <1>r, <1>a, <1>b, <1>p DEF ConnInv, Paged
<1>9. Wiped' BY <1>2, <1>b DEF ConnInv, Wiped
<1>10. ASSUME NEW e \in Call PROVE LoginOK(e)'
  <2>1. CASE e = c BY <1>1, <1>2, <2>1 DEF LoginOK, Login, After
  <2>2. CASE e # c
    <3>1. LoginOK(e) BY DEF ConnInv
    <3>2. call[e].pc \in Login \cup After => call[e].conn # call[c].conn BY <1>a, <2>2 DEF ConnInv, OwnOK
    <3> QED BY <1>2, <1>c, <1>d, <1>p, <2>2, <3>1, <3>2 DEF LoginOK
  <2> QED BY <2>1, <2>2
<1>11. ConnInv' BY <1>4, <1>5, <1>6, <1>7, <1>8, <1>9, <1>10 DEF ConnInv
<1>12. \A k \in Conn : Was(k) => Was(k)' BY <1>c DEF Was
<1>14. {call[c].pc, t.pc} \cap InHand = {} /\ t.pc \notin After \cup {"start"} BY <1>1 DEF InHand, Locked, After
<1> QED BY <1>1, <1>3, <1>11, <1>12, <1>14, Aside

\* A login fails: its connection is closed.
LEMMA GiveUpStep ==
  ASSUME Inv, NEW c \in Call, call[c].pc \in {"auth", "channel"}, Closing({call[c].conn}), Return(c),
         UNCHANGED <<pending, late, of, losses, sessions, files, hosts, passwords, spawned, tunnel, view, asked>>
  PROVE  Inv'
<1> USE DEF Inv, tunnel, view
<1>1. PICK t \in Task : call' = [call EXCEPT ![c] = t] /\ t.pc = "idle" /\ t.cmd = "none" /\ CmdOK(t)
  BY Returned
<1>2. call'[c] = t /\ \A e \in Call : e # c => call'[e] = call[e] BY <1>1, Moved
<1>a. call[c].conn \in Conn /\ conn[call[c].conn] # "unused" BY DEF ConnInv, LoginOK, Login
<1>c. /\ conn' \in [Conn -> {"unused", "open", "in", "link", "ending", "closed"}]
      /\ \A k \in Conn : conn'[k] = IF k = call[c].conn THEN "closed" ELSE conn[k]
  BY DEF Closing, Typed
<1>3. Typed' BY <1>1, <1>c, Moved DEF Typed
<1>4. OwnOK' BY <1>1, <1>2 DEF ConnInv, OwnOK, Login, After
<1>5. PendingOK' BY <1>a, <1>c, <1>3 DEF ConnInv, PendingOK, Typed
<1>6. MapsOK' BY <1>a, <1>c, <1>3 DEF ConnInv, MapsOK, Typed
<1>7. Kept' BY <1>2, <1>c DEF ConnInv, Kept
<1>r. \A pcs : pcs \subseteq Before \cup {"drain"} => (Reloading(pcs) => Reloading(pcs)')
  BY <1>2 DEF Reloading, Before
<1>8. Paged' BY <1>r DEF ConnInv, Paged
<1>9. Wiped' BY <1>2 DEF ConnInv, Wiped
<1>10. ASSUME NEW e \in Call PROVE LoginOK(e)'
  <2>1. CASE e = c BY <1>1, <1>2, <2>1 DEF LoginOK, Login, After
  <2>2. CASE e # c BY <1>2, <1>c, <2>2 DEF ConnInv, LoginOK
  <2> QED BY <2>1, <2>2
<1>11. ConnInv' BY <1>4, <1>5, <1>6, <1>7, <1>8, <1>9, <1>10 DEF ConnInv
<1>12. \A k \in Conn : Was(k) => Was(k)' BY <1>c DEF Was
<1>14. {call[c].pc, t.pc} \cap InHand = {} /\ t.pc \notin After \cup {"start"} BY <1>1 DEF InHand, Locked, After
<1> QED BY <1>1, <1>3, <1>11, <1>12, <1>14, Aside

\* A login goes on with its own connection, which is logged in.
LEMMA GoOnStep ==
  ASSUME Inv, NEW c \in Call, NEW p \in {"link", "channel", "insert"}, call[c].pc \in {"auth", "channel"},
         Goto(c, p), p = "link" => call[c].cmd = "tunnel",
         conn[call[c].conn] \in {"open", "in"}, conn' = [conn EXCEPT ![call[c].conn] = "in"],
         UNCHANGED <<pending, late, of, losses, sessions, files, hosts, passwords, spawned, tunnel, view, asked>>
  PROVE  Inv'
<1> USE DEF Inv, tunnel, view
<1>1. PICK t \in Task : /\ call' = [call EXCEPT ![c] = t] /\ t.pc = p /\ t.conn = call[c].conn
                        /\ t.attempt = call[c].attempt
                        /\ t.page = call[c].page /\ t.cmd = call[c].cmd /\ t.tunnel = call[c].tunnel
  BY Gone DEF Place, Login
<1>2. call'[c] = t /\ \A e \in Call : e # c => call'[e] = call[e] BY <1>1, Moved
<1>a. call[c].conn \in Conn /\ call[c].pc \in Login BY DEF ConnInv, LoginOK, Login
<1>c. /\ conn' \in [Conn -> {"unused", "open", "in", "link", "ending", "closed"}]
      /\ \A k \in Conn : conn'[k] = IF k = call[c].conn THEN "in" ELSE conn[k]
  BY <1>a DEF Typed
<1>3. Typed' BY <1>1, <1>c, Moved DEF Typed
<1>4. OwnOK' BY <1>1, <1>2, <1>a DEF ConnInv, OwnOK, Login, After
<1>5. PendingOK' BY <1>a, <1>c, <1>3 DEF ConnInv, PendingOK, Typed
<1>6. MapsOK' BY <1>a, <1>c, <1>3 DEF ConnInv, MapsOK, Typed
<1>7. Kept'
  <2>1. \A e \in Call : call[e].pc \in Login => call'[e].pc \in Login /\ call'[e].conn = call[e].conn
    BY <1>1, <1>2 DEF Login
  <2> QED BY <2>1, <1>a, <1>c DEF ConnInv, Kept
<1>r. \A pcs : pcs \subseteq Before \cup {"drain"} => (Reloading(pcs) => Reloading(pcs)')
  BY <1>2 DEF Reloading, Before
<1>8. Paged' BY <1>r DEF ConnInv, Paged
<1>9. Wiped' BY <1>2 DEF ConnInv, Wiped
<1>10. ASSUME NEW e \in Call PROVE LoginOK(e)'
  <2>1. CASE e = c
    <3>1. LoginOK(c) BY DEF ConnInv
    <3> QED BY <1>1, <1>2, <1>c, <2>1, <3>1 DEF LoginOK, Login, After
  <2>2. CASE e # c
    <3>1. LoginOK(e) BY DEF ConnInv
    <3> QED BY <1>2, <1>c, <2>2, <3>1 DEF LoginOK
  <2> QED BY <2>1, <2>2
<1>11. ConnInv' BY <1>4, <1>5, <1>6, <1>7, <1>8, <1>9, <1>10 DEF ConnInv
<1>12. \A k \in Conn : Was(k) => Was(k)' BY <1>c DEF Was
<1>13. t.pc \notin After /\ (t.cmd = "auto" => t.conn \in Conn /\ call[c].cmd = "auto") BY <1>1, <1>a DEF After
<1>14. {call[c].pc, t.pc} \cap InHand = {} /\ t.pc # "start" BY <1>1 DEF InHand, Locked
<1>15. CmdOK(t)
  <2>1. CmdOK(call[c]) BY DEF TunnelInv
  <2> QED BY <1>1, <2>1 DEF CmdOK
<1>16. t.pc \in After \/ t.cmd = "auto" => t.conn \in Conn /\ (((call[c].pc \in After \/ call[c].cmd = "auto") /\ t.conn = call[c].conn) \/ Was(t.conn)')
  BY <1>1, <1>13
<1> QED BY <1>1, <1>3, <1>11, <1>12, <1>14, <1>15, <1>16, Aside

\* authenticate
LEMMA AuthStep ==
  ASSUME Inv, NEW c \in Call, Auth(c), UNCHANGED asked
  PROVE  Inv'
<1>1. call[c].pc = "auth" /\ UNCHANGED <<of, losses, sessions, files, hosts, passwords, spawned, tunnel, view, asked>>
  BY DEF Auth, At
<1>2. CASE /\ conn[call[c].conn] \in {"open", "in"} /\ conn' = [conn EXCEPT ![call[c].conn] = "in"]
           /\ Goto(c, IF call[c].cmd = "tunnel" THEN "link" ELSE "channel") /\ UNCHANGED <<pending, late>>
  <2>1. CASE call[c].cmd = "tunnel"
    <3>1. Goto(c, "link") BY <1>2, <2>1
    <3> QED BY <1>1, <1>2, <2>1, <3>1, GoOnStep
  <2>2. CASE call[c].cmd # "tunnel"
    <3>1. Goto(c, "channel") BY <1>2, <2>2
    <3> QED BY <1>1, <1>2, <3>1, GoOnStep
  <2> QED BY <2>1, <2>2
<1>3. CASE Ask(c) /\ Return(c) BY <1>1, <1>3, AskStep
<1>4. CASE Closing({call[c].conn}) /\ Return(c) /\ UNCHANGED <<pending, late>> BY <1>1, <1>4, GiveUpStep
<1> QED BY <1>2, <1>3, <1>4 DEF Auth

\* open_shell, open_files
LEMMA ChannelStep ==
  ASSUME Inv, NEW c \in Call, Channel(c), UNCHANGED asked
  PROVE  Inv'
<1>1. call[c].pc = "channel" /\ UNCHANGED <<of, losses, sessions, files, hosts, passwords, spawned, tunnel, view, asked>>
  BY DEF Channel, At
<1>2. CASE conn[call[c].conn] = "in" /\ Goto(c, "insert") /\ UNCHANGED <<conn, pending, late>>
  <2>1. call[c].conn \in Conn BY <1>1 DEF Inv, ConnInv, LoginOK, Login
  <2>2. conn' = [conn EXCEPT ![call[c].conn] = "in"] BY <1>2, <2>1 DEF Inv, Typed
  <2> QED BY <1>1, <1>2, <2>2, GoOnStep
<1>3. CASE Ask(c) /\ Return(c) BY <1>1, <1>3, AskStep
<1>4. CASE Closing({call[c].conn}) /\ Return(c) /\ UNCHANGED <<pending, late>> BY <1>1, <1>4, GiveUpStep
<1> QED BY <1>2, <1>3, <1>4 DEF Channel

\* SshConnection::open
LEMMA OpenStep ==
  ASSUME Inv, NEW c \in Call, Open(c), UNCHANGED asked
  PROVE  Inv'
<1> USE DEF Inv, tunnel, view, maps
<1>1. CASE Return(c) /\ UNCHANGED <<conn, of>>
  <2>1. PICK t \in Task : call' = [call EXCEPT ![c] = t] /\ t.pc = "idle" /\ t.cmd = "none" /\ CmdOK(t) BY <1>1, Returned
  <2>2. call'[c] = t /\ \A e \in Call : e # c => call'[e] = call[e] BY <2>1, Moved
  <2>a. call[c].pc = "open" /\ UNCHANGED <<net, maps, spawned, tunnel, view, asked>> BY <1>1 DEF Open, At, net
  <2>3. Typed' BY <2>1, <2>a, Moved DEF Typed, net
  <2>r. \A pcs : pcs \subseteq Before \cup {"drain"} => (Reloading(pcs) => Reloading(pcs)')
    BY <2>2, <2>a DEF Reloading, Before
  <2>4. OwnOK' BY <2>1, <2>2 DEF ConnInv, OwnOK, Login, After
  <2>5. PendingOK' /\ MapsOK' BY <2>a DEF ConnInv, PendingOK, MapsOK, net
  <2>6. Kept' BY <2>2, <2>a DEF ConnInv, Kept, net, Login
  <2>7. Paged' BY <2>a, <2>r DEF ConnInv, Paged, net
  <2>8. Wiped' BY <2>2, <2>a DEF ConnInv, Wiped, net
  <2>9. ASSUME NEW e \in Call PROVE LoginOK(e)'
    <3>1. CASE e = c BY <2>1, <2>2, <3>1 DEF LoginOK, Login, After
    <3>2. CASE e # c BY <2>2, <2>a, <3>2 DEF ConnInv, LoginOK, net
    <3> QED BY <3>1, <3>2
  <2>10. ConnInv' BY <2>4, <2>5, <2>6, <2>7, <2>8, <2>9 DEF ConnInv
  <2>12. \A k \in Conn : Was(k) => Was(k)' BY <2>a DEF Was, net
  <2>14. {call[c].pc, t.pc} \cap InHand = {} /\ t.pc \notin After \cup {"start"} BY <2>1, <2>a DEF InHand, Locked, After
  <2> QED BY <2>1, <2>3, <2>a, <2>10, <2>12, <2>14, Aside
<1>2. ASSUME NEW k \in Conn, conn[k] = "unused", conn' = [conn EXCEPT ![k] = "open"],
             of' = [of EXCEPT ![k] = call[c].page], call' = [call EXCEPT ![c].pc = "auth", ![c].conn = k]
      PROVE  Inv'
  <2>t. call[c] \in Task BY DEF Typed
  <2>1. PICK t : t = [call[c] EXCEPT !.pc = "auth", !.conn = k] OBVIOUS
  <2>2. /\ t \in Task /\ t.pc = "auth" /\ t.conn = k /\ t.attempt = call[c].attempt /\ t.page = call[c].page
        /\ t.cmd = call[c].cmd /\ t.tunnel = call[c].tunnel
    BY <2>t, <2>1 DEF Task, Place, Login
  <2>3. call' = [call EXCEPT ![c] = t] BY <1>2, <2>1 DEF Typed
  <2>4. call'[c] = t /\ \A e \in Call : e # c => call'[e] = call[e] BY <2>2, <2>3, Moved
  <2>a. call[c].pc = "open" /\ UNCHANGED <<late, losses, maps, spawned, tunnel, view, asked>> BY DEF Open, At
  <2>b. /\ conn' \in [Conn -> {"unused", "open", "in", "link", "ending", "closed"}]
        /\ \A j \in Conn : conn'[j] = IF j = k THEN "open" ELSE conn[j]
        /\ of' \in [Conn -> Nat] /\ \A j \in Conn : of'[j] = IF j = k THEN call[c].page ELSE of[j]
    BY <1>2, <2>t DEF Typed, Task
  <2>n. /\ k \notin sessions \cup files \cup hosts \cup passwords /\ \A a \in Attempt : pending[a] # k
        /\ \A e \in Call : call[e].pc \in Login \cup After => call[e].conn # k
    <3>1. None \notin Conn BY SessionsAssumption
    <3> QED BY <1>2, <3>1 DEF ConnInv, MapsOK, PendingOK, LoginOK
  <2>5. Typed' BY <2>2, <2>3, <2>a, <2>b, Moved DEF Typed
  <2>r. \A pcs : pcs \subseteq Before \cup {"drain"} => (Reloading(pcs) => Reloading(pcs)')
    BY <2>4, <2>a DEF Reloading, Before
  <2>6. OwnOK' BY <2>2, <2>4, <2>n DEF ConnInv, OwnOK
  <2>7. PendingOK' /\ MapsOK' BY <2>a, <2>b, <2>5 DEF ConnInv, PendingOK, MapsOK, Typed
  <2>8. Kept'
    <3> SUFFICES ASSUME NEW j \in Conn, conn'[j] \in {"open", "in"}
                 PROVE  \/ j \in sessions \cup files \/ \E a \in Attempt : pending[a] = j
                        \/ \E e \in Call : call'[e].pc \in Login /\ call'[e].conn = j
      BY <2>a DEF Kept
    <3>1. CASE j = k BY <2>2, <2>4, <3>1 DEF Login
    <3>2. CASE j # k BY <2>a, <2>b, <2>4, <3>2 DEF ConnInv, Kept, Login
    <3> QED BY <3>1, <3>2
  <2>9. Paged' BY <2>a, <2>b, <2>n, <2>r, <2>5, ZenonT(60) DEF ConnInv, Paged, Typed
  <2>10. Wiped' BY <2>4, <2>a DEF ConnInv, Wiped
  <2>11. ASSUME NEW e \in Call PROVE LoginOK(e)'
    <3>0. LoginOK(e) BY DEF ConnInv
    <3>1. CASE e = c BY <2>2, <2>4, <2>a, <2>b, <2>n, <3>1, <3>0 DEF LoginOK, Login, After
    <3>2. CASE e # c BY <2>4, <2>a, <2>b, <2>n, <3>2, <3>0 DEF LoginOK
    <3> QED BY <3>1, <3>2
  <2>12. ConnInv' BY <2>6, <2>7, <2>8, <2>9, <2>10, <2>11 DEF ConnInv
  <2>13. \A j \in Conn : Was(j) => Was(j)' BY <1>2, <2>a, <2>b DEF Was, ConnInv, MapsOK
  <2>14. {call[c].pc, t.pc} \cap InHand = {} /\ t.pc \notin After \cup {"start"} BY <2>2, <2>a DEF InHand, Locked, After
  <2>15. CmdOK(t) /\ t.cmd # "auto"
    <3>1. CmdOK(call[c]) BY DEF TunnelInv
    <3> QED BY <2>2, <2>a, <3>1 DEF CmdOK
  <2> QED BY <2>2, <2>3, <2>5, <2>a, <2>12, <2>13, <2>14, <2>15, Aside
<1> QED BY <1>1, <1>2 DEF Open

\* A command begins to log in: on the connection that waits for it, or on a new one.
LEMMA TakeStep ==
  ASSUME Inv, NEW c \in Call, NEW a \in Attempt, NEW cmd \in {"shell", "files", "tunnel"},
         NEW tn \in Tunnel \cup {None}, cmd = "tunnel" => tn \in Tunnel,
         At(c, "idle"), Take(c, cmd, a, tn), dedicated' \in Conn \cup {None}, asked' \in Nat,
         UNCHANGED <<spawned, tunnels, locked, run, shown, view>>
  PROVE  Inv'
<1> USE DEF Inv, view
<1>w. PICK w \in Conn \cup {None} : w = pending[a] BY DEF Typed
<1>n. None \notin Conn BY SessionsAssumption
<1>p. /\ pending' \in [Attempt -> Conn \cup {None}]
      /\ \A b \in Attempt : pending'[b] = IF b = a THEN None ELSE pending[b]
      /\ UNCHANGED <<sessions, files, hosts, passwords, late, losses>>
  BY DEF Take, Typed
<1>s. PICK starts : starts = [Idle EXCEPT !.cmd = cmd, !.attempt = a, !.tunnel = tn, !.page = page] OBVIOUS
<1>t. /\ starts \in Task /\ starts.cmd = cmd /\ starts.attempt = a /\ starts.tunnel = tn /\ starts.page = page
  BY <1>s, NothingTyped, ZenonT(60) DEF Task, Typed
<1>i. call[c].pc = "idle" BY DEF At
<1>1. CASE /\ w # None /\ ~Closed(w)
           /\ call' = [call EXCEPT ![c] = [starts EXCEPT !.pc = "auth", !.conn = w]]
           /\ of' = [of EXCEPT ![w] = page] /\ UNCHANGED conn
  <2>1. PICK t : t = [starts EXCEPT !.pc = "auth", !.conn = w] OBVIOUS
  <2>2. t \in Task /\ t.pc = "auth" /\ t.conn = w /\ t.cmd = cmd /\ t.attempt = a /\ t.tunnel = tn /\ t.page = page
    BY <1>t, <2>1 DEF Task, Place, Login
  <2>3. call' = [call EXCEPT ![c] = t] BY <1>1, <2>1
  <2>4. call'[c] = t /\ \A e \in Call : e # c => call'[e] = call[e] BY <2>2, <2>3, Moved
  <2>b. of' \in [Conn -> Nat] /\ \A j \in Conn : of'[j] = IF j = w THEN page ELSE of[j] BY <1>1 DEF Typed
  <2>c. /\ conn[w] # "unused" /\ w \notin files \cup hosts \cup passwords
        /\ \A b \in Attempt : b # a => pending[b] # w
        /\ \A e \in Call : call[e].pc \in Login \cup After => call[e].conn # w
    BY <1>1, <1>w DEF ConnInv, PendingOK, LoginOK
  <2>5. Typed' BY <2>2, <2>3, <2>b, <1>1, <1>p, Moved DEF Typed
  <2>r. \A pcs : pcs \subseteq Before \cup {"drain"} => (Reloading(pcs) => Reloading(pcs)')
    BY <2>4, <1>i DEF Reloading, Before
  <2>6. OwnOK' BY <2>2, <2>4, <2>c DEF ConnInv, OwnOK
  <2>7. PendingOK' /\ MapsOK' BY <1>1, <1>p DEF ConnInv, PendingOK, MapsOK
  <2>8. Kept'
    <3> SUFFICES ASSUME NEW j \in Conn, conn[j] \in {"open", "in"}
                 PROVE  \/ j \in sessions \cup files \/ \E b \in Attempt : pending'[b] = j
                        \/ \E e \in Call : call'[e].pc \in Login /\ call'[e].conn = j
      BY <1>1, <1>p DEF Kept
    <3>1. CASE j = w BY <2>2, <2>4, <3>1 DEF Login
    <3>2. CASE j # w
      <4>1. \/ j \in sessions \cup files \/ \E b \in Attempt : pending[b] = j
            \/ \E e \in Call : call[e].pc \in Login /\ call[e].conn = j
        BY DEF ConnInv, Kept
      <4> QED BY <4>1, <3>2, <1>w, <1>p, <2>4, <1>i DEF Login
    <3> QED BY <3>1, <3>2
  <2>9. Paged' BY <1>p, <2>b, <2>r, <2>5, ZenonT(60) DEF ConnInv, Paged, Typed
  <2>10. Wiped' BY <2>4, <1>p, <1>i DEF ConnInv, Wiped
  <2>11. ASSUME NEW e \in Call PROVE LoginOK(e)'
    <3>0. LoginOK(e) BY DEF ConnInv
    <3>a. w \in Conn /\ conn'[w] # "unused" /\ w \notin files' \cup hosts' \cup passwords' /\ of'[w] = page
      BY <1>1, <1>p, <2>b, <2>c
    <3>b. \A b \in Attempt : pending'[b] # w BY <1>p, <1>n, <3>a, <2>c
    <3>c. call'[c].conn = w /\ call'[c].pc = "auth" /\ call'[c].attempt \in Attempt /\ call'[c].page = page BY <2>2, <2>4
    <3>1. CASE e = c BY <3>a, <3>b, <3>c, <3>1 DEF LoginOK, Login, After
    <3>2. CASE e # c BY <1>1, <1>p, <2>4, <2>b, <2>c, <1>n, <3>2, <3>0 DEF LoginOK
    <3> QED BY <3>1, <3>2
  <2>12. ConnInv' BY <2>6, <2>7, <2>8, <2>9, <2>10, <2>11 DEF ConnInv
  <2>13. \A j \in Conn : Was(j) => Was(j)' BY <1>1, <1>p DEF Was
  <2>14. {call[c].pc, t.pc} \cap InHand = {} /\ t.pc \notin After \cup {"start"} BY <1>i, <2>2 DEF InHand, Locked, After
  <2>15. CmdOK(t) /\ t.cmd # "auto" BY <2>2 DEF CmdOK
  <2> QED BY <2>2, <2>3, <2>5, <2>12, <2>13, <2>14, <2>15, Aside
<1>2. CASE /\ Closing({w} \ {None}) /\ call' = [call EXCEPT ![c] = [starts EXCEPT !.pc = "open"]] /\ UNCHANGED of
  <2>1. PICK t : t = [starts EXCEPT !.pc = "open"] OBVIOUS
  <2>2. t \in Task /\ t.pc = "open" /\ t.cmd = cmd /\ t.attempt = a /\ t.tunnel = tn /\ t.page = page
    BY <1>t, <2>1 DEF Task, Place
  <2>3. call' = [call EXCEPT ![c] = t] BY <1>2, <2>1
  <2>4. call'[c] = t /\ \A e \in Call : e # c => call'[e] = call[e] BY <2>2, <2>3, Moved
  <2>c. /\ conn' \in [Conn -> {"unused", "open", "in", "link", "ending", "closed"}]
        /\ \A j \in Conn : conn'[j] = IF j = w THEN "closed" ELSE conn[j]
        /\ w # None => conn[w] # "unused"
    BY <1>2, <1>w, <1>n DEF Closing, Typed, ConnInv, PendingOK
  <2>5. Typed' BY <2>2, <2>3, <2>c, <1>2, <1>p, Moved DEF Typed
  <2>r. \A pcs : pcs \subseteq Before \cup {"drain"} => (Reloading(pcs) => Reloading(pcs)')
    BY <2>4, <1>i DEF Reloading, Before
  <2>6. OwnOK' BY <2>2, <2>4 DEF ConnInv, OwnOK, Login, After
  <2>7. PendingOK' /\ MapsOK' BY <2>c, <1>p, <2>5 DEF ConnInv, PendingOK, MapsOK, Typed
  <2>8. Kept'
    <3> SUFFICES ASSUME NEW j \in Conn, conn'[j] \in {"open", "in"}
                 PROVE  \/ j \in sessions \cup files \/ \E b \in Attempt : pending'[b] = j
                        \/ \E e \in Call : call'[e].pc \in Login /\ call'[e].conn = j
      BY <1>p DEF Kept
    <3>1. j # w /\ conn[j] \in {"open", "in"} BY <2>c
    <3>2. \/ j \in sessions \cup files \/ \E b \in Attempt : pending[b] = j
          \/ \E e \in Call : call[e].pc \in Login /\ call[e].conn = j
      BY <3>1 DEF ConnInv, Kept
    <3> QED BY <3>1, <3>2, <1>w, <1>p, <2>4, <1>i DEF Login
  <2>9. Paged' BY <1>p, <1>2, <2>r, <2>5 DEF ConnInv, Paged, Typed
  <2>10. Wiped' BY <2>4, <1>p, <1>i DEF ConnInv, Wiped
  <2>11. ASSUME NEW e \in Call PROVE LoginOK(e)'
    <3>0. LoginOK(e) BY DEF ConnInv
    <3>1. CASE e = c BY <2>2, <2>4, <3>1 DEF LoginOK, Login, After
    <3>2. CASE e # c BY <1>2, <1>p, <2>4, <2>c, <1>n, <3>2, <3>0 DEF LoginOK
    <3> QED BY <3>1, <3>2
  <2>12. ConnInv' BY <2>6, <2>7, <2>8, <2>9, <2>10, <2>11 DEF ConnInv
  <2>13. \A j \in Conn : Was(j) => Was(j)' BY <2>c, <1>p DEF Was
  <2>14. {call[c].pc, t.pc} \cap InHand = {} /\ t.pc \notin After \cup {"start"} BY <1>i, <2>2 DEF InHand, Locked, After
  <2>15. CmdOK(t) /\ t.cmd # "auto" BY <2>2 DEF CmdOK
  <2> QED BY <2>2, <2>3, <2>5, <2>12, <2>13, <2>14, <2>15, Aside
<1> QED BY <1>1, <1>2, <1>s, <1>w DEF Take

\* connect_host, open_files
LEMMA ConnectStep ==
  ASSUME Inv, NEW c \in Call, NEW a \in Attempt, NEW cmd \in {"shell", "files"}, Connect(c, a, cmd), asked' \in Nat
  PROVE  Inv'
<1>1. dedicated' \in Conn \cup {None} BY DEF Inv, Typed, Connect, tunnel
<1> QED BY <1>1, TakeStep DEF Connect, tunnel

\* A step of a command outside logging in and closing, with no start of a tunnel in hand.
LEMMA NeitherStep ==
  ASSUME Inv, NEW c \in Call, NEW t \in Task, call' = [call EXCEPT ![c] = t],
         {call[c].pc, t.pc} \cap (Login \cup After \cup InHand \cup {"open", "drain"}) = {},
         call[c].cmd = "reload" /\ call[c].pc \in Before => t.cmd = "reload" /\ t.pc \in Before,
         t.pc = "start" => t.tunnel \in Tunnel /\ t.conn \in Conn, CmdOK(t),
         t.cmd = "auto" => t.conn \in Conn /\ ((call[c].cmd = "auto" /\ t.conn = call[c].conn) \/ Was(t.conn)),
         UNCHANGED <<net, maps, tunnel, view>>, spawned' \subseteq spawned, asked' \in Nat
  PROVE  Inv'
<1> USE DEF Inv, net, maps, tunnel, view
<1>1. call'[c] = t /\ \A e \in Call : e # c => call'[e] = call[e] BY Moved
<1>2. Typed' BY Moved DEF Typed
<1>3. \A e \in Call : \/ call'[e] = call[e]
                      \/ /\ {call[e].pc, call'[e].pc} \cap (Login \cup After \cup {"open", "drain"}) = {}
                         /\ call[e].cmd = "reload" /\ call[e].pc \in Before =>
                              call'[e].cmd = "reload" /\ call'[e].pc \in Before
  BY <1>1
<1>4. ConnInv' BY <1>3, ConnectionsAlone
<1>5. \A k \in Conn : Was(k) => Was(k)' BY DEF Was
<1>6. t.pc \notin InHand /\ call[c].pc \notin InHand /\ t.pc \notin After OBVIOUS
<1>7. t.pc \in After \/ t.cmd = "auto" =>
         t.conn \in Conn /\ (((call[c].pc \in After \/ call[c].cmd = "auto") /\ t.conn = call[c].conn) \/ Was(t.conn)')
  BY <1>5, <1>6 DEF Was
<1>8. UNCHANGED <<tunnels, locked, run>> /\ \A k \in spawned' : k \in spawned \/ Was(k)' OBVIOUS
<1> QED BY <1>2, <1>4, <1>5, <1>6, <1>7, <1>8, Aside

\* start_tunnel
LEMMA StartTunnelStep ==
  ASSUME Inv, NEW c \in Call, NEW a \in Attempt, NEW tn \in Tunnel, StartTunnel(c, a, tn), asked' \in Nat
  PROVE  Inv'
<1> USE DEF Inv
<1>i. call[c].pc = "idle" /\ UNCHANGED <<spawned, tunnels, locked, run, shown, view>> BY DEF StartTunnel, At
<1>1. CASE dedicated # None /\ Held(dedicated) /\ ~Closed(dedicated)
  <2>1. PICK t : t = [Idle EXCEPT !.pc = "start", !.cmd = "tunnel", !.conn = dedicated, !.tunnel = tn, !.page = page] OBVIOUS
  <2>2. t \in Task /\ t.pc = "start" /\ t.cmd = "tunnel" /\ t.conn = dedicated /\ t.tunnel = tn /\ dedicated \in Conn
    BY <1>1, <2>1, NothingTyped, ZenonT(60) DEF Task, Place, Typed
  <2>3. call' = [call EXCEPT ![c] = t] /\ UNCHANGED <<net, maps, tunnel, view, spawned>>
    BY <1>i, <1>1, <2>1 DEF StartTunnel, tunnel
  <2>4. {call[c].pc, t.pc} \cap (Login \cup After \cup InHand \cup {"open", "drain"}) = {} /\ call[c].pc \notin Before
    BY <1>i, <2>2 DEF Login, After, InHand, Locked, Before
  <2>5. CmdOK(t) /\ t.cmd # "auto" BY <2>2 DEF CmdOK
  <2> QED BY <2>2, <2>3, <2>4, <2>5, NeitherStep
<1>2. CASE ~(dedicated # None /\ Held(dedicated) /\ ~Closed(dedicated))
  <2>1. dedicated' = None /\ Take(c, "tunnel", a, tn) BY <1>2 DEF StartTunnel
  <2> QED BY <1>i, <2>1, TakeStep DEF At
<1> QED BY <1>1, <1>2

\* autostart: the tunnels of a terminal that was opened.
LEMMA AutostartStep ==
  ASSUME Inv, NEW c \in Call, Autostart(c), UNCHANGED asked
  PROVE  Inv'
<1> USE DEF Inv
<1>i. call[c].pc = "idle" /\ UNCHANGED <<net, maps, tunnel, view>> BY DEF Autostart, At
<1>0. PICK k \in spawned :
        /\ spawned' = spawned \ {k}
        /\ call' = [call EXCEPT ![c] = [Idle EXCEPT !.pc = "each", !.cmd = "auto", !.conn = k,
                                         !.ids = {t \in Tunnel : ~Busy(t)}, !.page = page]]
  BY DEF Autostart
<1>1. PICK I \in SUBSET Tunnel : I = {t \in Tunnel : ~Busy(t)} OBVIOUS
<1>2. PICK t : t = [Idle EXCEPT !.pc = "each", !.cmd = "auto", !.conn = k, !.ids = I, !.page = page] OBVIOUS
<1>3. t \in Task /\ t.pc = "each" /\ t.cmd = "auto" /\ t.conn = k /\ k \in Conn
  BY <1>1, <1>2, NothingTyped, ZenonT(60) DEF Task, Place, Typed
<1>4. call' = [call EXCEPT ![c] = t] BY <1>0, <1>1, <1>2
<1>5. {call[c].pc, t.pc} \cap (Login \cup After \cup InHand \cup {"open", "drain"}) = {} /\ call[c].pc \notin Before
  BY <1>i, <1>3 DEF Login, After, InHand, Locked, Before
<1>6. CmdOK(t) /\ Was(k) BY <1>3 DEF CmdOK, FollowInv
<1>7. asked' \in Nat /\ spawned' \subseteq spawned BY <1>0 DEF Typed
<1> QED BY <1>i, <1>3, <1>4, <1>5, <1>6, <1>7, NeitherStep

\* The next of the tunnels to start.
LEMMA EachStep ==
  ASSUME Inv, NEW c \in Call, Each(c), UNCHANGED asked
  PROVE  Inv'
<1> USE DEF Inv
<1>i. call[c].pc = "each" /\ UNCHANGED <<net, maps, spawned, tunnel, view>> /\ asked' \in Nat /\ call[c].pc \notin Before
  BY DEF Each, At, Typed, Before
<1>a. call[c].cmd = "auto" BY <1>i DEF TunnelInv, CmdOK
<1>1. CASE Return(c)
  <2>1. PICK t \in Task : call' = [call EXCEPT ![c] = t] /\ t.pc = "idle" /\ t.cmd = "none" /\ CmdOK(t) BY <1>1, Returned
  <2>2. {call[c].pc, t.pc} \cap (Login \cup After \cup InHand \cup {"open", "drain"}) = {}
    BY <1>i, <2>1 DEF Login, After, InHand, Locked
  <2> QED BY <1>i, <2>1, <2>2, NeitherStep
<1>2. ASSUME NEW tn \in call[c].ids, call' = [call EXCEPT ![c].pc = "start", ![c].tunnel = tn, ![c].ids = @ \ {tn}]
      PROVE  Inv'
  <2>t. call[c] \in Task /\ tn \in Tunnel BY <1>2 DEF Typed, Task
  <2>1. PICK t : t = [call[c] EXCEPT !.pc = "start", !.tunnel = tn, !.ids = @ \ {tn}] OBVIOUS
  <2>2. t \in Task /\ t.pc = "start" /\ t.cmd = call[c].cmd /\ t.tunnel = tn /\ t.conn = call[c].conn
    BY <2>t, <2>1 DEF Task, Place
  <2>3. call' = [call EXCEPT ![c] = t] BY <1>2, <2>1 DEF Typed
  <2>4. {call[c].pc, t.pc} \cap (Login \cup After \cup InHand \cup {"open", "drain"}) = {}
    BY <1>i, <2>2 DEF Login, After, InHand, Locked
  <2>5. call[c].conn \in Conn BY <1>a DEF TunnelInv, CmdOK
  <2>6. CmdOK(t) BY <1>a, <2>2, <2>5, <2>t DEF CmdOK
  <2> QED BY <1>i, <1>a, <2>t, <2>2, <2>3, <2>4, <2>5, <2>6, NeitherStep
<1> QED BY <1>1, <1>2 DEF Each

------------------------------------------------------------------------------
(* Closing                                                                  *)

\* stop_tunnel has its tunnel before it.
LEMMA StopTunnelStep ==
  ASSUME Inv, NEW c \in Call, NEW tn \in Tunnel, StopTunnel(c, tn), asked' \in Nat
  PROVE  Inv'
<1> USE DEF Inv
<1>i. call[c].pc = "idle" /\ UNCHANGED <<net, maps, spawned, tunnel, view>> BY DEF StopTunnel, At
<1>2. PICK t : t = [Idle EXCEPT !.pc = "stop", !.cmd = "stop", !.ids = {tn}, !.page = page] OBVIOUS
<1>3. t \in Task /\ t.pc = "stop" /\ t.cmd = "stop" BY <1>2, NothingTyped, ZenonT(60) DEF Task, Place, Typed
<1>4. call' = [call EXCEPT ![c] = t] BY <1>2 DEF StopTunnel
<1>5. {call[c].pc, t.pc} \cap (Login \cup After \cup InHand \cup {"open", "drain"}) = {} /\ call[c].pc \notin Before
  BY <1>i, <1>3 DEF Login, After, InHand, Locked, Before
<1>6. CmdOK(t) BY <1>3 DEF CmdOK
<1> QED BY <1>i, <1>3, <1>4, <1>5, <1>6, NeitherStep

\* stop_session, stop_terminals
LEMMA GatherStep ==
  ASSUME Inv, NEW c \in Call, Gather(c), UNCHANGED asked
  PROVE  Inv'
<1> USE DEF Inv
<1>i. call[c].pc = "gather" /\ UNCHANGED <<net, maps, spawned, tunnel, view>> BY DEF Gather, At
<1>1. PICK I \in SUBSET Tunnel : I =
       {t \in Tunnel : /\ tunnels[t] # None
                       /\ run[tunnels[t]].session \in
                            IF call[c].cmd = "close" THEN {call[c].conn} ELSE Conn}
  OBVIOUS
<1>t. call[c] \in Task BY DEF Typed
<1>2. PICK t : t = [call[c] EXCEPT !.pc = "stop", !.ids = I] OBVIOUS
<1>3. t \in Task /\ t.pc = "stop" /\ t.cmd = call[c].cmd /\ t.conn = call[c].conn /\ t.tunnel = call[c].tunnel
  BY <1>1, <1>2, <1>t, ZenonT(60) DEF Task, Place
<1>4. call' = [call EXCEPT ![c] = t] BY <1>1, <1>2 DEF Gather, Typed
<1>5. {call[c].pc, t.pc} \cap (Login \cup After \cup InHand \cup {"open", "drain"}) = {} /\ t.pc \in Before
  BY <1>i, <1>3 DEF Login, After, InHand, Locked, Before
<1>6. CmdOK(t) /\ (call[c].cmd = "auto" => call[c].conn \in Conn)
  <2>1. CmdOK(call[c]) BY DEF TunnelInv
  <2> QED BY <1>3, <2>1 DEF CmdOK
<1>7. asked' \in Nat BY DEF Typed
<1> QED BY <1>i, <1>3, <1>4, <1>5, <1>6, <1>7, NeitherStep

\* A command that begins to close what a page has, or what every page before had.
LEMMA ClosingStep ==
  ASSUME Inv, NEW c \in Call, call[c].pc = "idle", NEW t \in Task, call' = [call EXCEPT ![c] = t],
         t.pc = "gather", t.cmd \in {"close", "reload"}, t.cmd = "close" => page' = page,
         hosts' \subseteq hosts, passwords' \subseteq passwords, page' \in Nat, known' \subseteq Conn,
         \A k \in hosts' \cup passwords' : page' = page /\ (k \in known => k \in known'),
         UNCHANGED <<net, pending, sessions, files, spawned, tunnel>>, asked' \in Nat
  PROVE  Inv'
<1> USE DEF Inv, net, tunnel
<1>1. call'[c] = t /\ \A e \in Call : e # c => call'[e] = call[e] BY Moved
<1>3. Typed' BY Moved DEF Typed
<1>r. \A pcs : pcs \subseteq Before \cup {"drain"} => (Reloading(pcs) => Reloading(pcs)')
  BY <1>1 DEF Reloading, Before
<1>s. t.cmd = "reload" => Reloading(Before)' /\ Reloading(Before \cup {"drain"})' BY <1>1 DEF Reloading, Before
<1>4. OwnOK' BY <1>1 DEF ConnInv, OwnOK, Login, After
<1>5. PendingOK' /\ MapsOK' BY DEF ConnInv, PendingOK, MapsOK
<1>6. Kept' BY <1>1 DEF ConnInv, Kept, Login
<1>7. Paged'
  <2>1. CASE t.cmd = "reload" BY <1>s, <2>1 DEF Paged
  <2>2. CASE t.cmd = "close" BY <1>r, <2>2 DEF ConnInv, Paged
  <2> QED BY <2>1, <2>2
<1>8. Wiped' BY <1>1 DEF ConnInv, Wiped
<1>9. ASSUME NEW e \in Call PROVE LoginOK(e)'
  <2>1. CASE e = c BY <1>1, <2>1 DEF LoginOK, Login, After
  <2>2. CASE e # c BY <1>1, <2>2 DEF ConnInv, LoginOK
  <2> QED BY <2>1, <2>2
<1>10. ConnInv' BY <1>4, <1>5, <1>6, <1>7, <1>8, <1>9 DEF ConnInv
<1>11. \A k \in Conn : Was(k) => Was(k)' BY DEF Was
<1>12. {call[c].pc, t.pc} \cap InHand = {} /\ t.pc \notin After \cup {"start"} BY DEF InHand, Locked, After
<1>13. CmdOK(t) /\ t.cmd # "auto" BY DEF CmdOK
<1> QED BY <1>3, <1>10, <1>11, <1>12, <1>13, Aside

\* close_session: the id, the host and the password go at once.
LEMMA CloseSessionStep ==
  ASSUME Inv, NEW c \in Call, NEW k \in Conn, CloseSession(c, k), asked' \in Nat
  PROVE  Inv'
<1> USE DEF Inv
<1>2. PICK t : t = [Idle EXCEPT !.pc = "gather", !.cmd = "close", !.conn = k, !.page = page] OBVIOUS
<1>3. t \in Task /\ t.pc = "gather" /\ t.cmd = "close" BY <1>2, NothingTyped, ZenonT(60) DEF Task, Place, Typed
<1>4. call' = [call EXCEPT ![c] = t] /\ call[c].pc = "idle" BY <1>2 DEF CloseSession, At
<1>5. /\ hosts' = hosts \ {k} /\ passwords' = passwords \ {k} /\ known' = known \ {k} /\ page' = page
      /\ UNCHANGED <<net, pending, sessions, files, spawned, tunnel>>
  BY DEF CloseSession, Forget
<1>6. page' \in Nat /\ known' \subseteq Conn BY <1>5 DEF Typed
<1> QED BY <1>3, <1>4, <1>5, <1>6, ClosingStep

\* A page starts: what the one before had is to be closed.
LEMMA ReloadStep ==
  ASSUME Inv, NEW c \in Call, Reload(c), asked' \in Nat
  PROVE  Inv'
<1> USE DEF Inv
<1>1. page' = page + 1 /\ page' \in Nat BY DEF Reload, Typed
<1>2. PICK t : t = [Idle EXCEPT !.pc = "gather", !.cmd = "reload", !.page = page'] OBVIOUS
<1>3. t \in Task /\ t.pc = "gather" /\ t.cmd = "reload" BY <1>1, <1>2, NothingTyped, ZenonT(60) DEF Task, Place
<1>4. call' = [call EXCEPT ![c] = t] /\ call[c].pc = "idle" BY <1>2 DEF Reload, At
<1>5. /\ hosts' = {} /\ passwords' = {} /\ known' = {}
      /\ UNCHANGED <<net, pending, sessions, files, spawned, tunnel>>
  BY DEF Reload
<1> QED BY <1>1, <1>3, <1>4, <1>5, ClosingStep

\* sessions.close, close_all: the terminals are told to end.
LEMMA EndStep ==
  ASSUME Inv, NEW c \in Call, End(c) \/ EndAll(c), UNCHANGED asked
  PROVE  Inv'
<1> USE DEF Inv, tunnel, view
<1>0. PICK K \in SUBSET sessions : Ending(K) /\ sessions' = sessions \ K
  <2>1. CASE End(c)
    <3>1. PICK K : K = {call[c].conn} \cap sessions OBVIOUS
    <3> QED BY <2>1, <3>1 DEF End
  <2>2. CASE EndAll(c) BY <2>2 DEF EndAll
  <2> QED BY <2>1, <2>2
<1>i. /\ call[c].pc = "end" /\ UNCHANGED <<of, late, losses, pending, files, hosts, passwords, spawned, tunnel, view>>
      /\ call[c].cmd \in {"close", "reload"} /\ (call[c].cmd = "reload" => sessions' = {})
  BY DEF End, EndAll, At
<1>1. PICK t \in Task : /\ call' = [call EXCEPT ![c] = t] /\ CmdOK(t) /\ t.cmd # "auto" /\ t.pc \in {"idle", "drain"}
                        /\ call[c].cmd = "reload" => t.pc = "drain" /\ t.cmd = "reload"
  <2>1. CASE End(c)
    <3>1. PICK t \in Task : call' = [call EXCEPT ![c] = t] /\ t = Idle /\ t.pc = "idle" /\ t.cmd = "none" /\ CmdOK(t)
      BY <2>1, Returned DEF End
    <3> QED BY <2>1, <3>1 DEF End
  <2>2. CASE EndAll(c)
    <3>1. PICK t \in Task : call' = [call EXCEPT ![c] = t] /\ t.pc = "drain" /\ t.cmd = call[c].cmd
      BY <2>2, Gone DEF EndAll, Place
    <3> QED BY <2>2, <3>1 DEF EndAll, CmdOK
  <2> QED BY <2>1, <2>2
<1>2. call'[c] = t /\ \A e \in Call : e # c => call'[e] = call[e] BY <1>1, Moved
<1>c. /\ conn' \in [Conn -> {"unused", "open", "in", "link", "ending", "closed"}]
      /\ \A k \in Conn : conn'[k] = IF k \in K THEN IF conn[k] = "closed" THEN "closed" ELSE "ending" ELSE conn[k]
  BY <1>0 DEF Ending, Closed, Typed
<1>3. Typed' BY <1>0, <1>1, <1>c, <1>i, Moved DEF Typed
<1>r. Reloading(Before \cup {"drain"}) => Reloading(Before \cup {"drain"})' BY <1>1, <1>2, <1>i DEF Reloading, Before
<1>s. call[c].cmd # "reload" /\ Reloading(Before) => Reloading(Before)' BY <1>2 DEF Reloading
<1>4. OwnOK' BY <1>1, <1>2 DEF ConnInv, OwnOK, Login, After
<1>5. PendingOK' /\ MapsOK' BY <1>0, <1>c, <1>i, <1>3 DEF ConnInv, PendingOK, MapsOK, Typed
<1>6. Kept' BY <1>0, <1>c, <1>i, <1>2 DEF ConnInv, Kept, Login
<1>7. Paged' BY <1>0, <1>i, <1>r, <1>s DEF ConnInv, Paged
<1>8. Wiped' BY <1>2, <1>i DEF ConnInv, Wiped
<1>9. ASSUME NEW e \in Call PROVE LoginOK(e)'
  <2>1. CASE e = c BY <1>1, <1>2, <2>1 DEF LoginOK, Login, After
  <2>2. CASE e # c
    <3>1. LoginOK(e) BY DEF ConnInv
    <3> QED BY <1>2, <1>c, <1>i, <2>2, <3>1 DEF LoginOK
  <2> QED BY <2>1, <2>2
<1>10. ConnInv' BY <1>4, <1>5, <1>6, <1>7, <1>8, <1>9 DEF ConnInv
<1>11. \A k \in Conn : Was(k) => Was(k)' BY <1>0, <1>c DEF Was
<1>12. {call[c].pc, t.pc} \cap InHand = {} /\ t.pc \notin After \cup {"start"} BY <1>1, <1>i DEF InHand, Locked, After
<1> QED BY <1>1, <1>3, <1>i, <1>10, <1>11, <1>12, Aside

\* close_all: what waits and the file browsers are closed.
LEMMA DrainStep ==
  ASSUME Inv, NEW c \in Call, Drain(c), UNCHANGED asked
  PROVE  Inv'
<1> USE DEF Inv, tunnel, view
<1>i. /\ call[c].pc = "drain" /\ UNCHANGED <<of, late, losses, sessions, hosts, passwords, spawned, tunnel, view>>
      /\ files' = {} /\ pending' = [a \in Attempt |-> None]
  BY DEF Drain, Drained, At
<1>1. PICK t \in Task : call' = [call EXCEPT ![c] = t] /\ t.pc = "idle" /\ t.cmd = "none" /\ CmdOK(t)
  BY Returned DEF Drain
<1>2. call'[c] = t /\ \A e \in Call : e # c => call'[e] = call[e] BY <1>1, Moved
<1>n. None \notin Conn BY SessionsAssumption
<1>c. /\ conn' \in [Conn -> {"unused", "open", "in", "link", "ending", "closed"}]
      /\ \A k \in Conn : conn'[k] = IF k \in files \/ \E a \in Attempt : pending[a] = k THEN "closed" ELSE conn[k]
  BY <1>n DEF Drain, Drained, Closing, Typed
<1>d. \A k \in Conn : conn'[k] = conn[k] \/ (conn'[k] = "closed" /\ conn[k] # "unused")
  BY <1>c, <1>n DEF ConnInv, PendingOK, MapsOK
<1>3. Typed' BY <1>1, <1>c, <1>i, Moved DEF Typed
<1>r. Reloading(Before) => Reloading(Before)' BY <1>2, <1>i DEF Reloading, Before
<1>4. OwnOK' BY <1>1, <1>2 DEF ConnInv, OwnOK, Login, After
<1>5. PendingOK' /\ MapsOK' BY <1>d, <1>i, <1>3 DEF ConnInv, PendingOK, MapsOK, Typed
<1>6. Kept' BY <1>c, <1>i, <1>2 DEF ConnInv, Kept, Login
<1>7. Paged' BY <1>i, <1>r DEF ConnInv, Paged
<1>8. Wiped' BY <1>2, <1>i DEF ConnInv, Wiped
<1>9. ASSUME NEW e \in Call PROVE LoginOK(e)'
  <2>1. CASE e = c BY <1>1, <1>2, <2>1 DEF LoginOK, Login, After
  <2>2. CASE e # c
    <3>1. LoginOK(e) BY DEF ConnInv
    <3> QED BY <1>2, <1>d, <1>i, <1>n, <2>2, <3>1 DEF LoginOK
  <2> QED BY <2>1, <2>2
<1>10. ConnInv' BY <1>4, <1>5, <1>6, <1>7, <1>8, <1>9 DEF ConnInv
<1>11. \A k \in Conn : Was(k) => Was(k)' BY <1>d, <1>i DEF Was
<1>12. {call[c].pc, t.pc} \cap InHand = {} /\ t.pc \notin After \cup {"start"} BY <1>1, <1>i DEF InHand, Locked, After
<1> QED BY <1>1, <1>3, <1>i, <1>10, <1>11, <1>12, Aside

------------------------------------------------------------------------------
(* Starting and stopping tunnels                                            *)

\* The connections are left alone by a step of the tunnel manager.
LEMMA Underneath ==
  ASSUME Inv, Typed', TunnelInv', UNCHANGED <<net, maps, spawned, view>>,
         \A e \in Call : \/ call'[e] = call[e]
                         \/ /\ {call[e].pc, call'[e].pc} \cap (Login \cup After \cup {"open", "drain"}) = {}
                            /\ call[e].cmd = "reload" /\ call[e].pc \in Before =>
                                 call'[e].cmd = "reload" /\ call'[e].pc \in Before
                            /\ call'[e].cmd = "auto" => call[e].cmd = "auto" /\ call'[e].conn = call[e].conn,
         \A i \in Run : run'[i].listening =>
            \/ run[i].listening /\ run'[i].link = run[i].link /\ run'[i].session = run[i].session
            \/ run'[i].session # None => run'[i].link = run'[i].session /\ Was(run[i].session)'
  PROVE  Inv'
<1> USE DEF Inv
<1>1. ConnInv' BY ConnectionsAlone
<1>2. \A k \in Conn : Was(k) => Was(k)' BY DEF Was, net, maps
<1>3. \A e \in Call : call'[e].pc \in After \/ call'[e].cmd = "auto" =>
            \/ (call[e].pc \in After \/ call[e].cmd = "auto") /\ call'[e].conn = call[e].conn /\ call'[e].conn \in Conn
            \/ Was(call[e].conn)'
  BY HasConn
<1>4. FollowInv' BY <1>2, <1>3, Following
<1> QED BY <1>1, <1>4

\* The runs have the same listeners, tasks and tunnels after the step.
SameRuns ==
  \A j \in Run : /\ run'[j].tunnel = run[j].tunnel /\ run'[j].listening = run[j].listening
                 /\ run'[j].task = run[j].task /\ run'[j].link = run[j].link /\ run'[j].session = run[j].session

\* Telling the tasks of a start to stop changes nothing else of it.
LEMMA Signals ==
  ASSUME Typed, NEW i \in Run \cup {None}, run' = Signalled(i)
  PROVE  run' \in [Run -> Start0] /\ SameRuns
<1>1. CASE i = None BY <1>1 DEF Signalled, SameRuns, Typed
<1>2. CASE i # None
  <2>1. i \in Run /\ run[i] \in Start0 BY <1>2 DEF Typed
  <2>2. PICK r : r = [run[i] EXCEPT !.stop = TRUE] OBVIOUS
  <2>3. /\ r \in Start0 /\ r.tunnel = run[i].tunnel /\ r.listening = run[i].listening
        /\ r.task = run[i].task /\ r.link = run[i].link /\ r.session = run[i].session
    BY <2>1, <2>2 DEF Start0
  <2>4. run' = [run EXCEPT ![i] = r] BY <1>2, <2>1, <2>2 DEF Signalled, Typed
  <2> QED BY <2>1, <2>3, <2>4 DEF SameRuns, Typed
<1> QED BY <1>1, <1>2

\* A start is taken out of the map: who takes it out waits for its end.
LEMMA TakenOut ==
  ASSUME Inv, NEW c \in Call, call[c].pc \notin InHand, locked = None, NEW u \in Tunnel, NEW q \in Task,
         tunnels' = [tunnels EXCEPT ![u] = None], call' = [call EXCEPT ![c] = q],
         locked' \in Call \cup {None}, locked' = IF q.pc \in Locked THEN c ELSE None,
         run' = Signalled(tunnels[u]), q.run = tunnels[u], q.tunnel = u, CmdOK(q),
         \/ tunnels[u] # None /\ q.pc \in {"old", "finish"}
         \/ tunnels[u] = None /\ q.pc \in {"bind", "stop"},
         q.pc \in {"old", "bind"} => q.conn \in Conn
  PROVE  TunnelInv' /\ run' \in [Run -> Start0] /\ SameRuns /\ tunnels' \in [Tunnel -> Run \cup {None}]
<1> USE DEF Inv
<1>1. call'[c] = q /\ \A e \in Call : e # c => call'[e] = call[e] BY Moved
<1>2. tunnels[u] \in Run \cup {None} /\ run' \in [Run -> Start0] /\ SameRuns BY Signals DEF Typed
<1>3. tunnels' \in [Tunnel -> Run \cup {None}] /\ \A v \in Tunnel : tunnels'[v] = IF v = u THEN None ELSE tunnels[v]
  BY DEF Typed
<1>n. None \notin Call \cup Run BY SessionsAssumption
<1>4. \A e \in Call : call[e].pc \notin Locked BY <1>n DEF TunnelInv, LockOK
<1>5. LockOK' BY <1>1, <1>4, <1>n DEF LockOK, Locked
<1>6. \A e \in Call : e # c /\ call'[e].pc \in Holder => call'[e] = call[e] /\ call[e].run \in Run /\ \A v \in Tunnel : tunnels[v] # call[e].run
  BY <1>1 DEF TunnelInv, CallOK
<1>7. HoldersDiffer' BY <1>1, <1>6 DEF TunnelInv, HoldersDiffer
<1>m. \A v \in Tunnel : tunnels[v] # None => tunnels[v] \in Run /\ run[tunnels[v]].tunnel = v BY DEF Typed, TunnelInv, MapOK
<1>8. MapOK' BY <1>2, <1>3, <1>m DEF MapOK, SameRuns
<1>9. OnePort' BY <1>2 DEF TunnelInv, OnePort, SameRuns
<1>10. ASSUME NEW e \in Call PROVE CallOK(e)' /\ CmdOK(call[e])'
  <2>1. CASE e = c
    <3>1. CmdOK(call[e])' BY <1>1, <2>1 DEF CmdOK
    <3>2. tunnels[u] # None => \A v \in Tunnel : tunnels'[v] # tunnels[u] BY <1>3, <1>m, <1>n
    <3>3. CallOK(e)' BY <1>1, <1>2, <1>3, <2>1, <3>2 DEF CallOK, Holder
    <3> QED BY <3>1, <3>3
  <2>2. CASE e # c
    <3>1. CallOK(e) /\ CmdOK(call[e]) BY DEF TunnelInv
    <3>2. CmdOK(call[e])' BY <1>1, <2>2, <3>1 DEF CmdOK
    <3>3. CallOK(e)' BY <1>1, <1>3, <1>4, <1>6, <1>n, <2>2, <3>1 DEF CallOK, Holder, Locked
    <3> QED BY <3>2, <3>3
  <2> QED BY <2>1, <2>2
<1>11. ASSUME NEW i \in Run PROVE RunOK(i)'
  <2>1. RunOK(i) BY DEF TunnelInv
  <2>2. call[c].pc \notin Holder BY DEF Holder, InHand, Locked
  <2>3. ASSUME run[i].task # "off"
        PROVE  tunnels'[run[i].tunnel] = i \/ \E e \in Call : call'[e].pc \in Holder /\ call'[e].run = i
    <3>1. CASE run[i].tunnel = u /\ tunnels[u] = i
      <4>1. call'[c].pc \in Holder /\ call'[c].run = i BY <1>1, <1>n, <3>1 DEF Holder
      <4> QED BY <4>1
    <3>2. CASE run[i].tunnel # u /\ tunnels[run[i].tunnel] = i BY <1>3, <2>1, <2>3, <3>2 DEF RunOK
    <3>3. CASE \E e \in Call : call[e].pc \in Holder /\ call[e].run = i BY <1>1, <2>2, <3>3
    <3> QED BY <2>1, <2>3, <3>1, <3>2, <3>3 DEF RunOK
  <2> QED BY <1>2, <2>1, <2>3 DEF RunOK, SameRuns
<1> QED BY <1>2, <1>3, <1>5, <1>7, <1>8, <1>9, <1>10, <1>11 DEF TunnelInv

\* autostart goes on with its next tunnel; the command start_tunnel has come to its end.
LEMMA NextOne ==
  ASSUME Inv, NEW c \in Call, Next1(c), call[c].pc \in {"start", "bind", "say"}
  PROVE  \E t \in Task : /\ call' = [call EXCEPT ![c] = t] /\ t.pc \in {"each", "idle"} /\ CmdOK(t)
                         /\ t.cmd = "auto" => call[c].cmd = "auto" /\ t.conn = call[c].conn /\ t.conn \in Conn
<1>1. CASE call[c].cmd = "auto"
  <2>1. Goto(c, "each") BY <1>1 DEF Next1
  <2>2. PICK t \in Task : /\ call' = [call EXCEPT ![c] = t] /\ t.pc = "each" /\ t.cmd = call[c].cmd
                          /\ t.conn = call[c].conn /\ t.tunnel = call[c].tunnel
    BY <2>1, Gone DEF Inv, Place
  <2>3. call[c].conn \in Conn BY <1>1, HasConn
  <2>4. CmdOK(t) BY <1>1, <2>2, <2>3 DEF CmdOK
  <2> QED BY <1>1, <2>2, <2>3, <2>4
<1>2. CASE call[c].cmd # "auto" BY <1>2, Returned DEF Next1
<1> QED BY <1>1, <1>2

\* TunnelManager::start takes the lock, or finds the tunnel busy.
LEMMA StartStep ==
  ASSUME Inv, NEW c \in Call, Start(c), UNCHANGED asked
  PROVE  Inv'
<1> USE DEF Inv
<1>i. call[c].pc = "start" /\ locked = None /\ UNCHANGED <<net, maps, spawned, dedicated, shown, view>> BY DEF Start, At
<1>t. call[c] \in Task /\ call[c].tunnel \in Tunnel /\ call[c].conn \in Conn BY <1>i DEF Typed, TunnelInv, CallOK
<1>1. CASE Busy(call[c].tunnel)
  <2>1. Next1(c) /\ UNCHANGED <<locked, tunnels, run>> BY <1>1 DEF Start
  <2>2. PICK t \in Task : /\ call' = [call EXCEPT ![c] = t] /\ t.pc \in {"each", "idle"} /\ CmdOK(t)
                          /\ t.cmd = "auto" => call[c].cmd = "auto" /\ t.conn = call[c].conn /\ t.conn \in Conn
    BY <1>i, <2>1, NextOne
  <2>3. {call[c].pc, t.pc} \cap (Login \cup After \cup InHand \cup {"open", "drain"}) = {} /\ call[c].pc \notin Before /\ t.pc # "start"
    BY <1>i, <2>2 DEF Login, After, InHand, Locked, Before
  <2>4. asked' \in Nat /\ UNCHANGED <<net, maps, tunnel, view, spawned>> BY <1>i, <2>1 DEF Typed, tunnel
  <2> QED BY <2>2, <2>3, <2>4, NeitherStep
<1>2. CASE ~Busy(call[c].tunnel)
  <2>1. PICK u \in Tunnel : u = call[c].tunnel BY <1>t
  <2>2. /\ locked' = c /\ tunnels' = [tunnels EXCEPT ![u] = None] /\ run' = Signalled(tunnels[u])
        /\ call' = [call EXCEPT ![c].pc = IF tunnels[u] = None THEN "bind" ELSE "old", ![c].run = tunnels[u]]
    BY <1>2, <2>1 DEF Start
  <2>3. PICK q : q = [call[c] EXCEPT !.pc = IF tunnels[u] = None THEN "bind" ELSE "old", !.run = tunnels[u]] OBVIOUS
  <2>u. tunnels[u] \in Run \cup {None} BY DEF Typed
  <2>4. /\ q \in Task /\ q.pc = (IF tunnels[u] = None THEN "bind" ELSE "old") /\ q.run = tunnels[u]
        /\ q.cmd = call[c].cmd /\ q.conn = call[c].conn /\ q.tunnel = u
    BY <1>t, <2>1, <2>3, <2>u, ZenonT(60) DEF Task, Place, Locked
  <2>5. call' = [call EXCEPT ![c] = q] BY <2>2, <2>3 DEF Typed
  <2>6. CmdOK(q)
    <3>1. CmdOK(call[c]) BY DEF TunnelInv
    <3> QED BY <2>1, <2>4, <3>1 DEF CmdOK
  <2>7. /\ call[c].pc \notin InHand /\ locked' \in Call \cup {None} /\ locked' = IF q.pc \in Locked THEN c ELSE None
        /\ \/ tunnels[u] # None /\ q.pc \in {"old", "finish"}
           \/ tunnels[u] = None /\ q.pc \in {"bind", "stop"}
        /\ q.pc \in {"old", "bind"} => q.conn \in Conn
    BY <1>i, <1>t, <2>2, <2>4 DEF InHand, Locked
  <2>8. TunnelInv' /\ run' \in [Run -> Start0] /\ SameRuns /\ tunnels' \in [Tunnel -> Run \cup {None}]
    BY <1>i, <2>2, <2>4, <2>5, <2>6, <2>7, TakenOut
  <2>9. Typed' BY <1>i, <2>4, <2>5, <2>7, <2>8, Moved DEF Typed, net, maps, view
  <2>10. call'[c] = q /\ \A e \in Call : e # c => call'[e] = call[e] BY <2>4, <2>5, Moved
  <2>11. \A e \in Call : \/ call'[e] = call[e]
                         \/ /\ {call[e].pc, call'[e].pc} \cap (Login \cup After \cup {"open", "drain"}) = {}
                            /\ call[e].cmd = "reload" /\ call[e].pc \in Before =>
                                 call'[e].cmd = "reload" /\ call'[e].pc \in Before
                            /\ call'[e].cmd = "auto" => call[e].cmd = "auto" /\ call'[e].conn = call[e].conn
    BY <1>i, <2>4, <2>10 DEF Login, After, Before
  <2> QED BY <1>i, <2>8, <2>9, <2>11, Underneath DEF SameRuns
<1> QED BY <1>1, <1>2

\* TunnelManager::stop, for the next of its tunnels, or for none.
LEMMA StopStep ==
  ASSUME Inv, NEW c \in Call, Stop(c), UNCHANGED asked
  PROVE  Inv'
<1> USE DEF Inv
<1>i. call[c].pc = "stop" /\ UNCHANGED <<net, maps, spawned, locked, dedicated, shown, view>> BY DEF Stop, At
<1>t. call[c] \in Task /\ CmdOK(call[c]) BY DEF Typed, TunnelInv
<1>1. CASE call[c].ids = {}
  <2>1. (IF call[c].cmd = "stop" THEN Return(c) ELSE Goto(c, "end")) /\ UNCHANGED <<tunnels, run>> BY <1>1 DEF Stop
  <2>2. PICK t \in Task : /\ call' = [call EXCEPT ![c] = t] /\ t.pc \in {"idle", "end"} /\ CmdOK(t)
                          /\ call[c].cmd = "reload" => t.cmd = "reload" /\ t.pc = "end"
                          /\ t.cmd = "auto" => call[c].cmd = "auto" /\ t.conn = call[c].conn /\ t.conn \in Conn
    <3>1. CASE call[c].cmd = "stop" BY <2>1, <3>1, Returned
    <3>2. CASE call[c].cmd # "stop"
      <4>1. PICK t \in Task : /\ call' = [call EXCEPT ![c] = t] /\ t.pc = "end" /\ t.cmd = call[c].cmd
                              /\ t.conn = call[c].conn /\ t.tunnel = call[c].tunnel
        BY <2>1, <3>2, Gone DEF Place
      <4>2. CmdOK(t) /\ (t.cmd = "auto" => t.conn \in Conn) BY <1>t, <4>1 DEF CmdOK
      <4> QED BY <4>1, <4>2
    <3> QED BY <3>1, <3>2
  <2>3. /\ {call[c].pc, t.pc} \cap (Login \cup After \cup InHand \cup {"open", "drain"}) = {} /\ t.pc # "start"
        /\ call[c].cmd = "reload" /\ call[c].pc \in Before => t.cmd = "reload" /\ t.pc \in Before
    BY <1>i, <2>2 DEF Login, After, InHand, Locked, Before
  <2>4. asked' \in Nat /\ UNCHANGED <<net, maps, tunnel, view, spawned>> BY <1>i, <2>1 DEF Typed, tunnel
  <2> QED BY <2>2, <2>3, <2>4, NeitherStep
<1>2. CASE call[c].ids # {}
  <2>1. PICK u \in call[c].ids :
          /\ tunnels' = [tunnels EXCEPT ![u] = None] /\ run' = Signalled(tunnels[u])
          /\ call' = [call EXCEPT ![c].ids = @ \ {u}, ![c].run = tunnels[u], ![c].tunnel = u,
                                  ![c].pc = IF tunnels[u] = None THEN "stop" ELSE "finish"]
    BY <1>2 DEF Stop
  <2>2. locked = None /\ u \in Tunnel BY <1>2, <1>t DEF Stop, Task
  <2>3. PICK q : q = [call[c] EXCEPT !.ids = @ \ {u}, !.run = tunnels[u], !.tunnel = u,
                                     !.pc = IF tunnels[u] = None THEN "stop" ELSE "finish"]
    OBVIOUS
  <2>u. tunnels[u] \in Run \cup {None} BY <2>2 DEF Typed
  <2>4. /\ q \in Task /\ q.pc = (IF tunnels[u] = None THEN "stop" ELSE "finish") /\ q.run = tunnels[u]
        /\ q.cmd = call[c].cmd /\ q.conn = call[c].conn /\ q.tunnel = u
    BY <1>t, <2>2, <2>3, <2>u DEF Task, Place
  <2>5. call' = [call EXCEPT ![c] = q] BY <2>1, <2>3 DEF Typed
  <2>6. CmdOK(q) BY <1>t, <2>2, <2>4 DEF CmdOK
  <2>7. /\ call[c].pc \notin InHand /\ locked' \in Call \cup {None} /\ locked' = IF q.pc \in Locked THEN c ELSE None
        /\ \/ tunnels[u] # None /\ q.pc \in {"old", "finish"}
           \/ tunnels[u] = None /\ q.pc \in {"bind", "stop"}
        /\ q.pc \in {"old", "bind"} => q.conn \in Conn
    BY <1>i, <2>2, <2>4 DEF InHand, Locked
  <2>8. TunnelInv' /\ run' \in [Run -> Start0] /\ SameRuns /\ tunnels' \in [Tunnel -> Run \cup {None}]
    BY <2>1, <2>2, <2>4, <2>5, <2>6, <2>7, TakenOut
  <2>9. Typed' BY <1>i, <2>4, <2>5, <2>7, <2>8, Moved DEF Typed, net, maps, view
  <2>10. call'[c] = q /\ \A e \in Call : e # c => call'[e] = call[e] BY <2>4, <2>5, Moved
  <2>11. \A e \in Call : \/ call'[e] = call[e]
                         \/ /\ {call[e].pc, call'[e].pc} \cap (Login \cup After \cup {"open", "drain"}) = {}
                            /\ call[e].cmd = "reload" /\ call[e].pc \in Before =>
                                 call'[e].cmd = "reload" /\ call'[e].pc \in Before
                            /\ call'[e].cmd = "auto" => call[e].cmd = "auto" /\ call'[e].conn = call[e].conn
    BY <1>i, <2>4, <2>10 DEF Login, After, Before
  <2> QED BY <1>i, <2>8, <2>9, <2>11, Underneath, ZenonT(60) DEF SameRuns
<1> QED BY <1>1, <1>2

\* finish(): a start whose task has come to its end is let go of.
LEMMA PutAway ==
  ASSUME Inv, NEW c \in Call, call[c].pc \in {"old", "finish"}, Finished(call[c].run), run' = Released(call[c].run),
         NEW p \in {"bind", "stop"}, p = "bind" <=> call[c].pc = "old",
         call' = [call EXCEPT ![c].pc = p, ![c].run = None], shown' \in [Tunnel -> Status],
         UNCHANGED <<net, maps, spawned, tunnels, locked, dedicated, view, asked>>
  PROVE  Inv'
<1> USE DEF Inv
<1>t. call[c] \in Task /\ CmdOK(call[c]) /\ CallOK(c) BY DEF Typed, TunnelInv
<1>a. PICK i \in Run : i = call[c].run /\ \A v \in Tunnel : tunnels[v] # i BY <1>t DEF CallOK, Holder
<1>1. PICK q : q = [call[c] EXCEPT !.pc = p, !.run = None] OBVIOUS
<1>2. /\ q \in Task /\ q.pc = p /\ q.run = None /\ q.cmd = call[c].cmd /\ q.conn = call[c].conn /\ q.tunnel = call[c].tunnel
  BY <1>t, <1>1 DEF Task, Place, Locked
<1>3. call' = [call EXCEPT ![c] = q] BY <1>1 DEF Typed
<1>4. call'[c] = q /\ \A e \in Call : e # c => call'[e] = call[e] BY <1>2, <1>3, Moved
<1>5. run' \in [Run -> Start0] /\ run'[i] = NoRun /\ \A j \in Run : j # i => run'[j] = run[j]
  BY <1>a, NothingTyped DEF Finished, Released, Typed
<1>6. Typed' BY <1>2, <1>3, <1>5, Moved DEF Typed, net, maps, view
<1>n. None \notin Call \cup Run BY SessionsAssumption
<1>7. LockOK' BY <1>2, <1>4 DEF TunnelInv, LockOK, Locked
<1>8. \A e \in Call : call'[e].pc \in Holder => e # c /\ call'[e] = call[e] BY <1>2, <1>4 DEF Holder
<1>9. HoldersDiffer' BY <1>8 DEF TunnelInv, HoldersDiffer
<1>10. MapOK' BY <1>5, <1>a DEF TunnelInv, MapOK, Typed
<1>11. \A j \in Run : run'[j].listening => j # i /\ run'[j] = run[j] BY <1>5, NothingTyped
<1>12. OnePort' BY <1>11 DEF TunnelInv, OnePort
<1>13. ASSUME NEW e \in Call PROVE CallOK(e)' /\ CmdOK(call[e])'
  <2>1. CASE e = c
    <3>1. CmdOK(call[e])' BY <1>t, <1>2, <1>4, <2>1 DEF CmdOK
    <3>2. CallOK(e)' BY <1>t, <1>2, <1>4, <2>1 DEF CallOK, Holder
    <3> QED BY <3>1, <3>2
  <2>2. CASE e # c
    <3>1. CallOK(e) /\ CmdOK(call[e]) BY DEF TunnelInv
    <3>0. call'[e] = call[e] BY <1>4, <2>2
    <3>2. CmdOK(call[e])' BY <3>0, <3>1 DEF CmdOK
    <3>3. call[e].pc \in {"keep", "say"} => call[e].run # i
      BY <1>a, <2>2, <3>1 DEF TunnelInv, HoldersDiffer, CallOK, Holder
    <3>4. CallOK(e)' BY <1>4, <1>5, <2>2, <3>1, <3>3 DEF CallOK
    <3> QED BY <3>2, <3>4
  <2> QED BY <2>1, <2>2
<1>14. ASSUME NEW j \in Run PROVE RunOK(j)'
  <2>1. CASE j = i BY <1>5, <2>1, NothingTyped DEF RunOK
  <2>2. CASE j # i
    <3>1. RunOK(j) /\ run'[j] = run[j] BY <1>5, <2>2 DEF TunnelInv
    <3>2. \A e \in Call : call[e].run = j => call'[e] = call[e] BY <1>a, <1>4, <2>2
    <3> QED BY <3>1, <3>2 DEF RunOK
  <2> QED BY <2>1, <2>2
<1>15. TunnelInv' BY <1>7, <1>9, <1>10, <1>12, <1>13, <1>14 DEF TunnelInv
<1>16. \A e \in Call : \/ call'[e] = call[e]
                       \/ /\ {call[e].pc, call'[e].pc} \cap (Login \cup After \cup {"open", "drain"}) = {}
                          /\ call[e].cmd = "reload" /\ call[e].pc \in Before =>
                               call'[e].cmd = "reload" /\ call'[e].pc \in Before
                          /\ call'[e].cmd = "auto" => call[e].cmd = "auto" /\ call'[e].conn = call[e].conn
  BY <1>2, <1>4 DEF Login, After, Before
<1> QED BY <1>6, <1>11, <1>15, <1>16, Underneath

\* The failed start before this one has come to its end.
LEMMA OldStep ==
  ASSUME Inv, NEW c \in Call, Old(c), UNCHANGED asked
  PROVE  Inv'
<1>1. shown' \in [Tunnel -> Status] BY DEF Inv, Typed, Old
<1> QED BY <1>1, PutAway DEF Old, At

\* The stopped start has come to its end.
LEMMA FinishStep ==
  ASSUME Inv, NEW c \in Call, Finish(c), UNCHANGED asked
  PROVE  Inv'
<1>1. shown' \in [Tunnel -> Status] BY DEF Inv, Typed, Finish, Status
<1> QED BY <1>1, PutAway DEF Finish, At

\* There is a start to use: one in the map for each tunnel, and one in the hand of each
\* other command, are all that can be taken.
LEMMA SomeUnused ==
  ASSUME Inv, NEW c \in Call, call[c].run = None
  PROVE  Unused # {}
<1> SUFFICES ASSUME Unused = {} PROVE FALSE OBVIOUS
<1> USE DEF Inv
<1>n. None \notin Run /\ IsFiniteSet(Call) /\ IsFiniteSet(Tunnel) /\ IsFiniteSet(Run)
      /\ Cardinality(Run) >= Cardinality(Call) + Cardinality(Tunnel)
  BY SessionsAssumption
<1>1. PICK M : M = {tunnels[t] : t \in Tunnel} OBVIOUS
<1>2. PICK H : H = {call[e].run : e \in Call \ {c}} OBVIOUS
<1>3. Run \subseteq M \cup H
  <2> SUFFICES ASSUME NEW i \in Run PROVE i \in M \cup H OBVIOUS
  <2>0. i \notin Unused OBVIOUS
  <2>1. \/ run[i].task # "off"
        \/ \E t \in Tunnel : tunnels[t] = i
        \/ \E e \in Call : call[e].run = i
    BY <2>0 DEF Unused
  <2>2. CASE \E t \in Tunnel : tunnels[t] = i BY <1>1, <2>2
  <2>3. CASE \E e \in Call : call[e].run = i BY <1>2, <1>n, <2>3
  <2>4. CASE run[i].task # "off"
    <3>1. RunOK(i) BY DEF TunnelInv
    <3>2. (\E t \in Tunnel : tunnels[t] = i) \/ \E e \in Call : call[e].run = i BY <2>4, <3>1 DEF RunOK
    <3> QED BY <3>2, <2>2, <2>3
  <2> QED BY <2>1, <2>2, <2>3, <2>4
<1>4. IsFiniteSet(M) /\ Cardinality(M) <= Cardinality(Tunnel)
  <2>1. IsFiniteSet({tunnels[t] : t \in Tunnel}) /\ Cardinality({tunnels[t] : t \in Tunnel}) <= Cardinality(Tunnel)
    <3> DEFINE f == [t \in Tunnel |-> tunnels[t]]
    <3>1. f \in Surjection(Tunnel, {tunnels[t] : t \in Tunnel}) BY DEF Surjection
    <3> QED BY <3>1, <1>n, FS_Surjection
  <2> QED BY <1>1, <2>1
<1>5. IsFiniteSet(Call \ {c}) /\ Cardinality(Call \ {c}) = Cardinality(Call) - 1 BY <1>n, FS_RemoveElement
<1>6. IsFiniteSet(H) /\ Cardinality(H) <= Cardinality(Call) - 1
  <2> DEFINE f == [e \in Call \ {c} |-> call[e].run]
  <2>1. f \in Surjection(Call \ {c}, {call[e].run : e \in Call \ {c}}) BY DEF Surjection
  <2>2. IsFiniteSet({call[e].run : e \in Call \ {c}}) /\ Cardinality({call[e].run : e \in Call \ {c}}) <= Cardinality(Call \ {c})
    BY <2>1, <1>5, FS_Surjection
  <2> QED BY <1>2, <1>5, <2>2
<1>7. /\ IsFiniteSet(M \cup H) /\ Cardinality(M \cup H) <= Cardinality(M) + Cardinality(H)
  <2>1. IsFiniteSet(M \cup H) BY <1>4, <1>6, FS_Union
  <2>2. Cardinality(M \cup H) = Cardinality(M) + Cardinality(H) - Cardinality(M \cap H) BY <1>4, <1>6, FS_Union
  <2>3. IsFiniteSet(M \cap H) BY <1>4, FS_Intersection
  <2>4. Cardinality(M \cap H) \in Nat /\ Cardinality(M) \in Nat /\ Cardinality(H) \in Nat
    BY <2>3, <1>4, <1>6, FS_CardinalityType
  <2> QED BY <2>1, <2>2, <2>4
<1>8. Cardinality(Run) <= Cardinality(M \cup H) BY <1>3, <1>7, FS_Subset
<1>9. /\ Cardinality(Run) \in Nat /\ Cardinality(M \cup H) \in Nat /\ Cardinality(M) \in Nat /\ Cardinality(H) \in Nat
      /\ Cardinality(Tunnel) \in Nat /\ Cardinality(Call) \in Nat
  BY <1>n, <1>4, <1>6, <1>7, FS_CardinalityType
<1> QED BY <1>n, <1>4, <1>6, <1>7, <1>8, <1>9

\* A start that nobody else has in hand.
LEMMA BindStep ==
  ASSUME Inv, NEW c \in Call, Bind(c), UNCHANGED asked
  PROVE  Inv'
<1> USE DEF Inv
<1>i. call[c].pc = "bind" /\ UNCHANGED <<net, maps, spawned, dedicated, view>> BY DEF Bind, At
<1>t. /\ call[c] \in Task /\ CmdOK(call[c]) /\ call[c].run = None /\ call[c].conn \in Conn
      /\ call[c].tunnel \in Tunnel /\ tunnels[call[c].tunnel] = None
  BY <1>i DEF Typed, TunnelInv, CallOK
<1>u. PICK u \in Tunnel : u = call[c].tunnel BY <1>t
<1>n. None \notin Call \cup Run \cup Conn BY SessionsAssumption
<1>1. PICK i \in Unused : i = CHOOSE j \in Unused : TRUE BY <1>t, SomeUnused
<1>2. /\ i \in Run /\ run[i].task = "off" /\ \A v \in Tunnel : tunnels[v] # i
      /\ \A e \in Call : call[e].run # i
  BY DEF Unused
<1>l. \A e \in Call : e # c => call[e].pc \notin Locked BY <1>i, <1>n DEF TunnelInv, LockOK, Locked
<1>s. PICK s \in Conn \cup {None} : /\ s = IF call[c].cmd = "auto" THEN call[c].conn ELSE None
                                    /\ s # None => s = call[c].conn /\ Was(s)
  BY <1>t DEF FollowInv
<1>3. PICK new : new = [NoRun EXCEPT !.tunnel = u, !.session = s] OBVIOUS
<1>4. new \in Start0 /\ new.tunnel = u /\ new.session = s /\ new.task = "off" /\ new.listening = FALSE
  BY <1>3, NothingTyped DEF Start0
<1>m. \A v \in Tunnel : tunnels[v] # None => tunnels[v] \in Run /\ run[tunnels[v]].tunnel = v BY DEF Typed, TunnelInv, MapOK
<1>5. CASE /\ ~Closed(call[c].conn)
           /\ ~\E j \in Run : run[j].tunnel = u /\ run[j].listening
           /\ run' = [run EXCEPT ![i] = [new EXCEPT !.state = "starting", !.link = call[c].conn,
                                           !.listening = TRUE, !.task = "on"]]
           /\ shown' = [shown EXCEPT ![u] = "starting"]
           /\ call' = [call EXCEPT ![c].pc = "keep", ![c].run = i]
           /\ UNCHANGED <<tunnels, locked>>
  <2>1. PICK r : r = [new EXCEPT !.state = "starting", !.link = call[c].conn, !.listening = TRUE, !.task = "on"] OBVIOUS
  <2>2. /\ r \in Start0 /\ r.tunnel = u /\ r.session = s /\ r.task = "on" /\ r.listening /\ r.link = call[c].conn
    BY <1>4, <1>t, <2>1 DEF Start0, Status
  <2>3. run' \in [Run -> Start0] /\ run'[i] = r /\ \A j \in Run : j # i => run'[j] = run[j]
    BY <1>5, <1>2, <2>1, <2>2 DEF Typed
  <2>4. PICK q : q = [call[c] EXCEPT !.pc = "keep", !.run = i] OBVIOUS
  <2>5. /\ q \in Task /\ q.pc = "keep" /\ q.run = i /\ q.cmd = call[c].cmd /\ q.conn = call[c].conn /\ q.tunnel = u
    BY <1>t, <1>u, <1>2, <2>4 DEF Task, Place, Locked
  <2>6. call' = [call EXCEPT ![c] = q] BY <1>5, <2>4 DEF Typed
  <2>7. call'[c] = q /\ \A e \in Call : e # c => call'[e] = call[e] BY <2>5, <2>6, Moved
  <2>8. Typed' BY <1>5, <1>i, <2>3, <2>5, <2>6, Moved DEF Typed, net, maps, view, Status
  <2>9. LockOK' BY <1>5, <1>i, <2>5, <2>7 DEF TunnelInv, LockOK, Locked
  <2>10. HoldersDiffer' BY <1>2, <2>5, <2>7 DEF TunnelInv, HoldersDiffer
  <2>11. MapOK' BY <1>5, <1>2, <1>m, <2>3 DEF MapOK
  <2>12. OnePort' BY <1>5, <2>2, <2>3, ZenonT(60) DEF TunnelInv, OnePort
  <2>13. ASSUME NEW e \in Call PROVE CallOK(e)' /\ CmdOK(call[e])'
    <3>1. CASE e = c
      <4>1. CmdOK(call[e])' BY <1>t, <1>u, <2>5, <2>7, <3>1 DEF CmdOK
      <4>a. call'[c].pc = "keep" /\ call'[c].tunnel = u /\ call'[c].conn \in Conn /\ call'[c].run = i BY <1>t, <2>5, <2>7
      <4>b. tunnels'[u] = None /\ run'[i].tunnel = u /\ \A v \in Tunnel : tunnels'[v] # i
        BY <1>5, <1>t, <1>u, <1>2, <2>2, <2>3
      <4>2. CallOK(e)' BY <1>2, <3>1, <4>a, <4>b DEF CallOK
      <4> QED BY <4>1, <4>2
    <3>2. CASE e # c
      <4>0. call'[e] = call[e] /\ call[e].pc \notin Locked BY <1>l, <2>7, <3>2
      <4>1. CallOK(e) /\ CmdOK(call[e]) BY DEF TunnelInv
      <4>2. CmdOK(call[e])' BY <4>0, <4>1 DEF CmdOK
      <4>3. CallOK(e)' BY <1>5, <4>0, <4>1 DEF CallOK, Locked, Holder
      <4> QED BY <4>2, <4>3
    <3> QED BY <3>1, <3>2
  <2>14. ASSUME NEW j \in Run PROVE RunOK(j)'
    <3>1. CASE j = i
      <4>1. call'[c].pc \in Holder /\ call'[c].run = i BY <2>5, <2>7 DEF Holder
      <4> QED BY <1>t, <2>2, <2>3, <3>1, <4>1 DEF RunOK
    <3>2. CASE j # i
      <4>1. RunOK(j) /\ run'[j] = run[j] BY <2>3, <3>2 DEF TunnelInv
      <4>2. \A e \in Call : call[e].pc \in Holder => call'[e] = call[e] BY <1>i, <2>7 DEF Holder
      <4> QED BY <1>5, <4>1, <4>2 DEF RunOK
    <3> QED BY <3>1, <3>2
  <2>15. TunnelInv' BY <2>9, <2>10, <2>11, <2>12, <2>13, <2>14 DEF TunnelInv
  <2>16. \A e \in Call : \/ call'[e] = call[e]
                         \/ /\ {call[e].pc, call'[e].pc} \cap (Login \cup After \cup {"open", "drain"}) = {}
                            /\ call[e].cmd = "reload" /\ call[e].pc \in Before =>
                                 call'[e].cmd = "reload" /\ call'[e].pc \in Before
                            /\ call'[e].cmd = "auto" => call[e].cmd = "auto" /\ call'[e].conn = call[e].conn
    BY <1>i, <2>5, <2>7 DEF Login, After, Before
  <2>17. \A j \in Run : run'[j].listening =>
            \/ run[j].listening /\ run'[j].link = run[j].link /\ run'[j].session = run[j].session
            \/ run'[j].session # None => run'[j].link = run'[j].session /\ Was(run[j].session)'
    <3> SUFFICES ASSUME NEW j \in Run, run'[j].listening
                 PROVE  \/ run[j].listening /\ run'[j].link = run[j].link /\ run'[j].session = run[j].session
                        \/ run'[j].session # None => run'[j].link = run'[j].session /\ Was(run[j].session)'
      OBVIOUS
    <3>1. CASE j = i BY <1>i, <1>s, <2>2, <2>3, <3>1 DEF Was, net, maps
    <3>2. CASE j # i BY <2>3, <3>2
    <3> QED BY <3>1, <3>2
  <2> QED BY <1>i, <2>8, <2>15, <2>16, <2>17, Underneath
<1>6. CASE /\ run' = [run EXCEPT ![i] = [new EXCEPT !.state = "failed"]]
           /\ shown' = [shown EXCEPT ![u] = "failed"]
           /\ tunnels' = [tunnels EXCEPT ![u] = i]
           /\ locked' = None
           /\ Next1(c)
  <2>1. PICK r : r = [new EXCEPT !.state = "failed"] OBVIOUS
  <2>2. /\ r \in Start0 /\ r.tunnel = u /\ r.session = s /\ r.task = "off" /\ ~r.listening
    BY <1>4, <2>1 DEF Start0, Status
  <2>3. run' \in [Run -> Start0] /\ run'[i] = r /\ \A j \in Run : j # i => run'[j] = run[j]
    BY <1>6, <1>2, <2>1, <2>2 DEF Typed
  <2>4. PICK q \in Task : /\ call' = [call EXCEPT ![c] = q] /\ q.pc \in {"each", "idle"} /\ CmdOK(q)
                          /\ q.cmd = "auto" => call[c].cmd = "auto" /\ q.conn = call[c].conn /\ q.conn \in Conn
    BY <1>6, <1>i, NextOne
  <2>7. call'[c] = q /\ \A e \in Call : e # c => call'[e] = call[e] BY <2>4, Moved
  <2>6. tunnels' \in [Tunnel -> Run \cup {None}] /\ \A v \in Tunnel : tunnels'[v] = IF v = u THEN i ELSE tunnels[v]
    BY <1>6, <1>2 DEF Typed
  <2>8. Typed' BY <1>6, <1>i, <2>3, <2>4, <2>6, Moved DEF Typed, net, maps, view, Status
  <2>9. LockOK' BY <1>6, <1>l, <1>n, <2>4, <2>7 DEF LockOK, Locked
  <2>h. \A e \in Call : call'[e].pc \in Holder => e # c /\ call'[e] = call[e] BY <2>4, <2>7 DEF Holder
  <2>10. HoldersDiffer' BY <2>h DEF TunnelInv, HoldersDiffer
  <2>11. MapOK' BY <1>2, <1>m, <2>2, <2>3, <2>6 DEF MapOK
  <2>12. OnePort' BY <2>2, <2>3 DEF TunnelInv, OnePort
  <2>13. ASSUME NEW e \in Call PROVE CallOK(e)' /\ CmdOK(call[e])'
    <3>1. CASE e = c BY <2>4, <2>7, <3>1 DEF CallOK, CmdOK, Holder
    <3>2. CASE e # c
      <4>0. call'[e] = call[e] /\ call[e].pc \notin Locked /\ call[e].run # i BY <1>2, <1>l, <2>7, <3>2
      <4>1. CallOK(e) /\ CmdOK(call[e]) BY DEF TunnelInv
      <4>2. CmdOK(call[e])' BY <4>0, <4>1 DEF CmdOK
      <4>3. CallOK(e)' BY <2>6, <4>0, <4>1 DEF CallOK, Locked, Holder
      <4> QED BY <4>2, <4>3
    <3> QED BY <3>1, <3>2
  <2>14. ASSUME NEW j \in Run PROVE RunOK(j)'
    <3>1. CASE j = i BY <2>2, <2>3, <3>1 DEF RunOK
    <3>2. CASE j # i
      <4>1. RunOK(j) /\ run'[j] = run[j] BY <2>3, <3>2 DEF TunnelInv
      <4>2. \A e \in Call : call[e].pc \in Holder => call'[e] = call[e] BY <1>i, <2>7 DEF Holder
      <4>3. run[j].tunnel \in Tunnel /\ tunnels[run[j].tunnel] = j => tunnels'[run[j].tunnel] = j
        BY <2>6, <1>t, <1>u, <1>n
      <4> QED BY <4>1, <4>2, <4>3 DEF RunOK
    <3> QED BY <3>1, <3>2
  <2>15. TunnelInv' BY <2>9, <2>10, <2>11, <2>12, <2>13, <2>14 DEF TunnelInv
  <2>16. \A e \in Call : \/ call'[e] = call[e]
                         \/ /\ {call[e].pc, call'[e].pc} \cap (Login \cup After \cup {"open", "drain"}) = {}
                            /\ call[e].cmd = "reload" /\ call[e].pc \in Before =>
                                 call'[e].cmd = "reload" /\ call'[e].pc \in Before
                            /\ call'[e].cmd = "auto" => call[e].cmd = "auto" /\ call'[e].conn = call[e].conn
    BY <1>i, <2>4, <2>7 DEF Login, After, Before
  <2> QED BY <1>i, <2>2, <2>3, <2>8, <2>15, <2>16, Underneath
<1> QED BY <1>1, <1>3, <1>5, <1>6, <1>s, <1>u DEF Bind

\* The start goes into the map under its tunnel.
LEMMA KeepStep ==
  ASSUME Inv, NEW c \in Call, Keep(c), UNCHANGED asked
  PROVE  Inv'
<1> USE DEF Inv
<1>i. call[c].pc = "keep" /\ UNCHANGED <<net, maps, spawned, locked, run, dedicated, shown, view>> BY DEF Keep, At
<1>t. CallOK(c) /\ CmdOK(call[c]) BY DEF TunnelInv
<1>a. PICK i \in Run, u \in Tunnel : /\ i = call[c].run /\ u = call[c].tunnel /\ tunnels[u] = None /\ run[i].tunnel = u
                                     /\ \A v \in Tunnel : tunnels[v] # i
  BY <1>i, <1>t DEF CallOK, Holder
<1>n. None \notin Call \cup Run BY SessionsAssumption
<1>1. PICK q \in Task : /\ call' = [call EXCEPT ![c] = q] /\ q.pc = "say" /\ q.cmd = call[c].cmd /\ q.conn = call[c].conn
                        /\ q.tunnel = u /\ q.run = i
  BY <1>a, Gone DEF Keep, Place, Locked
<1>2. call'[c] = q /\ \A e \in Call : e # c => call'[e] = call[e] BY <1>1, Moved
<1>3. tunnels' \in [Tunnel -> Run \cup {None}] /\ \A v \in Tunnel : tunnels'[v] = IF v = u THEN i ELSE tunnels[v]
  BY <1>a DEF Keep, Typed
<1>4. Typed' BY <1>i, <1>1, <1>3, Moved DEF Typed, net, maps, view
<1>5. LockOK' BY <1>i, <1>1, <1>2 DEF TunnelInv, LockOK, Locked
<1>6. \A e \in Call : call'[e].pc \in Holder => e # c /\ call'[e] = call[e] /\ call[e].run # i
  BY <1>i, <1>a, <1>1, <1>2 DEF TunnelInv, HoldersDiffer, Holder
<1>7. HoldersDiffer' BY <1>6 DEF TunnelInv, HoldersDiffer
<1>m. \A v \in Tunnel : tunnels[v] # None => tunnels[v] \in Run /\ run[tunnels[v]].tunnel = v BY DEF Typed, TunnelInv, MapOK
<1>8. MapOK' BY <1>i, <1>a, <1>3, <1>m DEF MapOK
<1>9. OnePort' BY <1>i DEF TunnelInv, OnePort
<1>10. ASSUME NEW e \in Call PROVE CallOK(e)' /\ CmdOK(call[e])'
  <2>1. CASE e = c
    <3>1. CmdOK(call[e])' BY <1>a, <1>t, <1>1, <1>2, <2>1 DEF CmdOK
    <3>a. call'[c].pc = "say" /\ call'[c].tunnel = u /\ call'[c].conn \in Conn /\ call'[c].run = i
      BY <1>i, <1>t, <1>1, <1>2 DEF CallOK
    <3>b. tunnels'[u] = i /\ run'[i].tunnel = u BY <1>i, <1>a, <1>3
    <3>2. CallOK(e)' BY <2>1, <3>a, <3>b DEF CallOK, Holder
    <3> QED BY <3>1, <3>2
  <2>2. CASE e # c
    <3>0. call'[e] = call[e] /\ call[e].pc \notin Locked
      BY <1>i, <1>2, <1>n, <2>2 DEF TunnelInv, LockOK, Locked
    <3>1. CallOK(e) /\ CmdOK(call[e]) BY DEF TunnelInv
    <3>2. CmdOK(call[e])' BY <3>0, <3>1 DEF CmdOK
    <3>3. CallOK(e)' BY <1>3, <1>6, <3>0, <3>1 DEF CallOK, Locked, Holder
    <3> QED BY <3>2, <3>3
  <2> QED BY <2>1, <2>2
<1>11. ASSUME NEW j \in Run PROVE RunOK(j)'
  <2>1. RunOK(j) BY DEF TunnelInv
  <2>2. CASE j = i BY <1>i, <1>a, <1>3, <2>1, <2>2 DEF RunOK
  <2>3. CASE j # i
    <3>1. \A e \in Call : call[e].run = j => call'[e] = call[e] BY <1>a, <1>2, <2>3
    <3>2. run[j].tunnel \in Tunnel /\ tunnels[run[j].tunnel] = j => tunnels'[run[j].tunnel] = j BY <1>a, <1>3, <1>n
    <3> QED BY <1>i, <2>1, <3>1, <3>2 DEF RunOK
  <2> QED BY <2>2, <2>3
<1>12. TunnelInv' BY <1>5, <1>7, <1>8, <1>9, <1>10, <1>11 DEF TunnelInv
<1>13. \A e \in Call : \/ call'[e] = call[e]
                       \/ /\ {call[e].pc, call'[e].pc} \cap (Login \cup After \cup {"open", "drain"}) = {}
                          /\ call[e].cmd = "reload" /\ call[e].pc \in Before =>
                               call'[e].cmd = "reload" /\ call'[e].pc \in Before
                          /\ call'[e].cmd = "auto" => call[e].cmd = "auto" /\ call'[e].conn = call[e].conn
  BY <1>i, <1>1, <1>2 DEF Login, After, Before
<1> QED BY <1>i, <1>4, <1>12, <1>13, Underneath

\* The start says that it runs.
LEMMA SayStep ==
  ASSUME Inv, NEW c \in Call, Say(c), UNCHANGED asked
  PROVE  Inv'
<1> USE DEF Inv
<1>i. call[c].pc = "say" /\ locked' = None /\ UNCHANGED <<net, maps, spawned, tunnels, dedicated, view>> BY DEF Say, At
<1>a. call[c].run \in Run /\ call[c].tunnel \in Tunnel BY <1>i DEF TunnelInv, CallOK
<1>n. None \notin Call \cup Run BY SessionsAssumption
<1>r. run' \in [Run -> Start0] /\ SameRuns
  <2>1. PICK i \in Run : i = call[c].run BY <1>a
  <2>2. PICK r : r = [run[i] EXCEPT !.state = "running"] OBVIOUS
  <2>3. /\ r \in Start0 /\ r.tunnel = run[i].tunnel /\ r.listening = run[i].listening
        /\ r.task = run[i].task /\ r.link = run[i].link /\ r.session = run[i].session
    BY <2>2 DEF Start0, Status, Typed
  <2>4. run' = [run EXCEPT ![i] = r] BY <2>1, <2>2 DEF Say, Typed
  <2> QED BY <2>3, <2>4 DEF SameRuns, Typed
<1>1. PICK q \in Task : /\ call' = [call EXCEPT ![c] = q] /\ q.pc \in {"each", "idle"} /\ CmdOK(q)
                        /\ q.cmd = "auto" => call[c].cmd = "auto" /\ q.conn = call[c].conn /\ q.conn \in Conn
  BY <1>i, NextOne DEF Say
<1>2. call'[c] = q /\ \A e \in Call : e # c => call'[e] = call[e] BY <1>1, Moved
<1>4. Typed' BY <1>i, <1>r, <1>1, <1>a, Moved DEF Typed, net, maps, view, Say, Status
<1>l. \A e \in Call : e # c => call[e].pc \notin Locked BY <1>i, <1>n DEF TunnelInv, LockOK, Locked
<1>5. LockOK' BY <1>i, <1>l, <1>n, <1>1, <1>2 DEF LockOK, Locked
<1>6. \A e \in Call : call'[e].pc \in Holder => e # c /\ call'[e] = call[e] BY <1>1, <1>2 DEF Holder
<1>7. HoldersDiffer' BY <1>6 DEF TunnelInv, HoldersDiffer
<1>8. MapOK' BY <1>i, <1>r DEF TunnelInv, MapOK, SameRuns, Typed
<1>9. OnePort' BY <1>r DEF TunnelInv, OnePort, SameRuns
<1>10. ASSUME NEW e \in Call PROVE CallOK(e)' /\ CmdOK(call[e])'
  <2>1. CASE e = c BY <1>1, <1>2, <2>1 DEF CallOK, CmdOK, Holder
  <2>2. CASE e # c
    <3>0. call'[e] = call[e] /\ call[e].pc \notin Locked BY <1>l, <1>2, <2>2
    <3>1. CallOK(e) /\ CmdOK(call[e]) BY DEF TunnelInv
    <3>2. CmdOK(call[e])' BY <3>0, <3>1 DEF CmdOK
    <3>3. CallOK(e)' BY <1>i, <3>0, <3>1 DEF CallOK, Locked, Holder
    <3> QED BY <3>2, <3>3
  <2> QED BY <2>1, <2>2
<1>11. ASSUME NEW j \in Run PROVE RunOK(j)'
  <2>1. RunOK(j) BY DEF TunnelInv
  <2>2. \A e \in Call : call[e].pc \in Holder => call'[e] = call[e] BY <1>i, <1>2 DEF Holder
  <2> QED BY <1>i, <1>r, <2>1, <2>2 DEF RunOK, SameRuns
<1>12. TunnelInv' BY <1>5, <1>7, <1>8, <1>9, <1>10, <1>11 DEF TunnelInv
<1>13. \A e \in Call : \/ call'[e] = call[e]
                       \/ /\ {call[e].pc, call'[e].pc} \cap (Login \cup After \cup {"open", "drain"}) = {}
                          /\ call[e].cmd = "reload" /\ call[e].pc \in Before =>
                               call'[e].cmd = "reload" /\ call'[e].pc \in Before
                          /\ call'[e].cmd = "auto" => call[e].cmd = "auto" /\ call'[e].conn = call[e].conn
  BY <1>i, <1>1, <1>2 DEF Login, After, Before
<1> QED BY <1>i, <1>r, <1>4, <1>12, <1>13, Underneath DEF SameRuns

\* The task of a tunnel goes on towards its end.
LEMMA TaskStep ==
  ASSUME Inv, NEW i \in Run, TaskStops(i) \/ TaskLost(i) \/ TaskFails(i), UNCHANGED asked
  PROVE  Inv'
<1> USE DEF Inv
<1>u. UNCHANGED <<net, maps, call, spawned, tunnels, locked, dedicated, view>> BY DEF TaskStops, TaskLost, TaskFails
<1>t. run[i] \in Start0 /\ RunOK(i) BY DEF Typed, TunnelInv
<1>1. PICK r \in Start0 : /\ run' = [run EXCEPT ![i] = r] /\ r.tunnel = run[i].tunnel /\ r.link = run[i].link /\ ~r.listening
                          /\ r.task \in {"off", "lost"} /\ run[i].task # "off"
  <2>1. CASE TaskStops(i)
    <3>1. PICK r : r = [run[i] EXCEPT !.task = "off", !.listening = FALSE] OBVIOUS
    <3>2. run' = [run EXCEPT ![i] = r] BY <2>1, <3>1 DEF TaskStops, Typed
    <3>3. r \in Start0 /\ r.tunnel = run[i].tunnel /\ r.link = run[i].link /\ ~r.listening /\ r.task = "off" BY <1>t, <3>1 DEF Start0
    <3> QED BY <2>1, <3>2, <3>3 DEF TaskStops
  <2>2. CASE TaskLost(i)
    <3>1. PICK r : r = [run[i] EXCEPT !.task = "lost", !.listening = FALSE] OBVIOUS
    <3>2. run' = [run EXCEPT ![i] = r] BY <2>2, <3>1 DEF TaskLost, Typed
    <3>3. r \in Start0 /\ r.tunnel = run[i].tunnel /\ r.link = run[i].link /\ ~r.listening /\ r.task = "lost" BY <1>t, <3>1 DEF Start0
    <3> QED BY <2>2, <3>2, <3>3 DEF TaskLost, Loses
  <2>3. CASE TaskFails(i)
    <3>1. PICK r : r = [run[i] EXCEPT !.task = "off", !.state = IF @ = "stopped" THEN @ ELSE "failed"] OBVIOUS
    <3>2. run' = [run EXCEPT ![i] = r] BY <2>3, <3>1 DEF TaskFails, Typed
    <3>3. run[i].task = "lost" BY <2>3 DEF TaskFails
    <3>4. ~run[i].listening BY <1>t, <3>3 DEF RunOK
    <3>5. r \in Start0 /\ r.tunnel = run[i].tunnel /\ r.link = run[i].link /\ ~r.listening /\ r.task = "off"
      BY <1>t, <3>1, <3>4 DEF Start0, Status
    <3> QED BY <3>2, <3>3, <3>5
  <2> QED BY <2>1, <2>2, <2>3
<1>2. run' \in [Run -> Start0] /\ run'[i] = r /\ \A j \in Run : j # i => run'[j] = run[j] BY <1>1 DEF Typed
<1>3. shown' \in [Tunnel -> Status]
  <2>1. run[i].tunnel \in Tunnel BY <1>t, <1>1 DEF RunOK
  <2> QED BY <2>1 DEF TaskStops, TaskLost, TaskFails, Typed, Status
<1>4. Typed' BY <1>u, <1>2, <1>3 DEF Typed, net, maps, view
<1>5. LockOK' /\ HoldersDiffer' BY <1>u DEF TunnelInv, LockOK, HoldersDiffer
<1>6. MapOK' BY <1>u, <1>1, <1>2 DEF TunnelInv, MapOK, Typed
<1>7. OnePort' BY <1>1, <1>2 DEF TunnelInv, OnePort
<1>8. ASSUME NEW e \in Call PROVE CallOK(e)' /\ CmdOK(call[e])'
  <2>1. CallOK(e) /\ CmdOK(call[e]) BY DEF TunnelInv
  <2>2. CmdOK(call[e])' BY <1>u, <2>1 DEF CmdOK
  <2>3. \A j \in Run : run'[j].tunnel = run[j].tunnel BY <1>1, <1>2
  <2>4. CallOK(e)' BY <1>u, <2>1, <2>3 DEF CallOK
  <2> QED BY <2>2, <2>4
<1>9. ASSUME NEW j \in Run PROVE RunOK(j)'
  <2>1. CASE j = i BY <1>u, <1>t, <1>1, <1>2, <2>1 DEF RunOK
  <2>2. CASE j # i
    <3>1. RunOK(j) /\ run'[j] = run[j] BY <1>2, <2>2 DEF TunnelInv
    <3> QED BY <1>u, <3>1 DEF RunOK
  <2> QED BY <2>1, <2>2
<1>10. TunnelInv' BY <1>5, <1>6, <1>7, <1>8, <1>9 DEF TunnelInv
<1>11. \A j \in Run : run'[j].listening => run'[j] = run[j] BY <1>1, <1>2
<1> QED BY <1>u, <1>4, <1>10, <1>11, Underneath

------------------------------------------------------------------------------
(* The theorems                                                             *)

\* Nothing runs and nothing is open at first.
LEMMA InitInv == Init => Inv
<1> SUFFICES ASSUME Init PROVE Inv OBVIOUS
<1> USE DEF Init
<1>n. None \notin Call \cup Conn \cup Run BY SessionsAssumption
<1>i. \A c \in Call : call[c] = Idle /\ call[c].pc = "idle" /\ call[c].cmd = "none" BY NothingTyped
<1>r. \A i \in Run : run[i] = NoRun /\ run[i].task = "off" /\ run[i].listening = FALSE BY NothingTyped
<1>1. Typed BY NothingTyped DEF Typed, Status
<1>2. TunnelInv
  <2>1. LockOK /\ HoldersDiffer BY <1>i, <1>n DEF LockOK, HoldersDiffer, Locked, Holder
  <2>2. MapOK /\ OnePort BY <1>r DEF MapOK, OnePort
  <2>3. \A c \in Call : CallOK(c) /\ CmdOK(call[c]) BY <1>i, NothingTyped DEF CallOK, Holder
  <2>4. \A i \in Run : RunOK(i) BY <1>r DEF RunOK
  <2> QED BY <2>1, <2>2, <2>3, <2>4 DEF TunnelInv
<1>3. FollowInv BY <1>i, <1>r DEF FollowInv, After
<1>4. ConnInv
  <2>1. OwnOK /\ \A c \in Call : LoginOK(c) BY <1>i DEF OwnOK, LoginOK, Login, After
  <2>2. PendingOK /\ MapsOK /\ Kept /\ Paged /\ Wiped BY DEF PendingOK, MapsOK, Kept, Paged, Wiped
  <2> QED BY <2>1, <2>2 DEF ConnInv
<1> QED BY <1>1, <1>2, <1>3, <1>4 DEF Inv

\* What the page asks for keeps the invariant.
LEMMA AskedInv ==
  ASSUME Inv, NEW c \in Call, Asked(c)
  PROVE  Inv'
<1>0. asked' \in Nat BY DEF Asked, Inv, Typed
<1>1. CASE \E a \in Attempt : \E cmd \in {"shell", "files"} : Connect(c, a, cmd) BY <1>0, <1>1, ConnectStep
<1>2. CASE \E a \in Attempt : \E t \in Tunnel : StartTunnel(c, a, t) BY <1>0, <1>2, StartTunnelStep
<1>3. CASE \E t \in Tunnel : StopTunnel(c, t) BY <1>0, <1>3, StopTunnelStep
<1>4. CASE \E k \in Conn : CloseSession(c, k) BY <1>0, <1>4, CloseSessionStep
<1>5. CASE Reload(c) BY <1>0, <1>5, ReloadStep
<1> QED BY <1>1, <1>2, <1>3, <1>4, <1>5 DEF Asked

\* The commands that run keep the invariant.
LEMMA RunsInv ==
  ASSUME Inv, NEW c \in Call, Runs(c) \/ Autostart(c), UNCHANGED asked
  PROVE  Inv'
<1>1. CASE Open(c) \/ Auth(c) \/ Channel(c) \/ Insert(c) \/ Hosts(c) \/ Password(c) \/ Link(c)
  BY <1>1, OpenStep, AuthStep, ChannelStep, InsertStep, HostsStep, PasswordStep, LinkStep
<1>2. CASE Each(c) \/ Start(c) \/ Old(c) \/ Bind(c) \/ Keep(c) \/ Say(c)
  BY <1>2, EachStep, StartStep, OldStep, BindStep, KeepStep, SayStep
<1>3. CASE Gather(c) \/ Stop(c) \/ Finish(c) \/ End(c) \/ EndAll(c) \/ Drain(c)
  BY <1>3, GatherStep, StopStep, FinishStep, EndStep, DrainStep
<1>4. CASE Autostart(c) BY <1>4, AutostartStep
<1> QED BY <1>1, <1>2, <1>3, <1>4 DEF Runs

\* What ends, breaks, is cancelled or closed keeps the invariant.
LEMMA OthersInv ==
  ASSUME Inv, Others, UNCHANGED asked
  PROVE  Inv'
<1>1. CASE \E a \in Attempt : Cancel(a) BY <1>1, CancelStep
<1>2. CASE \E k \in Conn : CloseFiles(k) BY <1>2, CloseFilesStep
<1>3. CASE \E k \in Conn : Break(k) \/ Disconnect(k) \/ DropLink(k) BY <1>3, EndsStep
<1>4. CASE \E i \in Run : TaskStops(i) \/ TaskLost(i) \/ TaskFails(i) BY <1>4, TaskStep
<1> QED BY <1>1, <1>2, <1>3, <1>4 DEF Others, Tasks, Ends

\* So does a step that changes nothing.
LEMMA StutterInv == ASSUME Inv, UNCHANGED vars PROVE Inv'
<1> USE DEF Inv, vars, net, maps, tunnel, view
<1>1. Typed' BY DEF Typed
<1>2. TunnelInv' BY DEF TunnelInv, LockOK, HoldersDiffer, MapOK, OnePort, CallOK, CmdOK, RunOK
<1>3. FollowInv' BY DEF FollowInv, Was
<1>4. ConnInv' BY ConnectionsAlone
<1> QED BY <1>1, <1>2, <1>3, <1>4

\* Whatever commands run at a time, whichever connections break and whenever pages are
\* shown, the maps of the session manager and the tunnel manager agree with the commands
\* in flight (session.rs, tunnel.rs).
THEOREM Invariance == Spec => []Inv
<1>1. Inv /\ [Next]_vars => Inv'
  <2> SUFFICES ASSUME Inv, [Next]_vars PROVE Inv' OBVIOUS
  <2>1. CASE \E c \in Call : Asked(c) BY <2>1, AskedInv
  <2>2. CASE \E c \in Call : (Runs(c) \/ Autostart(c)) /\ UNCHANGED asked BY <2>2, RunsInv
  <2>3. CASE Others /\ UNCHANGED asked BY <2>3, OthersInv
  <2>4. CASE UNCHANGED vars BY <2>4, StutterInv
  <2> QED BY <2>1, <2>2, <2>3, <2>4 DEF Next
<1> QED BY InitInv, <1>1, PTL DEF Spec

\* The maps hold what commands and tasks can have put there, and the tunnel manager's
\* lock is held by the command that is inside start() (tunnel.rs).
THEOREM TypeCorrect == Spec => []TypeOK
<1>1. Inv => TypeOK
  <2> SUFFICES ASSUME Inv PROVE TypeOK OBVIOUS
  <2> USE DEF Inv, Typed
  <2>1. \A c \in Call : /\ call[c].conn \in Conn \cup {None} /\ call[c].run \in Run \cup {None}
                        /\ call[c].ids \subseteq Tunnel
    BY DEF Task
  <2>2. \A i \in Run : /\ run[i].state \in Status /\ run[i].task \in {"on", "lost", "off"}
                       /\ run[i].link \in Conn \cup {None}
    BY DEF Start0
  <2>3. \A c \in Call : locked = c <=> call[c].pc \in {"old", "bind", "keep", "say"} BY DEF TunnelInv, LockOK, Locked
  <2> QED BY <2>1, <2>2, <2>3 DEF TypeOK
<1> QED BY <1>1, Invariance, PTL

\* A connection that is open when nothing is under way is in a map of the session
\* manager or carries a tunnel: none is forgotten (session.rs, tunnel.rs).
THEOREM NoneForgotten == Spec => []NobodysConnection
<1>1. Inv => NobodysConnection
  <2> SUFFICES ASSUME Inv, AtRest, NEW k \in Conn, conn[k] \in {"open", "in", "link"}
               PROVE  k \in Waiting \cup sessions \cup files \/ Held(k)
    BY DEF NobodysConnection
  <2>1. CASE conn[k] = "link" BY <2>1 DEF AtRest
  <2>2. CASE conn[k] \in {"open", "in"}
    <3>1. \/ k \in sessions \cup files \/ \E a \in Attempt : pending[a] = k
          \/ \E c \in Call : call[c].pc \in Login /\ call[c].conn = k
      BY <2>2 DEF Inv, ConnInv, Kept
    <3>2. \A c \in Call : call[c].pc \notin Login BY DEF AtRest, At, Login
    <3>3. k # None BY SessionsAssumption
    <3> QED BY <3>1, <3>2, <3>3 DEF Waiting
  <2> QED BY <2>1, <2>2
<1> QED BY <1>1, Invariance, PTL

\* After close_all_sessions nothing of an earlier page is left open, but for what a login
\* finished after that page had gone (session.rs, close_all).
THEOREM PageClean == Spec => []OnlyThisPage
<1>1. Inv => OnlyThisPage
  <2> SUFFICES ASSUME Inv, AtRest, NEW k \in (Waiting \cup sessions \cup files) \ late PROVE of[k] = page
    BY DEF OnlyThisPage
  <2>1. ~Reloading(Before) /\ ~Reloading(Before \cup {"drain"}) BY DEF AtRest, At, Reloading, Before
  <2> QED BY <2>1 DEF Inv, ConnInv, Paged, Waiting
<1> QED BY <1>1, Invariance, PTL

\* A terminal's password is not kept longer than its page can still close it
\* (state.rs, session_passwords; hosts.rs, forget_session).
THEOREM PasswordsWiped == Spec => []PasswordsAreWiped
<1>1. Inv => PasswordsAreWiped
  <2> SUFFICES ASSUME Inv, AtRest PROVE passwords \cup hosts \subseteq sessions \cup known \cup late
    BY DEF PasswordsAreWiped
  <2>1. \A c \in Call : call[c].pc # "password" BY DEF AtRest, At
  <2> QED BY <2>1 DEF Inv, ConnInv, Wiped
<1> QED BY <1>1, Invariance, PTL

\* A port is held by one start of a tunnel, and by the one the manager has or a command
\* waits for (tunnel.rs, start, stop, finish).
THEOREM PortFree == Spec => []OneListener
<1>1. Inv => OneListener
  <2> SUFFICES ASSUME Inv PROVE OneListener OBVIOUS
  <2>1. \A i, j \in Run : i # j /\ run[i].listening /\ run[j].listening => run[i].tunnel # run[j].tunnel
    BY DEF Inv, TunnelInv, OnePort
  <2>2. ASSUME NEW i \in Run, run[i].listening
        PROVE  tunnels[run[i].tunnel] = i \/ \E c \in Call : call[c].run = i
    <3>1. RunOK(i) BY DEF Inv, TunnelInv
    <3> QED BY <2>2, <3>1 DEF RunOK
  <2> QED BY <2>1, <2>2 DEF OneListener
<1> QED BY <1>1, Invariance, PTL

\* A tunnel that started with a terminal does not listen once the terminal has closed,
\* even if it closed while the tunnel started (tunnels.rs, autostart; session.rs, close).
THEOREM Followed == Spec => []TunnelsFollowTheTerminal
<1>1. Inv => TunnelsFollowTheTerminal
  <2> SUFFICES ASSUME Inv, AtRest, NEW i \in Run, run[i].listening, run[i].session # None
               PROVE  run[i].session \in sessions
    BY DEF TunnelsFollowTheTerminal
  <2>1. run[i].link = run[i].session /\ Was(run[i].session) BY DEF Inv, FollowInv
  <2>2. run[i].session \in Conn BY DEF Inv, Typed, Start0
  <2>3. RunOK(i) BY DEF Inv, TunnelInv
  <2>4. run[i].task = "on" BY <2>3 DEF RunOK
  <2>5. conn[run[i].session] # "ending" BY <2>2 DEF AtRest
  <2>6. conn[run[i].session] # "closed" BY <2>1, <2>4 DEF AtRest, Loses, Closed
  <2> QED BY <2>1, <2>5, <2>6 DEF Was
<1> QED BY <1>1, Invariance, PTL
==============================================================================
