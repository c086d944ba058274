------------------------------ MODULE Sessions ------------------------------
(***************************************************************************)
(* Connections, terminals, file browsers and tunnels: SessionManager and   *)
(* TunnelManager (uwussh-core, session.rs, tunnel.rs, ssh.rs) and the      *)
(* commands the page calls (apps/desktop/src-tauri: hosts.rs, sessions.rs, *)
(* tunnels.rs, files.rs, system.rs).                                       *)
(*                                                                         *)
(* A command is a task of the runtime that runs between its awaits and its *)
(* locks in one step.  A connection is a member of Conn; it is also the id *)
(* of the terminal or file browser it carries.  A Run is what one start of *)
(* a tunnel shares with its tasks (`Shared` with `Running`).               *)
(***************************************************************************)
EXTENDS Naturals, FiniteSets

CONSTANTS
  Call,      \* tasks: how many commands run at a time
  Conn,      \* bound: connections that are ever opened
  Attempt,   \* names of connection attempts: the tabs
  Tunnel,    \* tunnels of the host, which start with its terminal
  Run,       \* starts of tunnels
  None,
  MaxAsks,   \* bound: commands the page asks for
  MaxPages,  \* bound: pages that start
  MaxLosses  \* bound: connections that break

ASSUME SessionsAssumption ==
  /\ None \notin Call \cup Conn \cup Run
  /\ IsFiniteSet(Call) /\ IsFiniteSet(Tunnel) /\ IsFiniteSet(Run)
  /\ Cardinality(Run) >= Cardinality(Call) + Cardinality(Tunnel)
  /\ {MaxAsks, MaxPages, MaxLosses} \subseteq Nat

VARIABLES
  conn,       \* what each connection is
  pending,    \* connections that wait for an answer
  sessions,   \* open terminals
  files,      \* open file browsers
  hosts, passwords,  \* session_hosts, session_passwords
  call,       \* the commands that run
  spawned,    \* terminals whose autostart has been spawned
  tunnels,    \* the tunnel manager's map
  locked,     \* who holds its lock
  run,        \* the starts of tunnels
  dedicated,  \* the connection of their own that tunnels remember
  page,       \* the page that is shown
  known,      \* the ids that page was given
  shown,      \* the status it was last told of each tunnel
  of,         \* the page a connection was asked for by
  late,       \* connections kept for a page that was gone
  losses, asked

net    == <<conn, of, late, losses>>
maps   == <<pending, sessions, files, hosts, passwords>>
tunnel == <<tunnels, locked, run, dedicated, shown>>
view   == <<page, known>>
vars   == <<net, maps, call, spawned, tunnel, view, asked>>

NoRun == [tunnel |-> None, state |-> "stopped", session |-> None, link |-> None,
          stop |-> FALSE, listening |-> FALSE, task |-> "off"]

Idle == [pc |-> "idle", cmd |-> "none", attempt |-> None, conn |-> None, page |-> 0,
         tunnel |-> None, run |-> None, ids |-> {}]

Status == {"starting", "running", "failed", "stopped"}

\* What the manager's maps hold is what its commands and tasks can have put there.
TypeOK ==
  /\ conn \in [Conn -> {"unused", "open", "in", "link", "ending", "closed"}]
  /\ pending \in [Attempt -> Conn \cup {None}]
  /\ sessions \cup files \cup hosts \cup passwords \cup spawned \cup known \cup late \subseteq Conn
  /\ \A c \in Call : /\ call[c].conn \in Conn \cup {None} /\ call[c].run \in Run \cup {None}
                     /\ call[c].ids \subseteq Tunnel
  /\ tunnels \in [Tunnel -> Run \cup {None}] /\ locked \in Call \cup {None}
  /\ \A i \in Run : /\ run[i].state \in Status /\ run[i].task \in {"on", "lost", "off"}
                    /\ run[i].link \in Conn \cup {None}
  /\ dedicated \in Conn \cup {None} /\ shown \in [Tunnel -> Status]
  /\ \A c \in Call : locked = c <=> call[c].pc \in {"old", "bind", "keep", "say"}

-----------------------------------------------------------------------------
At(c, pc) == call[c].pc = pc

Goto(c, pc) == call' = [call EXCEPT ![c].pc = pc]
Return(c)   == call' = [call EXCEPT ![c] = Idle]

\* SshLink::is_closed, Handle::is_closed
Closed(k) == conn[k] = "closed"

Closing(K) == conn' = [k \in Conn |-> IF k \in K THEN "closed" ELSE conn[k]]

\* A connection kept for a command of a page that is no longer there.
Late(c) == late' = IF call[c].page = page THEN late ELSE late \cup {call[c].conn}

\* Who holds the Arc of a connection that belongs to tunnels.
Held(k) ==
  \/ \E c \in Call : call[c].cmd = "tunnel" /\ call[c].conn = k
  \/ \E i \in Run : /\ run[i].link = k
                    /\ run[i].task # "off" \/ \E t \in Tunnel : tunnels[t] = i

-----------------------------------------------------------------------------
(* Logging in: authenticated().                                            *)

\* The connection that waits under the attempt is continued on, or it is stale
\* (too old, or the host was edited) and told goodbye.
Take(c, cmd, a, t) ==
  LET w == pending[a]
      starts == [Idle EXCEPT !.cmd = cmd, !.attempt = a, !.tunnel = t, !.page = page]
  IN /\ pending' = [pending EXCEPT ![a] = None]
     /\ \/ /\ w # None /\ ~Closed(w)
           /\ call' = [call EXCEPT ![c] = [starts EXCEPT !.pc = "auth", !.conn = w]]
           /\ of' = [of EXCEPT ![w] = page]
           /\ UNCHANGED conn
        \/ /\ Closing({w} \ {None})
           /\ call' = [call EXCEPT ![c] = [starts EXCEPT !.pc = "open"]]
           /\ UNCHANGED of
     /\ UNCHANGED <<sessions, files, hosts, passwords, late, losses>>

\* connect_host, open_files
Connect(c, a, cmd) ==
  /\ At(c, "idle") /\ cmd \in {"shell", "files"}
  /\ Take(c, cmd, a, None)
  /\ UNCHANGED <<spawned, tunnel, view>>

\* start_tunnel: on the tunnels' own connection, if there is one.
StartTunnel(c, a, t) ==
  /\ At(c, "idle")
  /\ LET k == dedicated IN
     IF k # None /\ Held(k) /\ ~Closed(k)
     THEN /\ call' = [call EXCEPT ![c] = [Idle EXCEPT !.pc = "start", !.cmd = "tunnel",
                                            !.conn = k, !.tunnel = t, !.page = page]]
          /\ UNCHANGED <<net, maps, dedicated>>
     ELSE dedicated' = None /\ Take(c, "tunnel", a, t)
  /\ UNCHANGED <<spawned, tunnels, locked, run, shown, view>>

\* SshConnection::open, which checks the host key.
Open(c) ==
  /\ At(c, "open")
  /\ \/ \E k \in Conn : /\ conn[k] = "unused"
                        /\ conn' = [conn EXCEPT ![k] = "open"]
                        /\ of' = [of EXCEPT ![k] = call[c].page]
                        /\ call' = [call EXCEPT ![c].pc = "auth", ![c].conn = k]
     \/ Return(c) /\ UNCHANGED <<conn, of>>
  /\ UNCHANGED <<maps, late, losses, spawned, tunnel, view>>

\* Mutant of Ask: what was waiting there is put aside.
AskBeside(c) ==
  /\ pending' = [pending EXCEPT ![call[c].attempt] = call[c].conn]
  /\ Late(c)
  /\ UNCHANGED conn

\* The question goes to the user and the connection waits; one that waited under
\* the same attempt is dropped.
Ask(c) ==
  /\ pending' = [pending EXCEPT ![call[c].attempt] = call[c].conn]
  /\ Closing({pending[call[c].attempt]} \ {None})
  /\ Late(c)

\* authenticate: a login that went through, a question, or neither.  One that is
\* logged in already, kept for sudo's password, is not logged in twice.
Auth(c) ==
  /\ At(c, "auth")
  /\ LET k == call[c].conn IN
     \/ /\ conn[k] \in {"open", "in"}
        /\ conn' = [conn EXCEPT ![k] = "in"]
        /\ Goto(c, IF call[c].cmd = "tunnel" THEN "link" ELSE "channel")
        /\ UNCHANGED <<pending, late>>
     \/ conn[k] = "open" /\ Ask(c) /\ Return(c)
     \/ Closing({k}) /\ Return(c) /\ UNCHANGED <<pending, late>>
  /\ UNCHANGED <<of, losses, sessions, files, hosts, passwords, spawned, tunnel, view>>

\* open_shell, open_files; sudo's question keeps the connection waiting.
Channel(c) ==
  /\ At(c, "channel")
  /\ LET k == call[c].conn IN
     \/ conn[k] = "in" /\ Goto(c, "insert") /\ UNCHANGED <<conn, pending, late>>
     \/ conn[k] = "in" /\ call[c].cmd = "files" /\ Ask(c) /\ Return(c)
     \/ Closing({k}) /\ Return(c) /\ UNCHANGED <<pending, late>>
  /\ UNCHANGED <<of, losses, sessions, files, hosts, passwords, spawned, tunnel, view>>

\* The answer reaches the page that asked, if it is still there.
Reply(c) == known' = IF call[c].page = page THEN known \cup {call[c].conn} ELSE known

Insert(c) ==
  /\ At(c, "insert")
  /\ Late(c)
  /\ IF call[c].cmd = "shell"
     THEN /\ sessions' = sessions \cup {call[c].conn}
          /\ Goto(c, "hosts")
          /\ UNCHANGED <<files, known>>
     ELSE /\ files' = files \cup {call[c].conn}
          /\ Reply(c) /\ Return(c)
          /\ UNCHANGED sessions
  /\ UNCHANGED <<conn, of, losses, pending, hosts, passwords, spawned, tunnel, page>>

\* The rest of connect_host.
Hosts(c) ==
  /\ At(c, "hosts")
  /\ hosts' = hosts \cup {call[c].conn}
  /\ spawned' = spawned \cup {call[c].conn}
  /\ Late(c)
  /\ Goto(c, "password")
  /\ UNCHANGED <<conn, of, losses, pending, sessions, files, passwords, tunnel, view>>

Password(c) ==
  /\ At(c, "password")
  /\ passwords' \in {passwords, passwords \cup {call[c].conn}}
  /\ Late(c)
  /\ Reply(c) /\ Return(c)
  /\ UNCHANGED <<conn, of, losses, pending, sessions, files, hosts, spawned, tunnel, page>>

\* into_link, keep_dedicated
Link(c) ==
  /\ At(c, "link")
  /\ conn' = [conn EXCEPT ![call[c].conn] = IF @ = "in" THEN "link" ELSE @]
  /\ dedicated' = call[c].conn
  /\ Goto(c, "start")
  /\ UNCHANGED <<of, late, losses, maps, spawned, tunnels, locked, run, shown, view>>

\* cancel_connect
Cancel(a) ==
  /\ pending[a] # None
  /\ Closing({pending[a]})
  /\ pending' = [pending EXCEPT ![a] = None]
  /\ UNCHANGED <<of, late, losses, sessions, files, hosts, passwords, call, spawned, tunnel, view>>

\* close_files; files() forgets one whose connection has ended.
CloseFiles(k) ==
  /\ k \in known \cap files
  /\ files' = files \ {k}
  /\ known' = known \ {k}
  /\ Closing({k})
  /\ UNCHANGED <<of, late, losses, pending, sessions, hosts, passwords, call, spawned, tunnel, page>>

-----------------------------------------------------------------------------
(* Tunnels: TunnelManager::start.                                          *)

Busy(t) == tunnels[t] # None /\ run[tunnels[t]].state \in {"running", "starting"}

\* autostart: what does not run yet, on the terminal's connection.
Autostart(c) ==
  /\ At(c, "idle") /\ locked = None
  /\ \E k \in spawned :
       /\ spawned' = spawned \ {k}
       /\ call' = [call EXCEPT ![c] = [Idle EXCEPT !.pc = "each", !.cmd = "auto", !.conn = k,
                                         !.ids = {t \in Tunnel : ~Busy(t)}, !.page = page]]
  /\ UNCHANGED <<net, maps, tunnel, view>>

Each(c) ==
  /\ At(c, "each")
  /\ IF call[c].ids = {} \/ call[c].conn \notin sessions THEN Return(c)
     ELSE \E t \in call[c].ids :
            call' = [call EXCEPT ![c].pc = "start", ![c].tunnel = t, ![c].ids = @ \ {t}]
  /\ UNCHANGED <<net, maps, spawned, tunnel, view>>

Next1(c) == IF call[c].cmd = "auto" THEN Goto(c, "each") ELSE Return(c)

\* Mutant of Signalled: finish() waits for the task and does not tell it to stop.
SignalledNot(i) == run

\* What finish() tells the tasks of a start, before it waits for them.
Signalled(i) == IF i = None THEN run ELSE [run EXCEPT ![i].stop = TRUE]

Start(c) ==
  /\ At(c, "start") /\ locked = None
  /\ LET t == call[c].tunnel
         i == tunnels[t]
     IN IF Busy(t) THEN Next1(c) /\ UNCHANGED <<locked, tunnels, run>>
        ELSE /\ locked' = c
             /\ tunnels' = [tunnels EXCEPT ![t] = None]
             /\ run' = Signalled(i)
             /\ call' = [call EXCEPT ![c].pc = IF i = None THEN "bind" ELSE "old", ![c].run = i]
  /\ UNCHANGED <<net, maps, spawned, dedicated, shown, view>>

\* Mutant of Finished: the task is told to stop and not waited for.
FinishedAtOnce(i) == run[i].stop

\* The listener's task has come to its end.
Finished(i) == run[i].task = "off"

\* What a start shared goes with the last that holds it.
Released(i) == [run EXCEPT ![i] = IF @.task = "off" THEN NoRun ELSE @]

\* Mutant of Old: the lock is given back before the task is waited for.
OldUnlocked(c) ==
  /\ At(c, "old") /\ Finished(call[c].run)
  /\ run' = Released(call[c].run)
  /\ call' = [call EXCEPT ![c].pc = "bind", ![c].run = None]
  /\ locked' = None
  /\ UNCHANGED <<net, maps, spawned, tunnels, dedicated, shown, view>>

\* finish() of the failed start before this one.
Old(c) ==
  /\ At(c, "old") /\ Finished(call[c].run)
  /\ run' = Released(call[c].run)
  /\ call' = [call EXCEPT ![c].pc = "bind", ![c].run = None]
  /\ UNCHANGED <<net, maps, spawned, tunnels, locked, dedicated, shown, view>>

Unused == {i \in Run : /\ run[i].task = "off" /\ \A t \in Tunnel : tunnels[t] # i
                       /\ \A c \in Call : call[c].run # i}

\* start_local: the port is bound and the task that listens spawned; or a failure
\* is kept as the tunnel's state.
Bind(c) ==
  /\ At(c, "bind")
  /\ LET t == call[c].tunnel
         i == CHOOSE j \in Unused : TRUE
         s == IF call[c].cmd = "auto" THEN call[c].conn ELSE None
         new == [NoRun EXCEPT !.tunnel = t, !.session = s]
     IN \/ /\ ~Closed(call[c].conn)
           /\ ~\E j \in Run : run[j].tunnel = t /\ run[j].listening
           /\ run' = [run EXCEPT ![i] = [new EXCEPT !.state = "starting", !.link = call[c].conn,
                                           !.listening = TRUE, !.task = "on"]]
           /\ shown' = [shown EXCEPT ![t] = "starting"]
           /\ call' = [call EXCEPT ![c].pc = "keep", ![c].run = i]
           /\ UNCHANGED <<tunnels, locked>>
        \/ /\ run' = [run EXCEPT ![i] = [new EXCEPT !.state = "failed"]]
           /\ shown' = [shown EXCEPT ![t] = "failed"]
           /\ tunnels' = [tunnels EXCEPT ![t] = i]
           /\ locked' = None
           /\ Next1(c)
  /\ UNCHANGED <<net, maps, spawned, dedicated, view>>

Keep(c) ==
  /\ At(c, "keep")
  /\ tunnels' = [tunnels EXCEPT ![call[c].tunnel] = call[c].run]
  /\ Goto(c, "say")
  /\ UNCHANGED <<net, maps, spawned, locked, run, dedicated, shown, view>>

\* shared.set(Running)
Say(c) ==
  /\ At(c, "say")
  /\ run' = [run EXCEPT ![call[c].run].state = "running"]
  /\ shown' = [shown EXCEPT ![call[c].tunnel] = "running"]
  /\ locked' = None
  /\ Next1(c)
  /\ UNCHANGED <<net, maps, spawned, tunnels, dedicated, view>>

\* The task of a tunnel: told to stop, or its connection has ended.  The
\* listener goes first, then a lost connection is reported.
TaskStops(i) ==
  /\ run[i].task = "on" /\ run[i].stop
  /\ run' = [run EXCEPT ![i].task = "off", ![i].listening = FALSE]
  /\ UNCHANGED <<net, maps, call, spawned, tunnels, locked, dedicated, shown, view>>

\* Mutant of Loses: the listener's loop does not look at its connection.
LosesNever(i) == FALSE

Loses(i) == run[i].task = "on" /\ Closed(run[i].link)

TaskLost(i) ==
  /\ Loses(i)
  /\ run' = [run EXCEPT ![i].task = "lost", ![i].listening = FALSE]
  /\ UNCHANGED <<net, maps, call, spawned, tunnels, locked, dedicated, shown, view>>

\* Shared::fail: a stopped one stays stopped.
TaskFails(i) ==
  /\ run[i].task = "lost"
  /\ run' = [run EXCEPT ![i].task = "off",
                        ![i].state = IF @ = "stopped" THEN @ ELSE "failed"]
  /\ shown' = IF run[i].state = "stopped" THEN shown
              ELSE [shown EXCEPT ![run[i].tunnel] = "failed"]
  /\ UNCHANGED <<net, maps, call, spawned, tunnels, locked, dedicated, view>>

\* LinkInner::drop: a connection of the tunnels' own ends with the last of them.
DropLink(k) ==
  /\ conn[k] = "link" /\ ~Held(k)
  /\ Closing({k})
  /\ UNCHANGED <<of, late, losses, maps, call, spawned, tunnel, view>>

-----------------------------------------------------------------------------
(* Stopping and closing.                                                   *)

StopTunnel(c, t) ==
  /\ At(c, "idle") /\ shown[t] # "stopped"
  /\ call' = [call EXCEPT ![c] = [Idle EXCEPT !.pc = "stop", !.cmd = "stop", !.ids = {t},
                                    !.page = page]]
  /\ UNCHANGED <<net, maps, spawned, tunnel, view>>

\* Mutant of Forget: the host is forgotten, the password is not.
ForgetHost(k) == hosts' = hosts \ {k} /\ UNCHANGED passwords

\* forget_session
Forget(k) == hosts' = hosts \ {k} /\ passwords' = passwords \ {k}

\* close_session
CloseSession(c, k) ==
  /\ At(c, "idle") /\ k \in known \ files
  /\ known' = known \ {k}
  /\ Forget(k)
  /\ call' = [call EXCEPT ![c] = [Idle EXCEPT !.pc = "gather", !.cmd = "close", !.conn = k,
                                    !.page = page]]
  /\ UNCHANGED <<net, pending, sessions, files, spawned, tunnel, page>>

\* A page starts, and asks for close_all_sessions.
Reload(c) ==
  /\ At(c, "idle") /\ page < MaxPages
  /\ page' = page + 1 /\ known' = {}
  /\ hosts' = {} /\ passwords' = {}
  /\ call' = [call EXCEPT ![c] = [Idle EXCEPT !.pc = "gather", !.cmd = "reload", !.page = page']]
  /\ UNCHANGED <<net, pending, sessions, files, spawned, tunnel>>

\* stop_session, stop_terminals: which tunnels are meant.
Gather(c) ==
  /\ At(c, "gather") /\ locked = None
  /\ call' = [call EXCEPT ![c].pc = "stop", ![c].ids =
       {t \in Tunnel : /\ tunnels[t] # None
                       /\ run[tunnels[t]].session \in
                            IF call[c].cmd = "close" THEN {call[c].conn} ELSE Conn}]
  /\ UNCHANGED <<net, maps, spawned, tunnel, view>>

\* TunnelManager::stop, one after the other.
Stop(c) ==
  /\ At(c, "stop")
  /\ IF call[c].ids = {}
     THEN /\ IF call[c].cmd = "stop" THEN Return(c) ELSE Goto(c, "end")
          /\ UNCHANGED <<tunnels, run>>
     ELSE /\ locked = None
          /\ \E t \in call[c].ids :
               LET i == tunnels[t] IN
               /\ tunnels' = [tunnels EXCEPT ![t] = None]
               /\ call' = [call EXCEPT ![c].ids = @ \ {t}, ![c].run = i, ![c].tunnel = t,
                                       ![c].pc = IF i = None THEN "stop" ELSE "finish"]
               /\ run' = Signalled(i)
  /\ UNCHANGED <<net, maps, spawned, locked, dedicated, shown, view>>

Finish(c) ==
  /\ At(c, "finish") /\ Finished(call[c].run)
  /\ run' = Released(call[c].run)
  /\ shown' = [shown EXCEPT ![call[c].tunnel] = "stopped"]
  /\ call' = [call EXCEPT ![c].pc = "stop", ![c].run = None]
  /\ UNCHANGED <<net, maps, spawned, tunnels, locked, dedicated, view>>

\* SshSession::close: the end is queued behind what was typed.
Ending(K) == conn' = [k \in Conn |-> IF k \in K /\ ~Closed(k) THEN "ending" ELSE conn[k]]

\* sessions.close
End(c) ==
  /\ At(c, "end") /\ call[c].cmd = "close"
  /\ Ending({call[c].conn} \cap sessions)
  /\ sessions' = sessions \ {call[c].conn}
  /\ Return(c)
  /\ UNCHANGED <<of, late, losses, pending, files, hosts, passwords, spawned, tunnel, view>>

\* close_all drains the three maps one after the other.
EndAll(c) ==
  /\ At(c, "end") /\ call[c].cmd = "reload"
  /\ Ending(sessions)
  /\ sessions' = {}
  /\ Goto(c, "drain")
  /\ UNCHANGED <<of, late, losses, pending, files, hosts, passwords, spawned, tunnel, view>>

\* Mutant of Drained: only the file browsers are closed.
DrainedFiles == files' = {} /\ Closing(files) /\ UNCHANGED pending

Drained ==
  /\ files' = {}
  /\ pending' = [a \in Attempt |-> None]
  /\ Closing(files \cup ({pending[a] : a \in Attempt} \ {None}))

Drain(c) ==
  /\ At(c, "drain")
  /\ Drained
  /\ Return(c)
  /\ UNCHANGED <<of, late, losses, sessions, hosts, passwords, spawned, tunnel, view>>

Disconnect(k) ==
  /\ conn[k] = "ending"
  /\ Closing({k})
  /\ UNCHANGED <<of, late, losses, maps, call, spawned, tunnel, view>>

\* A connection breaks.
Break(k) ==
  /\ conn[k] \in {"open", "in", "link"} /\ losses < MaxLosses
  /\ Closing({k})
  /\ losses' = losses + 1
  /\ UNCHANGED <<of, late, maps, call, spawned, tunnel, view>>

-----------------------------------------------------------------------------
Init ==
  /\ conn = [k \in Conn |-> "unused"] /\ of = [k \in Conn |-> 0] /\ late = {} /\ losses = 0
  /\ pending = [a \in Attempt |-> None]
  /\ sessions = {} /\ files = {} /\ hosts = {} /\ passwords = {}
  /\ call = [c \in Call |-> Idle] /\ spawned = {}
  /\ tunnels = [t \in Tunnel |-> None] /\ locked = None
  /\ run = [i \in Run |-> NoRun] /\ dedicated = None
  /\ shown = [t \in Tunnel |-> "stopped"]
  /\ page = 1 /\ known = {} /\ asked = 0

Asked(c) ==
  /\ asked < MaxAsks /\ asked' = asked + 1
  /\ \/ \E a \in Attempt : \/ \E cmd \in {"shell", "files"} : Connect(c, a, cmd)
                           \/ \E t \in Tunnel : StartTunnel(c, a, t)
     \/ \E t \in Tunnel : StopTunnel(c, t)
     \/ \E k \in Conn : CloseSession(c, k)
     \/ Reload(c)

Runs(c) ==
  \/ Open(c) \/ Auth(c) \/ Channel(c) \/ Insert(c) \/ Hosts(c) \/ Password(c) \/ Link(c)
  \/ Each(c) \/ Start(c) \/ Old(c) \/ Bind(c) \/ Keep(c) \/ Say(c)
  \/ Gather(c) \/ Stop(c) \/ Finish(c) \/ End(c) \/ EndAll(c) \/ Drain(c)

Tasks == \E i \in Run : TaskStops(i) \/ TaskLost(i) \/ TaskFails(i)

Ends == \E k \in Conn : Disconnect(k) \/ DropLink(k)

Others ==
  \/ \E a \in Attempt : Cancel(a)
  \/ \E k \in Conn : CloseFiles(k) \/ Break(k)
  \/ Tasks \/ Ends

Next ==
  \/ \E c \in Call : Asked(c) \/ ((Runs(c) \/ Autostart(c)) /\ UNCHANGED asked)
  \/ Others /\ UNCHANGED asked

Spec == Init /\ [][Next]_vars

\* While a command or a tunnel's task can go on, the runtime goes on with one.
FairSpec == Spec /\ WF_vars(((\E c \in Call : Runs(c)) \/ Tasks) /\ UNCHANGED asked)

-----------------------------------------------------------------------------
(* Properties.                                                             *)

AtRest ==
  /\ \A c \in Call : At(c, "idle")
  /\ spawned = {}
  /\ ~\E k \in Conn : conn[k] = "ending" \/ (conn[k] = "link" /\ ~Held(k))
  /\ ~\E i \in Run : run[i].task = "lost" \/ (run[i].task = "on" /\ run[i].stop) \/ Loses(i)

Waiting == {pending[a] : a \in Attempt} \ {None}

\* A connection that is open is one somebody can still reach and close: it is in
\* one of the manager's maps or carries a tunnel (pending, sessions, files,
\* Running::link), whatever was asked twice, cancelled or closed meanwhile.
NobodysConnection ==
  AtRest => \A k \in Conn : conn[k] \in {"open", "in", "link"} => k \in Waiting \cup sessions \cup files \/ Held(k)

\* What an earlier page left open is gone once close_all_sessions has come
\* through, but for what a login finished after that page had gone.
OnlyThisPage ==
  AtRest => \A k \in (Waiting \cup sessions \cup files) \ late : of[k] = page

\* The password a terminal logged in with is kept only while the terminal is
\* open or the page that has its id has not closed it yet (session_passwords,
\* "Wiped when the terminal closes"), but for a login that finishes for a page
\* that had gone.
PasswordsAreWiped ==
  AtRest => passwords \cup hosts \subseteq sessions \cup known \cup late

\* A tunnel that was stopped, replaced or whose terminal closed does not listen
\* any more: a port is held by at most one start of a tunnel, and only by the
\* one the manager has (TunnelManager::stop "returns once its port is free").
OneListener ==
  /\ \A i, j \in Run : i # j /\ run[i].listening /\ run[j].listening => run[i].tunnel # run[j].tunnel
  /\ \A i \in Run : run[i].listening =>
       tunnels[run[i].tunnel] = i \/ \E c \in Call : call[c].run = i

\* Tunnels that started with a terminal are not there without it, even when the
\* terminal closed while they started.
TunnelsFollowTheTerminal ==
  AtRest => \A i \in Run : run[i].listening /\ run[i].session # None => run[i].session \in sessions

\* A tunnel the page sees running listens: "a connection that ends underneath a
\* tunnel turns it into ConnectionLost" (tunnel.rs:17-20).
RunningIsServed ==
  AtRest => \A t \in Tunnel : shown[t] = "running" => tunnels[t] # None /\ run[tunnels[t]].listening

\* The page asks for a bounded number of commands, and all of them come to their
\* end: no two wait for each other over the tunnel manager's lock, which a start
\* keeps while it awaits the end of the task it replaces.
CommandsEnd == []<>(\A c \in Call : At(c, "idle"))
=============================================================================
