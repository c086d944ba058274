# UwUSSH: models, checks and proofs

UwUSSH is an SSH client with an encrypted store of hosts, keys and host keys
that several devices keep in step through a server that cannot read it. This
directory holds TLA+ models of the parts whose correctness is hard to test, the
TLC configurations that check them, and proofs that hold for every number of
devices, records and faults.

All paths below are relative to the repository. `PROJECT.json` maps every
definition to the lines it models, and lists runs, mutants, hazards, findings
and theorems.

## 1. Inventory

| Component | State it keeps | Operations | Hard about it | Correct when |
|---|---|---|---|---|
| Clock and conflict rule (`uwussh-proto`: `clock.rs`, `merge.rs`) | a timestamp (wall, counter, device) | `tick`, `merge`, `resolve` | a full counter, clocks that disagree, the drift cap | local time never goes back; the rule is a total order |
| Device store, sync side (`uwussh-store`: `lib.rs`, `sync.rs`, `hosts.rs`, `keymap.rs`, `assist.rs`) | rows with timestamp, tombstone, `dirty`, `server_seq`; the clock; the cursor | local writes, `pending_of`, `mark_pushed`, `apply_envelopes`, `set_sync_cursor` | transactions of a pass interleave with the user's; a pass can die between any two | no edit is lost; settled devices agree |
| Sync engine (`uwussh-sync/src/engine.rs`) | where a pass stands: round, part, page | `sync_once`, `push_all`, `push_apart`, `pull_all`, `publish_manifest`, `check` | lost answers, late requests, resets, refusals, conflicts | every pass ends; devices settle |
| Sync server (`memory.rs`, the reference; `http.rs`, the transport) | records with sequence numbers | `push`, `pull` | it sees only versions, so the version check is all of conflict detection | no record goes back |
| Known hosts (`known_hosts.rs`, `sync.rs`) | one row per address and port | `trust_host_key`, `forget_host_key`, `insert_record` | two records for one slot; a tombstone revived under its id | devices trust the same key |
| Output stream (`uwussh-core`: `stream.rs`, `flow.rs`, `ssh.rs`, `pty.rs`; `driver.ts`) | queue, frame, outstanding bytes, acknowledgements | read, batch, send, acknowledge, retry, close | atomics against wake-ups, lost acknowledgements, closing a session whose id is unknown | nothing dropped, bounded memory, no pause for good, closing ends it |
| Session manager (`session.rs`, `sessions.rs`) | sessions, connections waiting for an answer | connect, answer, abandon, `close_all` | logging in while the page goes away; two calls for one attempt | nobody's connection is left over |
| Tunnels (`tunnel.rs`) | running forwardings, shared connections | start, stop, stop with a terminal or at a reload | starting while stopping | stopped means closed |
| Spaces and host moves (`spaces.rs`) | stores, a journal | `move_between`, `recover`, `make_main`, `remove` | a crash between two files | a host is never lost and never there twice |
| Manifests (`manifest.rs`, `engine.rs`) | what each device claims to hold | `refresh_manifest`, `check_manifests` | incomplete pulls, one more pull before the alarm | a kept-back record is noticed, an honest server never blamed |
| UwULock (`uwussh-sync/src/lock`) | tokens, realtime channel | refresh, listen, move | a refresh token that works once | a session survives lost answers where it can |
| Teams (`team.rs`) | epochs, owed rotations | rotate, follow, forget | a rotation answered to nobody | members end up with one key |
| Sync worker (`apps/desktop/src-tauri/src/sync.rs`) | `running`, `held`, `gone`, next times | wake, pass, back off | removing a server while a pass begins | no pass after removal |
| Pairing, vault, import, backup, SFTP, assistant, keygen, setup, page | see `PROJECT.json` | | | |

How they meet: the page calls commands of the desktop layer; those write to a
store or to the session manager. A store is locked for one transaction at a
time. The worker runs `sync_once` against a store and a transport without
holding the store's lock over a request, so the user's writes fall between any
two of a pass's transactions. A session's output goes from its reader through
the batcher and Tauri's channel to the driver of a terminal, which sends
acknowledgements back as calls of its own.

## 2. Modules

| Module | Models | Notes |
|---|---|---|
| `Clock` | `clock.rs` | counter at its width (`MaxCounter`), drift cap (`MaxDrift`) |
| `Merge` | `merge.rs` | `Resolve`, and the order `AtMost` it decides by |
| `LwwMap` | what syncing promises (abstract) | replicas and a master that only move up in that order |
| `Sync` | store, engine, server | one action per transaction or request |
| `KnownHosts` | one known-hosts slot | push and pull are single steps |
| `Stream` | output, flow control, driver | each atomic access, wake-up and callback is a step |
| `Spaces` | stores side by side, host moves, the worker's flags | one action per write to a file, but for `TakeKeys` and `Open` |
| `Sessions` | session manager and tunnels | one action per stretch of a command between awaits |
| `LockSession` | a session at UwULock | one action per request, lock or transaction, but for `SignIn` |
| `Teams` | a team and its keys | one action per request or transaction |
| `MCSync`, `MCKnownHosts`, `MCStream`, `MCSpaces`, `MCSessions`, `MCLockSession`, `MCTeams` | instances for TLC | |
| `SyncProofs`, `KnownHostsProofs`, `LockSessionProofs`, `TeamsProofs`, `SessionsProofs`, `StreamProofs` | theorems | one module per component; those about the clock and the conflict rule are in `SyncProofs` |
| `SpacesInvariant`, `SpacesProofs` | theorems about `Spaces` | the invariant with the first half of its proof; the second half and what follows |

### Sync

A row is `[hlc, deleted, dirty, base]`; what the record says is left out, its
timestamp stands for it. `NoRow` and `NoRecord` carry the zero timestamp, which
no write produces. A pass (`pass[d]`) walks through

    push -> sent -> answered -> merge -> (push again | apart | pull)
    pull -> page -> cursor -> (pull again | next round | idle)

`Send` is `pending_of` and the request, `Handle` the server's `push`,
`MarkPushed` and `MergeConflicts` the two transactions that follow, `PullPage`
the server's `pull`, `ApplyPage` and `MoveCursor` the two transactions of a
page. `push_apart` is the same steps with `apart` set, for the records in
`Fixed` (keymap, assistant), whose request a server may refuse (`RefuseApart`).
A device in `Reader` only pulls. `Create`, `Edit`, `Upsert` and `Delete` are the
user's transactions; they happen between any two steps of a pass.

Faults: `Abort` ends a pass anywhere (lost connection, locked vault, crash); a
request that was sent may still be handled, later, by `HandleLate`; `PullReset`
sends the device back to the start. A page or a batch may end anywhere, because
byte budgets cut them as well as counts.

Left out: records that fail their seal or belong to another vault or to a newer
build, oversized records, `MAX_PAGES`, manifests, and the references between
records. A transaction of the code that writes several rows (a host with its
login) is several writes here.

### KnownHosts

`slot[d]` is the row a device has for one address and port. `Applied` is
`apply_one` with the branch of `insert_record` that decides between two records
for the slot. Interleavings inside a pass are left to `Sync`.

### Stream

Bytes are counted in units. The reader and the batcher share a bounded queue;
the batcher's `pc` follows `wait_for_capacity` and `run_batcher` line by line,
with registering (`Enable`), looking again (`Recheck`) and going to sleep
(`Await`) apart. An acknowledgement is a bag element that is `going`, then
`counted` (subtracted) and `notified`; it may fail before or after it was
counted, and `lost` is what the driver has given up after `ACK_RETRIES`. `page`
says what the driver knows of the session: `starting` (no id yet), `attached`,
`left` (detached before the id came) or `detached`. Closing is four steps: asked, program told, flag set, waiters notified. `Notify` is tokio's
`notify_waiters` as `flow.rs` uses it. The stream may end after any read, which
covers a program that exits and a connection that drops.

Left out: keystrokes and resizing, metrics, streams with flow control switched
off (a measurement mode).

### Spaces

A device has one store file per server. `reg` is the registry on disk, `mem` the
one in memory, `store` what each file holds: hosts and keys by id (a name and a
generation, because an id whose tombstone is in the way is replaced), the key a
host uses, the host key, the personal records (`doc`), the device key (`kept`)
and a staged one (`staged`). An operation that spans stores holds `ops`; here it
is a record `op` with a sequence `todo` of steps, each step one write:

    move     Recover, Begin, Note, Import, Drop (host, key, host key), Clear
    main     TakeRunning.., Personal, StageMain, StageOther.., Swap, Settle..
    remove   Hold, TakeRunning, Leave, TakeHosts, TakeKeys, HandOn, Unregister,
             RemoveFiles, Retire
    add      Mark, MakeFile; then adopt (Register, Unmark, Reseal) or Discard

`Fail` lets one of the steps fail, which unwinds as the code does (`Unwind`,
`Unstage`, `Unleave`, `Failed`). `FailWrite` is a write to a store that did not
happen, or a file or a marker that could not be made or removed, which the code
partly ignores (`settled`, `remove_store_files`). `FailPersist` is a write of the
registry that returns an error: before the rename, or after it because the folder
could not be synced, in which case the new registry is on disk although the caller
takes the old one to be (`PersistFails`); what stays in memory is each caller's
own undoing. `FailMake` is a store that does not open after its marker was
written, `FailDiscard` one whose files stay, `FailSweep` a start that cannot remove
some of the files or markers it sweeps. `Crash` keeps only what is on disk; `Open`
is the next start with its recovery and sweep, which is again a list of steps.

`rechain` (`unlock_chain`, then `reseal_chain`) takes no lock: it reads which
server is main, then the others, and writes store by store, while operations go
on. It is the actions `RechainUnlock(m, s)` and `RechainSeal(m, s)`, one store
each, with `m` the main server now or one a call has read before a swap; `stale`
has the latter, `Swap` may put the old main server there (a call that the swap
falls into, which costs one of `MaxOps`), and `RechainEnds` takes it out. Only at
the end of `register`, which still holds `ops`, is sealing a step of the operation
(`Reseal`).

The passes of a server (`PassBegin`, `PassCheck`, `PassPull`, `PassEnd`) are there
for `running`, `held` and `gone`: what a pass does to records is `Sync`. All
hosts share an address and, those in `Keyed`, a key, so that moving one meets
what the other still needs. `left`, `wiped`, `unnoted`, `deleted`, `doc` and
`chained` only remember what happened; `chained` are the servers of the registry
that the main password has opened, so a server that is removed leaves it. The
registry starts with one server or two, which is all `can_add` allows; the names
of servers differ from the four words that say how else a key may be kept
(`os`, `none`) or staged (`nothing`, `forget`); hosts are finite in number.

Coarser than the code: `Listed` is what `list_hosts` gives while no store and no
journal changes during the call, although it reads one after the other without
`ops`; `TakeKeys` writes all keys of a server in one step, and `Open` opens and
sweeps in one.

Left out: team spaces, a registry that cannot be read and is put aside, groups,
tunnels and passwords of a host, snippets and the assistant's cache, import,
export and backup.

### Sessions

A command of the page is a task in `Call`; between two awaits or locks it is one
step. `conn[k]` follows a connection from `open` over the question (`pending`)
to a terminal, a file browser or a tunnel's link. `Connect` and `StartTunnel`
share `Take`, `Open`, `Ask`, `Auth` and then end in `Channel` and `Insert`, or in
`Link`. A tunnel is `tunnels[t]`, one start of it a `Run` with its task, its stop
signal and whether it listens; `locked` is the manager's mutex, which `Start`
keeps over the awaits. The page is a number; a reload makes a new one, which
calls `close_all_sessions` first. `Break` ends a connection anywhere.

Left out: input and resizing, local shells, what runs inside a file browser,
traffic of a tunnel, and the page's own bookkeeping of tabs beyond which ids it
was given.

### LockSession

`locks` are connections with the tokens they hold, `cached` is `sync.lock`,
`refreshing` a connection's mutex. `thread` has the worker's pass and the
listener, each with its place in `access_token`, `refresh`, `call`, or in its own
loop; `cmd` is a sign-in or a sign-out. A grant is a number; the server gives
each refresh token out once and takes it once. A space is a number; `Rekey`
replaces it. `why` remembers what may have cost the session: `lost` (an answer
or a write), `told` (a refusal that was for another reason, or an end), `twice`
(two connections from one token), `marked` (a row marked for a space that was
left).

Coarser than the code: the requests of a sign-in before the join (password grant,
list of spaces, perhaps a new one) are one step. `Rekey` only goes on to spaces
the account never had. That a server lists one it kept from before a rekey, which
`account.rs:403` warns of, is among the initial states and not a step; a sign-in
then refuses it (`Left`) or asks. No property is about that refusal: it is one
condition in front of one transaction.

Left out: moving an account to another server, key derivation, two-factor
questions, what the realtime channel announces beyond waking the worker.

### Teams

`server` has the team's epoch, key, members, records; `dev[d]` the team's space
on a device, `own[d]` what its account wrote down in its own store. A device is
at rest or in one of: a pass (`Due`, `Wire`, `Settle`, `Note`, `Push`, `Pull`,
`Requeue`, then perhaps `LookAtMembers`, `Ask`, `Answered`), joining, confirming
(`Confirm`, `Admit`, `WrapFor`), removing (`Remove`, `Take`, `Took`) or leaving.
A request to rotate whose sender gave up stays in `net` and may be handled
later (`Late`). `Crash` stops a device; a space whose key was written and not
sealed again stays shut. `knows`, `took` and `older` only remember.

Left out: `set_role`, a member who changes keys, renaming and deleting a team, a
`leave` nobody hears, several devices of one account, passes that find nothing
to do. `Note` stands for the writes of one `settle` after the key. When the
server took a rotation and the sync after it fails, `remove` writes the debt down
once more; here the device rests, which owes no more than the code does. `Join` is
the request and forgetting the old key in one step.

## 3. Runs

| Run | Configuration | Checks | Shows |
|---|---|---|---|
| `sync_edits` | `MCSync.cfg`: 2 devices, 1 record, 3 writes, 1 fault, clocks reading 0 or 1, counter up to 1 | `TypeOK`, `SettledDevicesAgree`, `NoEditIsLost`, `IsLwwMap` | conflicts, tombstones, a carry of the counter, a late request |
| `sync_pages` | `MCSyncPages.cfg`: 2 devices, 2 records, one of them travelling apart, pages of 1, 2 writes, 2 faults | `SettledDevicesAgree`, `EventuallySettled` | cut pages, resets, refusals, crashes between page and cursor; every device settles |
| `known_hosts` | `MCKnownHosts.cfg`: 3 devices, 4 writes | `AgreeOnTheNewest`, `NewestDecisionStays` | rivals meet in every order |
| `known_hosts_forget` | `MCKnownHostsForget.cfg`: 2 devices, 4 writes | `DevicesAgree` violated | finding 1 |
| `stream_flow` | `MCStream.cfg`: watermarks 2 and 2, acknowledgements of 1, frames of up to 3 in chunks of 2, 8 units, 2 failures against 1 retry, a page that may leave | `TypeOK`, `CreditIsKept`, `WebviewIsBounded`, `EndComesLast`, `AllArrives`, `CloseEndsIt` | a flood that pauses and resumes; no missed wake-up; closing works everywhere |
| `spaces` | `MCSpaces.cfg`: 2 servers, 2 hosts with one key, 2 operations, 1 crash, 1 failed write | `TypeOK`, `ListedOnce`, `HostIsWhole`, `OnDiskSomewhere`, `NothingLeftBehind`, `HeldWhileLeaving`, `OnePassword`, `PersonalIsKept`, `FilesMatch` | moves, handovers, removals and set-ups cut off anywhere, with the chain unlocked and sealed beside them |
| `spaces_removal` | `MCSpacesRemoval.cfg`: 1 host, 1 operation, 1 failed write | `RemovalIsLocal` violated | finding 2 |
| `sessions` | `MCSessions.cfg`: 2 commands at a time, 3 in all, 2 connections, 1 tab, 1 tunnel started up to 3 times, a reload, a broken connection | `TypeOK`, `NobodysConnection`, `OnlyThisPage`, `PasswordsAreWiped`, `OneListener`, `TunnelsFollowTheTerminal`, `CommandsEnd` | commands crossing each other, a reload and a loss |
| `tunnel_lost` | `MCSessionsLost.cfg`: the same without the reload | `RunningIsServed` violated | finding 3 |
| `lock_session` | `MCLockSession.cfg`: 3 grants, 2 spaces, 2 commands, 1 event | `TypeOK`, `SessionIsKept`, `RestartFindsTheSession`, `SealedForItsSpace`, `NothingStaysBehind` | two threads, a sign-in or sign-out across both, and one thing that goes wrong |
| `lock_twice` | `MCLockSessionTwice.cfg`: 1 command | `TokenIsUsedOnce` violated | finding 4 |
| `teams` | `MCTeams.cfg`: 3 accounts, 2 of them managing and 1 reading, 1 record, 1 edit, 3 keys, 2 events | `TypeOK`, `OneKey`, `NothingIsLost`, `KeyIsOwed` | rotations that cross, go unheard or come late |

Why the bounds are enough. In `Sync`, one record suffices for what happens to a
record, because the rule and the version check look at one record at a time; two
records are there for what relates them: the cut of a page, the order of
sequence numbers, the two parts of a push. Two devices make every conflict;
three writes make an edit that meets a delete and a further edit. Clocks one
unit apart with a counter of 0 and 1 reach every branch of `tick` and `merge`.
`MaxRounds` is the code's 3. The proofs in section 4 remove these bounds for
safety. In `Stream`, the total is larger than the bound of `WebviewIsBounded`,
so that an engine that did not count would exceed it, and larger than the high
watermark, so that the batcher pauses; with the low watermark one above the
chunk of acknowledgements the assertion of `flow.rs` is tight.

In `Spaces`, the desktop layer lets a device have two servers besides team
spaces (`can_add`), so two is all there is. Two hosts are there for the key and
the host key they share. Two operations make every pair follow each other, a
crash in the first with the recovery inside the second among them; a call of
`rechain` that a swap falls into counts as one. Two operations do not reach one
thing `PersonalIsKept` is about: bindings written, copied by a swap that is broken
off, taken back, and a second swap are four. The theorem covers that. In
`Sessions`, two commands at a time make every race over a map or the manager's
lock; a third command is what the page asks after it. `Run` is as large as
`Call` and `Tunnel` together, so that a start never lacks one. In `LockSession`,
three grants are one of the sign-in and two refreshes, which is what two threads
with one token need. In `Teams`, three keys let a rotation cross another; two
managers make two rotations at a time, and the reader is who is removed. With
two requests and one fault apart, 5.8 million states pass as well.

Deadlock is checked for `Sync`, whose devices always start another pass, and not
elsewhere: with its bounds spent and everything done, each of the other models
may stop.

Fairness. `Sync!FairSpec` is weak fairness of each device's own pass steps: the
worker starts a pass every minute or when woken (`worker`, `sync.rs`), and a
pass, once begun, runs to its end or fails; aborts are bounded by `MaxFaults`
and never forced. Nothing is assumed of the user or of faults. `Stream!FairSpec`
is weak fairness of reader, batcher (tokio tasks and threads), the page's event
loop and timers, calls that are carried out, and `spawn` returning. `ReadEnd` is
fair because a program that was told to end ends; that the message itself may
wait behind unsent keystrokes is listed as a hazard without a property.
`Sessions!FairSpec` is weak fairness of the steps of commands and tunnel tasks
taken together: the runtime runs some task that can run. That suffices because
each command and each task is a finite number of steps. `Spaces`, `LockSession`
and `Teams` have safety properties only.

## 4. Proofs

The clock and the conflict rule (in `SyncProofs`): `tick` and `merge` move a clock
up (`TickAdvances`, `MergeAdvances`, the latter above what arrived when that lies
within the drift), and `resolve` decides by a total order (`MergeOrder`).

`SyncProofs`, for any finite set of records, any set of devices and any bounds:

- `TypeCorrect`: `Spec => []TypeOK`.
- `Invariance`: `Spec => []Inv`.
- `SettledAgree`: `Spec => []SettledDevicesAgree`.
- `EditsSurvive`: `Spec => NoEditIsLost`.
- `Refinement`: `Spec => IsLwwMap`, by a mapping of rows and server records to
  their versions.

All but the first assume `ClocksWithinDrift`: no device's clock lags more than
`MAX_DRIFT_MS` behind a timestamp it receives; section 5 says what happens
beyond. Device numbers are distinct by being the elements of a
set.

The properties are not inductive: that a device agrees with the server when it
is settled says nothing about what it had in flight when it became so. `Inv`
adds

- `RowOK`: a row is never above its device's clock; a row based on the server's
  current version is at or above it; a clean row is at or below the server's
  version. The first makes the next edit win, the other two meet when a row is
  clean and based on the current version: then both sides are equal.
- `RequestOK`, for requests in flight and for late ones: if the server would
  take it, it is at or above what the server holds, and it is never above the
  row it was built from. This is why a repeated or late push does no harm.
- `TakenOK`, `HeldOK`: an answer describes a version the server holds or has
  replaced since by a better one, and in the latter case the cursor has not
  passed that better one.
- `PassOK`: whatever lies at or before the cursor has been merged (`Seen`); while
  a page is being applied the same is known of its records.

Each action is shown to preserve each part; the theorems follow from `Inv`.

`KnownHostsProofs`, for any number of devices, record ids and writes, with
`ClocksWithinDrift` as for `Sync`: `Agreement` (`AgreeOnTheNewest`) and
`DecisionStays` (`NewestDecisionStays`). The invariant says that a clock is not
behind its row, and, as long as nobody has forgotten a key, three facts that
meet when a device is settled: a row based on the server's record is not older
than it (`Based`), a row with nothing to send is not newer than the server's
record of its id (`Sent`), and whatever lies at or before the cursor is not newer
than the row (`Pulled`). `Pulled` compares records of different ids, which is
where the slot differs from `Sync`. Without the condition on the clocks the
properties fail for the reason given in section 5.

`LockSessionProofs`, for any number of grants, spaces, commands and events:
`TypeCorrect`, `SessionKept`, `SessionFound`, `Sealed` and `NothingBehind`. The
argument follows a refresh token: it is on disk, on a
connection, in the hand of the thread that exchanges it or in that of a sign-in,
and at each of these places it is one the server still takes or is being replaced
by one it takes (`LockOK`, `Keeps`, `TokenOK`); no two of the places have the
same one. For the seals, a connection's space is the device's or one that is gone
for good in the model (`Past`), so what was sealed for an old space can only reach that one
(`Seals`, `SpaceOK`, `HoldsOK`). What the history variable `why` excuses is in
`Lost` and `Blamed`.

`TeamsProofs`, for any accounts, records, keys, retries and length of the chain
of earlier keys: `TypeCorrect`, `OneKeyPerEpoch`, `NothingLost` and `KeyOwed`.
`Fits` ties a device's space and the step it is at to the team: nobody is ahead
of the team's epoch, who is level with it has its key, a noted rotation is for the
next epoch, and what a device has a sequence number for at the team's epoch is at
the server. `KeyOwed` needs that a key is known to nobody before the server has
carried out its rotation, whether the request is about to be sent, in flight or
late (`Asked`, `Asking`, `KnownKeys`), that it goes to none of those the sender
took out (`WithOK`), and that a debt survives a removal that is taken back
(`OwedOK`, `GivenOK`).

`SessionsProofs`, for any commands at a time, connections, tabs and tunnels:
`TypeCorrect`, `NoneForgotten`, `PageClean`, `PasswordsWiped`, `PortFree` and
`Followed`. The properties speak of a state at rest; the invariant says who is
responsible before it is reached.

- `ConnInv`: the connection a command logs in on is its own, in no map and waiting
  under no name (`LoginOK`, `OwnOK`); an open connection is in a map, waits or is
  being logged in on (`Kept`); what an earlier page left is in front of a reload
  that has not come to it yet (`Paged`); a password belongs to an id the page has
  or is about to be given (`Wiped`).
- `TunnelInv`: the lock is held by who is between taking it and giving it back; a
  start whose task runs is in the map under its tunnel or in exactly one command's
  hand (`RunOK`, `CallOK`, `HoldersDiffer`, `MapOK`), hence one listener a tunnel.
- `FollowInv`: a terminal that was there is there, or its connection is ending or
  has ended; a start that follows a terminal listens on that connection.

The proofs assume that commands, tunnels and starts are finite sets with at least
as many starts as commands and tunnels together, so that `Bind` finds an unused
one; a start is memory in the code, which does not run out (`SomeUnused` counts
the used ones).

`StreamProofs`, for any watermarks, sizes, amount of output and number of
failures that satisfy `StreamAssumption` (the assertions of `flow.rs` and that a
read has a size): `TypeCorrect`, `CreditKept`, `Bounded` and `EndLast`. The
invariant adds to the properties

- `Covered`: as long as nothing failed, what is on its way, held back or being
  acknowledged is counted in `unacked`; with `GateOK` (who collects a frame has
  seen the counter at or below the high watermark) and `FrameOK` (a frame exceeds
  its limit by less than its last chunk) this bounds the webview's share. It is
  the converse of `CreditIsKept`; while the page stays and nothing failed,
  the two together say that the counter is exact.
- `Whole`: what was read is in the queue, in the frame, on its way or written,
  exactly so while the page has the session. With `MarkerOK` (the end marker is the
  last in the channel, and the batcher is done) and `PageOK` (while the page stays
  the batcher ends only with its source) the end comes last.

Sums over sequences and bags need induction over data. The lemmas on `Sum` and
`Due` (what an element more or less does to them) are proved from the well-founded
order of the natural numbers by taking a least counterexample, which asks for no
operator as a parameter.

`SpacesInvariant` and `SpacesProofs`, for any servers, any finite set of hosts and
any number of operations, ids, crashes and failed writes: `Invariance`,
`TypeCorrect`, `HostListedOnce`, `ListedHostIsWhole`, `HostOnDisk`,
`KeysLeaveToo`, `HeldWhileNoted`, `OnePasswordStays`, `PersonalStays` and
`FilesStay`, that is, every invariant the run `spaces` checks. An operation may
stop between any two of its writes, so the invariant has to say what holds before
each step that is left, and which lists of steps there are at all. Its parts:

- `Shape`: a list is in the order of `Rank`, what must stand side by side does
  (`Follows`), and it ends with one of four steps. Steps are taken from the front
  and put in place of the front, so the order of pairs suffices and nothing is
  proved by induction over lists. `KindOK`: an operation has only its own steps.
- `Registered`: the registry names at most two servers, memory never says more
  than the disk, and the two differ about the main server only after a write that
  tore. `Setup`: a server that is being set up is empty, and not in the registry
  unless the write that was to put it there tore and it is about to be discarded;
  this is why the sweep and `Discard` lose nothing that is in use.
- `Copied` and `OnceOrMoving`: a host nobody deleted is in a store of the
  registry, and in two only as the ends of the journal that is on disk. `Journaled`
  and `MoveOK`: where the host of the journal is at each step of its move, so that
  `drop_moved_host` drops it only when it lives at the other end, and the journal
  goes only when it is at one end. A note that could not be written is in memory
  only, and then nothing was imported yet.
- `Whole` and `Neat`: a live host has its key and host key; a key that only hosts
  used that have left is the one the journal is about, until the move is over.
- `Removing` and `Leaving`: every host of a server that is being removed has its
  move still to come, the server stays held, and a server hosts have left is noted
  on disk or no longer in the registry.
- `SwapOK`, `Docs`, `Sealed`: a swap is between the two servers; the main server has
  the bindings and no other one later ones, or nobody has any after they were taken
  back; the records of the next main server are written and its key is staged before the swap; until the
  handover is settled each key in the chain is kept or still to be promoted.
  `Sealed` holds while no write has failed, as `OnePassword` asks. A step of
  `rechain` keeps it (`RechainKeeps`): under the main server it writes what the
  chain already says, and under a former one only while `chained` is empty.

Every `Inv` was checked with TLC before it was proved, on the instances of the
runs. Four models were changed on the way. `Stream` has `lost`, so that
`CreditIsKept` holds for any number of failures, and its sums are folds over
functions. In `KnownHosts` a device pulls only what
lies within the drift where `ClocksWithinDrift` is set, as `Sync` does.
`NothingIsLost` of `Teams` asked for more than holds: that the server has a record
in a state at least as new as each writing member has. With two edits TLC finds a
behaviour in which it has not (section 5); what it asks for now, that the record
is there, is what holds and is proved. In `Spaces` the remembered set `chained`
loses a server when it is unregistered, and the registry starts with at most two
servers whatever `Space` is.

Only model-checked: liveness (`EventuallySettled`, `AllArrives`, `CloseEndsIt`,
`CommandsEnd`), which is outside what the prover can do. Every invariant and every
step property that a passing run checks is the subject of a theorem; what the runs
of section 5 refute is of course not.

## 5. Findings

1. *A forgotten host key* (`known_hosts_forget`). The slot compares a record with
   a tombstone of another record by time, but a tombstone of an unknown record
   is skipped; after a key was forgotten on one device, devices can disagree for
   good. `sync.rs:1268` says "so they end up agreeing".
2. *A removal that is not local* (`spaces_removal`). Removing a server moves its
   hosts first. When the first host fails after it was deleted in the store that
   goes away, `remove` takes it that nothing has left, takes the note `leaving`
   back, and the server's next pass deletes the host for its other devices.
   `apps/desktop/src-tauri/src/spaces.rs:303` says the server stays held.
3. *A tunnel that runs nowhere* (`tunnel_lost`). `start` reports `Running` after
   the tunnel's task is spawned and may so overwrite the `ConnectionLost` the
   task has reported already. `tunnel.rs:17` says a lost connection is reported.
4. *One token, two connections* (`lock_twice`). `connection` does not hold
   `sync.lock` between looking and filling it, so the worker and the listener
   may both make a connection from the kept token, and the second refresh ends
   the session. `apps/desktop/src-tauri/src/sync.rs:211` says the token must not
   be used twice.

What else the models met, without a run of its own. Where a property would
otherwise meet one of these, its definition excludes it by a history variable
or a condition, named in brackets:

- A clock that lags by more than a day (`ClocksWithinDrift`, which every run
  and proof of `Sync` and `KnownHosts` assumes): an edit is stamped below the version it
  replaces, the server takes it, and the other device keeps its own version as
  "newer" without offering it again; the two differ for good.
- Acknowledgements that fail share one counter, so when more than `ACK_RETRIES`
  of them are in flight together the last ones are given up after a single try
  and the session may pause for good (`lost` in `CreditIsKept` and `AllArrives`).
- The registry has one note `leaving`: removing a second server writes over that
  of a first one that stays held (`unnoted` in `HeldWhileLeaving`).
- `rechain` takes no lock. A call that read the old main server before a swap
  writes after it (`spaces.rs:2145`): the key of the old main server is sealed
  under itself, or one that the new main server sealed is forgotten, and that
  vault asks for its own password (`stale`: `Swap` then empties `chained`, of
  which `OnePassword` speaks; without this TLC finds it violated in 15 steps).
- Changing the main server while an earlier handover has not been settled, after
  a failed write and a crash, mixes staged keys (`OnePassword` asks for
  `spent.errors = 0`).
- An edit of the key bindings between `export_personal` and the swap, and
  `lock_all` during it, are not seen by the new main server (`doc`, `chained`).
- A swap that is broken off leaves the copy of the personal records it has already
  imported in the other store. If the user then takes the bindings back,
  `export_personal` leaves the empty record out (`spaces.rs:1182`), the next swap
  imports nothing over the copy, and the bindings are there again (`doc` is then
  `None` in `PersonalIsKept`: bindings taken back while another store of the
  registry has a copy).
- A write of the registry that fails after its rename (`spaces.rs:403`) returns an
  error with the new registry on disk. `adopt_new` then throws away the store the
  registry names, and the next start opens an empty one for that server; a swap
  believed not to have happened is found at the next start, and what was edited in
  between is in the store that is main no more (`FilesMatch` speaks of the registry
  on disk while no write has failed, `PersonalIsKept` not of edits while
  `reg.main` is another than `mem.main`).
- A store that does not open after its marker was written, or whose files cannot
  be removed, stays on disk until a start sweeps it, and for good if its marker is
  gone. A marker that cannot be removed stays beside a store in use; the sweep
  asks the registry too (`Swept`), so that does no harm until the registry no
  longer names it.
- A login that finishes after the page was reloaded keeps a terminal for a page
  that is gone (`late` in `OnlyThisPage` and `PasswordsAreWiped`).
- `session_ended`, or the refusal of an old connection, wipes the token a new
  sign-in has just kept; a refusal while app sync is off ends the session when
  the server's info cannot be fetched (`"told"` in `SessionIsKept`).
- A pass that pushed to the space before marks rows by their timestamp alone
  after the device has joined another (`"marked"` in `NothingStaysBehind`).
- The end of a rotation from before a removal clears the debt of the removal
  (`older` in `KeyIsOwed`); a crash between `team_rekey` and sealing the chain
  leaves a team's space shut until it is opened by hand; a device that was away
  for more than `MAX_EARLIER` rotations cannot follow; who is taken out, or took
  somebody out, and joins again is no longer spoken of (`took` in `KeyIsOwed`, which
  `Join` clears of them); a leader that never comes
  back before it pushed again takes its versions along (`requeue` in
  `NothingIsLost`).
- An older state of a team's record can stay at the server after a rotation. Its
  leader's rotation was accepted and it has not sent its records yet; a member
  with an older state follows and sends that; a member with a newer one pulls it,
  `resolve` says `Local`, which sets `server_seq` and leaves the row clean
  (`store/src/sync.rs:1019`, "Keep it pending"), and `team_requeue`
  (`store/src/team.rs:371`, `server_seq = 0`) then does not send it. The leader
  repairs this when it comes back with the newer state (`NothingIsLost` asks that
  the record is there, not in which state; `teams` has one edit).

## 6. Not modelled

Cryptography (vault, keys, wraps, pairing exchanges) is taken to do what it
says: a model checker has nothing to add to it. Parsers and file formats
(imports, backups, key files), queries that only read, views of the page,
wording, and the operating-system specifics of setup and updates have no control
flow whose orders matter. These make up most of the repository's lines, together
with the SFTP browser, the assistant and the command layer, so the map covers a
small share of all lines and a large share of the parts where steps of several
actors meet. Manifests, transfers of files and references between records are
within reach and are not modelled yet.

## 7. Plan

Done: `Clock`, `Merge`, `LwwMap`, `Sync`, `KnownHosts`, `Stream`, `Sessions`,
`LockSession`, `Teams` and `Spaces` with runs and proofs.

Next, in this order:

1. `Manifests`: `publish_manifest`, `check`, `check_manifests` on top of a server
   that may keep records back or serve old ones. Properties: an honest server is
   never blamed, a kept-back record is noticed after a complete pass.
2. `Logins`: shared identities and secrets that are released once unused, with
   placeholder rows for references that arrive late.
3. Transfers of the file browser and their cancelling.
