------------------------------- MODULE Spaces -------------------------------
(***************************************************************************)
(* Several stores side by side, one per server (uwussh-store, spaces.rs),  *)
(* and the flags that keep a server from syncing while it is taken away    *)
(* (apps/desktop/src-tauri: spaces.rs, sync.rs).                           *)
(*                                                                         *)
(* What is on disk is the registry `reg`, the store files with what they   *)
(* hold, and the markers of stores that are being set up.  `mem` is the    *)
(* registry in memory.  An operation that spans stores holds the lock      *)
(* `ops`; it is a list `todo` of steps, each one write to one file.  The   *)
(* program may crash before any of them and a write may fail.              *)
(*                                                                         *)
(* All hosts are at one address and those in Keyed log in with one key, so *)
(* that moving one host meets what another one still needs.  A host or key *)
(* that comes back to a store with its tombstone gets a new id: an id is a *)
(* name with a generation.                                                 *)
(***************************************************************************)
EXTENDS Naturals, Sequences, FiniteSets, SequencesExt

CONSTANTS
  Space,        \* ids of servers' stores
  First,        \* the database UwUSSH starts with
  Host,         \* hosts as the user knows them
  Keyed,        \* the hosts that log in with the key
  None,         \* no space, no journal
  MaxGen,       \* bound: ids one host or the key may have had
  MaxOps,       \* bound: what the user asks for, other devices delete, and calls of
                \* rechain that a change of the main server falls into
  MaxCrashes,   \* bound: crashes
  MaxErrors     \* bound: writes that fail

ASSUME SpacesAssumption ==
  /\ First \in Space
  /\ None \notin Space /\ None # 0
  /\ Space \cap {"os", "none", "nothing", "forget"} = {}
  /\ IsFiniteSet(Host)
  /\ Keyed \subseteq Host
  /\ MaxGen \in Nat \ {0}
  /\ {MaxOps, MaxCrashes, MaxErrors} \subseteq Nat

VARIABLES
  reg,      \* the registry on disk
  files,    \* store files on disk
  marker,   \* stores marked as being set up
  store,    \* what each store file holds
  mem,      \* the registry in memory
  up,       \* Spaces::open has returned
  open,     \* spaces whose vault is open
  pending,  \* the second server that is being set up
  op,       \* the operation that holds `ops`
  todo,     \* the steps it has left
  held, gone, running,  \* Sync: held, gone, and who has set running
  stale,    \* main servers of before a swap that a call of rechain may have read
  left,     \* ids that left a store only because it is taken from this device
  wiped,    \* ids among them a pass has deleted on the server
  unnoted,  \* servers that hosts had left when their note went
  deleted,  \* hosts that somebody deleted
  doc,      \* the key bindings as the user last left them
  chained,  \* servers the main password has opened
  now,      \* the clock of the personal records
  spent     \* how much of each bound is used up

disk  == <<reg, files, marker, store>>
flags == <<held, gone, running, stale>>
ghost == <<left, wiped, unnoted, deleted, doc, chained>>
vars  == <<disk, mem, up, open, pending, op, todo, flags, ghost, now, spent>>

Gen   == 1 .. MaxGen
Id    == Host \X Gen
State == {"none", "live", "dead"}

NoJournal == [host |-> None, target |-> None, from |-> None, to |-> None]
Journal   == [host : Id, target : Id, from : Space, to : Space]

\* What keeps a vault's key on this device: the operating system or the vault
\* of another space; Forget and Nothing only as something staged.
Seal == Space \cup {"os", "none"}

Registry ==
  [main : Space, entries : SUBSET Space, journal : Journal \cup {NoJournal},
   handover : Space \cup {None}, leaving : Space \cup {None}]

EmptyStore ==
  [host   |-> [i \in Id |-> "none"],
   uses   |-> [i \in Id |-> 0],
   key    |-> [g \in Gen |-> "none"],
   known  |-> FALSE,
   doc    |-> [val |-> 0, at |-> 0],
   kept   |-> "none",
   staged |-> "nothing"]

Idle == [kind |-> "none", space |-> None, taking |-> FALSE, moved |-> FALSE]

\* The registry, the stores and the markers hold what their files can hold.
TypeOK ==
  /\ reg \in Registry /\ mem \in Registry
  /\ files \subseteq Space /\ marker \subseteq Space
  /\ \A s \in Space :
       /\ store[s].host \in [Id -> State] /\ store[s].uses \in [Id -> {0} \cup Gen]
       /\ store[s].key \in [Gen -> State] /\ store[s].known \in BOOLEAN
       /\ store[s].doc \in [val : 0 .. MaxOps, at : Nat]
       /\ store[s].kept \in Seal /\ store[s].staged \in Seal \cup {"nothing", "forget"}
  /\ up \in BOOLEAN /\ open \subseteq Space /\ pending \in Space \cup {None}
  /\ held \subseteq Space /\ gone \subseteq Space
  /\ running \in [Space -> {"no", "pass", "going", "op"}]
  /\ stale \subseteq Space
  /\ chained \subseteq Space /\ unnoted \subseteq Space /\ wiped \cup left \subseteq Space \X Id

-----------------------------------------------------------------------------
(* Reading the stores.                                                     *)

Live(s, i) == store[s].host[i] = "live"

\* Spaces::all, Spaces::other: the main server comes first.
Other(s) == IF mem.entries = {s} THEN None ELSE CHOOSE t \in mem.entries \ {s} : TRUE

\* Whether the host of a journal entry is where it was going.
Arrived(j) == j # NoJournal /\ j.from # j.to /\ j.to \in mem.entries /\ Live(j.to, j.target)

\* Mutant of Listed: every row of every store.
ListedAll == {e \in mem.entries \X Id : Live(e[1], e[2])}

\* Spaces::list_hosts: a host caught half way is shown where it was going, and
\* no id twice (the main server's row is the one that stays).  The code reads
\* store after store and then the journal: this is the list while none of them
\* changes in between.
Listed ==
  LET all   == {e \in mem.entries \X Id : Live(e[1], e[2])}
      shown == IF Arrived(mem.journal)
               THEN all \ {<<mem.journal.from, mem.journal.host>>} ELSE all
  IN {e \in shown : ~\E f \in shown : /\ f[2] = e[2] /\ f[1] # e[1]
                                       /\ f[1] = mem.main}

\* Spaces::host_space
HostSpace(i) ==
  LET found == {s \in mem.entries : Live(s, i)}
      foremost == IF mem.main \in found THEN mem.main ELSE CHOOSE s \in found : TRUE
      j     == mem.journal
  IN IF found = {} THEN None
     ELSE IF Arrived(j) /\ j.host = i /\ j.target = i /\ foremost = j.from THEN j.to
     ELSE foremost

\* An id nobody has had: Uuid::now_v7.
FreshIds(h) == {g \in Gen : \A s \in Space : store[s].host[<<h, g>>] = "none"}
FreshKeys   == {g \in Gen : \A s \in Space : store[s].key[g] = "none"}
Least(S)    == CHOOSE g \in S : \A k \in S : g <= k

-----------------------------------------------------------------------------
(* The transactions of one store.                                          *)

\* import_key: the id the key has here afterwards.  A live one is used as it
\* is; over a tombstone the key comes under another id, its twin's if it came
\* back before.
KeyHere(st, g) ==
  CASE st.key[g] = "live" -> g
    [] st.key[g] = "none" -> g
    [] OTHER -> LET twins == {k \in Gen : st.key[k] = "live"}
                IN IF twins # {} THEN Least(twins) ELSE Least(FreshKeys)

ImportKey(st, g) == IF g = 0 THEN st ELSE [st EXCEPT !.key[KeyHere(st, g)] = "live"]

\* key_in for the keys in G, those whose id is free here first.
ImportKeys(st, G) ==
  LET free == {g \in G : st.key[g] = "none"}
      some == [st EXCEPT !.key = [g \in Gen |-> IF g \in free THEN "live" ELSE @[g]]]
  IN IF G \subseteq free THEN some ELSE ImportKey(some, Least(G \ free))

\* import_moved_host, in one transaction.
ImportHost(st, target, m) ==
  [ImportKey(st, m.key) EXCEPT
     !.host[target] = "live",
     !.uses[target] = IF m.key = 0 THEN 0 ELSE KeyHere(st, m.key),
     !.known        = st.known \/ m.known]

\* The three transactions of drop_moved_host.  Each reads the host's row, which
\* says what it used even as a tombstone.
DropHost(st, i) == IF st.host[i] = "live" THEN [st EXCEPT !.host[i] = "dead"] ELSE st

\* Mutant of DropKey: the key goes with the first host that used it.
DropKeyAtOnce(st, i) ==
  IF st.uses[i] # 0 THEN [st EXCEPT !.key[st.uses[i]] = "dead"] ELSE st

DropKey(st, i) ==
  LET g == st.uses[i] IN
  IF g # 0 /\ st.key[g] = "live" /\ ~\E k \in Id : st.host[k] = "live" /\ st.uses[k] = g
  THEN [st EXCEPT !.key[g] = "dead"] ELSE st

DropKnown(st, i) ==
  IF \E k \in Id : st.host[k] = "live" THEN st ELSE [st EXCEPT !.known = FALSE]

\* import_personal and clear_personal for a record under a fixed id.
ImportPersonal(st, d) ==
  IF d.val # 0 /\ (st.doc.val = 0 \/ d.at > st.doc.at)
  THEN [st EXCEPT !.doc = [val |-> d.val, at |-> now]] ELSE st

ClearPersonal(st) ==
  IF st.doc.val = 0 THEN st ELSE [st EXCEPT !.doc = [val |-> 0, at |-> now]]

\* stage_unlock, promote_staged_unlock, drop_staged_unlock
Stage(st, seal) == [st EXCEPT !.staged = seal]

\* Mutant of Promote: what is staged is taken for a key.
PromoteAsIs(st) == [st EXCEPT !.kept = st.staged, !.staged = "nothing"]

Promote(st) ==
  [st EXCEPT !.kept = CASE st.staged = "nothing" -> @
                        [] st.staged = "forget"  -> "none"
                        [] OTHER                 -> st.staged,
             !.staged = "nothing"]

\* unlock_remembered_vault for a blob the main vault is asked to open, then
\* remember_vault: what main sealed opens and is kept, anything else is
\* forgotten.
Unchained(st, main) == [st EXCEPT !.kept = IF @ = main THEN @ ELSE "none"]

-----------------------------------------------------------------------------
(* Steps.                                                                  *)

Do(name)          == [do |-> name]
DoIn(name, s)     == [do |-> name, at |-> s]
DoHost(name, s, i) == [do |-> name, at |-> s, id |-> i]

Doing(name) == todo # <<>> /\ todo[1].do = name
Step        == todo[1]
Then(more)  == todo' = more \o Tail(todo)

Each(name, S) == LET f == SetToSeq(S) IN [n \in DOMAIN f |-> DoIn(name, f[n])]

\* Spaces::persist, write_registry: the new registry takes the old one's place in
\* one rename.
Persist(r) == mem' = r /\ reg' = r

\* The same when it fails: before the rename, or after it because the folder could
\* not be synced.  The caller takes both for "not written".
PersistFails(r) == reg' \in {reg, r}

SetStore(s, st) == store' = [store EXCEPT ![s] = st]

Spend(what) == spent' = [spent EXCEPT ![what] = @ + 1]

\* What an error leaves to do: a removal whose first entry did not move takes
\* its note back, and the command lets go of what it holds.
Unwind ==
  IF op.kind = "remove" /\ op.taking /\ ~op.moved
  THEN <<Do("Unleave"), Do("Failed")>> ELSE <<Do("Failed")>>

-----------------------------------------------------------------------------
(* Moving a host: move_between and recover.                                *)

\* Mutant of Dropping: nothing to do once the host is gone.
DroppingOnce(s, i) ==
  IF Live(s, i)
  THEN <<DoHost("DropHost", s, i), DoHost("DropKey", s, i), DoHost("DropKnown", s, i)>>
  ELSE <<>>

Dropping(s, i) == <<DoHost("DropHost", s, i), DoHost("DropKey", s, i), DoHost("DropKnown", s, i)>>

Moving(i, from, to) == <<Do("Recover"), [do |-> "Begin", id |-> i, from |-> from, to |-> to]>>

\* Mutant of Recovery: the source lets go whether the host arrived or not.
RecoveryBlind(j) == Dropping(j.from, j.host) \o <<Do("Clear")>>

\* recover: if the host arrived, the source lets go of it.
Recovery(j) ==
  (IF Arrived(j) /\ j.from \in mem.entries THEN Dropping(j.from, j.host) ELSE <<>>) \o <<Do("Clear")>>

Recover ==
  /\ Doing("Recover")
  /\ Then(IF mem.journal = NoJournal THEN <<>> ELSE Recovery(mem.journal))
  /\ UNCHANGED <<disk, mem, up, open, pending, op, flags, ghost, now, spent>>

\* export_moved_host and the choice of an id in the target.
Begin ==
  /\ Doing("Begin")
  /\ LET i == Step.id
         m == [key |-> store[Step.from].uses[i], known |-> store[Step.from].known]
         stays == store[Step.to].host[i] = "none"
     IN IF ~Live(Step.from, i) \/ (m.key # 0 /\ ~({Step.from, Step.to} \subseteq open))
        THEN todo' = Unwind
        ELSE /\ stays \/ FreshIds(i[1]) # {}
             /\ m.key # 0 => FreshKeys # {} \/ store[Step.to].key[m.key] # "dead"
             /\ LET j == [host |-> i, from |-> Step.from, to |-> Step.to,
                          target |-> IF stays THEN i ELSE <<i[1], Least(FreshIds(i[1]))>>]
                IN Then(<<[do |-> "Note", j |-> j], [do |-> "Import", j |-> j, m |-> m]>>
                        \o Dropping(j.from, i) \o <<Do("Clear")>>)
  /\ UNCHANGED <<disk, mem, up, open, pending, op, flags, ghost, now, spent>>

Note ==
  /\ Doing("Note")
  /\ Persist([mem EXCEPT !.journal = Step.j])
  /\ Then(<<>>)
  /\ UNCHANGED <<files, marker, store, up, open, pending, op, flags, ghost, now, spent>>

\* The import needs the target's vault for what it seals there.
Import ==
  /\ Doing("Import")
  /\ IF Step.m.key # 0 /\ Step.j.to \notin open
     THEN todo' = <<Do("Clear")>> \o Unwind /\ UNCHANGED store
     ELSE Then(<<>>) /\ SetStore(Step.j.to, ImportHost(store[Step.j.to], Step.j.target, Step.m))
  /\ UNCHANGED <<reg, files, marker, mem, up, open, pending, op, flags, ghost, now, spent>>

Drop ==
  /\ \/ Doing("DropHost")  /\ SetStore(Step.at, DropHost(store[Step.at], Step.id))
                           /\ left' = IF op.kind = "remove" /\ op.space = Step.at /\ Live(Step.at, Step.id)
                                      THEN left \cup {<<Step.at, Step.id>>} ELSE left
     \/ Doing("DropKey")   /\ SetStore(Step.at, DropKey(store[Step.at], Step.id)) /\ UNCHANGED left
     \/ Doing("DropKnown") /\ SetStore(Step.at, DropKnown(store[Step.at], Step.id)) /\ UNCHANGED left
  /\ Then(<<>>)
  /\ UNCHANGED <<reg, files, marker, mem, up, open, pending, op, flags,
                 wiped, unnoted, deleted, doc, chained, now, spent>>

Clear ==
  /\ Doing("Clear")
  /\ Persist([mem EXCEPT !.journal = NoJournal])
  /\ Then(<<>>)
  /\ UNCHANGED <<files, marker, store, up, open, pending, op, flags, ghost, now, spent>>

-----------------------------------------------------------------------------
(* Another main server: make_main.                                         *)

Swapping(new) ==
  <<DoIn("Personal", new), DoIn("StageMain", new)>>
  \o [n \in 1 .. Cardinality(mem.entries) - 1 |->
        [do |-> "Stage", at |-> SetToSeq(mem.entries \ {new})[n], main |-> new]]
  \o <<DoIn("Swap", new), Do("Settle")>>

\* Mutant of Exported: the records are moved, not copied.
ExportedAndCleared(new) ==
  [store EXCEPT ![new] = ImportPersonal(@, store[mem.main].doc),
                ![mem.main] = ClearPersonal(@)]

\* export_personal of the main store, import_personal into the new one.
Exported(new) == [store EXCEPT ![new] = ImportPersonal(@, store[mem.main].doc)]

\* Both vaults are open; the personal records of the main server go over.
Personal ==
  /\ Doing("Personal")
  /\ IF {mem.main, Step.at} \subseteq open
     THEN Then(<<>>) /\ store' = Exported(Step.at)
     ELSE todo' = Unwind /\ UNCHANGED store
  /\ now' = now + 1
  /\ UNCHANGED <<reg, files, marker, mem, up, open, pending, op, flags, ghost, spent>>

\* What opened the old main without a password is to open the new one.
StageMain ==
  /\ Doing("StageMain")
  /\ IF store[mem.main].kept = "none"
     THEN Then(<<>>) /\ SetStore(Step.at, Stage(store[Step.at], "forget"))
     ELSE IF Step.at \in open
     THEN Then(<<>>) /\ SetStore(Step.at, Stage(store[Step.at], "os"))
     ELSE todo' = Each("Unstage", mem.entries) \o Unwind /\ UNCHANGED store
  /\ UNCHANGED <<reg, files, marker, mem, up, open, pending, op, flags, ghost, now, spent>>

\* Every other open vault's key is sealed by the new main's.
StageOther ==
  /\ Doing("Stage")
  /\ IF Step.at \notin open THEN Then(<<>>) /\ UNCHANGED store
     ELSE IF Step.main \in open
     THEN Then(<<>>) /\ SetStore(Step.at, Stage(store[Step.at], Step.main))
     ELSE todo' = Each("Unstage", mem.entries) \o Unwind /\ UNCHANGED store
  /\ UNCHANGED <<reg, files, marker, mem, up, open, pending, op, flags, ghost, now, spent>>

Unstage ==
  /\ Doing("Unstage")
  /\ SetStore(Step.at, Stage(store[Step.at], "nothing"))
  /\ Then(<<>>)
  /\ UNCHANGED <<reg, files, marker, mem, up, open, pending, op, flags, ghost, now, spent>>

Swapped(new) == [mem EXCEPT !.main = new, !.handover = mem.main]

\* A call of rechain, which holds no lock, may have read the old main server and
\* go on to seal under it.
Swap ==
  /\ Doing("Swap")
  /\ Persist(Swapped(Step.at))
  /\ \/ UNCHANGED <<stale, spent>>
     \/ spent.ops < MaxOps /\ stale' = stale \cup {mem.main} /\ Spend("ops")
  /\ chained' = IF stale' = {} THEN chained ELSE {}
  /\ Then(<<>>)
  /\ UNCHANGED <<files, marker, store, up, open, pending, op, held, gone, running,
                 left, wiped, unnoted, deleted, doc, now>>

\* Mutant of Settling: a start throws away what was prepared.
SettlingAnew ==
  Each("Unstage", mem.entries) \o (IF mem.handover = None THEN <<>> ELSE <<Do("EndHandover")>>)

\* settle_handover, after the swap and on every start.
Settling ==
  IF mem.handover = None THEN Each("Unstage", mem.entries)
  ELSE Each("Promote", mem.entries)
       \o (IF mem.handover \in mem.entries THEN <<DoIn("ClearDoc", mem.handover)>> ELSE <<>>)
       \o <<Do("EndHandover")>>

Settle ==
  /\ Doing("Settle")
  /\ Then(Settling)
  /\ UNCHANGED <<disk, mem, up, open, pending, op, flags, ghost, now, spent>>

SettleStep ==
  /\ \/ Doing("Promote")  /\ SetStore(Step.at, Promote(store[Step.at])) /\ UNCHANGED now
     \/ Doing("ClearDoc") /\ SetStore(Step.at, ClearPersonal(store[Step.at])) /\ now' = now + 1
  /\ Then(<<>>)
  /\ UNCHANGED <<reg, files, marker, mem, up, open, pending, op, flags, ghost, spent>>

EndHandover ==
  /\ Doing("EndHandover")
  /\ Persist([mem EXCEPT !.handover = None])
  /\ Then(<<>>)
  /\ UNCHANGED <<files, marker, store, up, open, pending, op, flags, ghost, now, spent>>

-----------------------------------------------------------------------------
(* Taking a server away: space_remove and Spaces::remove.                  *)

\* From here on its threads do not start a pass.
Hold ==
  /\ Doing("Hold")
  /\ held' = held \cup {Step.at}
  /\ Then(<<>>)
  /\ UNCHANGED <<disk, mem, up, open, pending, op, gone, running, stale, ghost, now, spent>>

\* Running::take: a pass that runs is waited for.
TakeRunning ==
  /\ Doing("TakeRunning")
  /\ running[Step.at] = "no"
  /\ running' = [running EXCEPT ![Step.at] = "op"]
  /\ Then(<<>>)
  /\ UNCHANGED <<disk, mem, up, open, pending, op, held, gone, stale, ghost, now, spent>>

\* A pass that does not finish in two minutes.
TakeTimesOut ==
  /\ Doing("TakeRunning")
  /\ running[Step.at] # "no"
  /\ todo' = <<Do("Failed")>>
  /\ UNCHANGED <<disk, mem, up, open, pending, op, flags, ghost, now, spent>>

\* Written down before the first entry moves.
Leave ==
  /\ Doing("Leave")
  /\ LET resumed == mem.leaving = Step.at IN
     /\ IF resumed THEN UNCHANGED <<mem, reg>> ELSE Persist([mem EXCEPT !.leaving = Step.at])
     /\ op' = [op EXCEPT !.taking = TRUE, !.moved = resumed]
     /\ unnoted' = unnoted \cup ({mem.leaving} \ {None, Step.at})
  /\ Then(<<>>)
  /\ UNCHANGED <<files, marker, store, up, open, pending, flags,
                 left, wiped, deleted, doc, chained, now, spent>>

\* Its hosts, as they are listed now, move one after the other; then its keys.
TakeHosts ==
  /\ Doing("TakeHosts")
  /\ LET ids  == SetToSeq({i \in Id : Live(Step.at, i)})
         rest == Other(Step.at)
         \* three steps per host
         takes == [n \in 1 .. 3 * Len(ids) |->
                     IF n % 3 = 0 THEN Do("Moved")
                     ELSE Moving(ids[(n + 2) \div 3], Step.at, rest)[n % 3]]
     IN Then(takes \o <<DoIn("TakeKeys", Step.at)>>)
  /\ UNCHANGED <<disk, mem, up, open, pending, op, flags, ghost, now, spent>>

Moved ==
  /\ Doing("Moved")
  /\ op' = [op EXCEPT !.moved = TRUE]
  /\ Then(<<>>)
  /\ UNCHANGED <<disk, mem, up, open, pending, flags, ghost, now, spent>>

\* key_in for every key that is left: copied where the other server lacks it.
TakeKeys ==
  /\ Doing("TakeKeys")
  /\ LET rest == Other(Step.at)
         lack == {g \in Gen : store[Step.at].key[g] = "live" /\ store[rest].key[g] # "live"}
     IN IF lack # {} /\ ~({Step.at, rest} \subseteq open)
        THEN todo' = Unwind /\ UNCHANGED store
        ELSE /\ lack # {} => FreshKeys # {}
             /\ Then(<<>>)
             /\ SetStore(rest, ImportKeys(store[rest], lack))
  /\ UNCHANGED <<reg, files, marker, mem, up, open, pending, op, flags, ghost, now, spent>>

\* Removing the main server makes the other one main.
HandOn ==
  /\ Doing("HandOn")
  /\ op' = [op EXCEPT !.taking = FALSE]
  /\ Then(IF mem.main = Step.at THEN Swapping(Other(Step.at)) ELSE <<>>)
  /\ UNCHANGED <<disk, mem, up, open, pending, flags, ghost, now, spent>>

Removed(s) ==
  [mem EXCEPT !.entries = @ \ {s}, !.journal = NoJournal,
              !.leaving = IF @ = s THEN None ELSE @]

Unregister ==
  /\ Doing("Unregister")
  /\ Persist(Removed(Step.at))
  /\ open' = open \ {Step.at}
  /\ chained' = chained \ {Step.at}
  /\ Then(<<>>)
  /\ UNCHANGED <<files, marker, store, up, pending, op, flags,
                 left, wiped, unnoted, deleted, doc, now, spent>>

RemoveFiles ==
  /\ Doing("RemoveFiles")
  /\ files' = files \ {Step.at}
  /\ SetStore(Step.at, EmptyStore)
  /\ left' = {e \in left : e[1] # Step.at}
  /\ Then(<<>>)
  /\ UNCHANGED <<reg, marker, mem, up, open, pending, op, flags,
                 wiped, unnoted, deleted, doc, chained, now, spent>>

\* sync::retire, before the pass flag is let go.
Retire ==
  /\ Doing("Retire")
  /\ gone' = gone \cup {Step.at}
  /\ Then(<<>>)
  /\ UNCHANGED <<disk, mem, up, open, pending, op, held, running, stale, ghost, now, spent>>

\* Nothing left it: it is as it was.
Unleave ==
  /\ Doing("Unleave")
  /\ Persist([mem EXCEPT !.leaving = None])
  /\ unnoted' = unnoted \cup {e[1] : e \in {f \in left : f[1] = op.space}}
  /\ Then(<<>>)
  /\ UNCHANGED <<files, marker, store, up, open, pending, op, flags,
                 left, wiped, deleted, doc, chained, now, spent>>

Released == [s \in Space |-> IF running[s] = "op" THEN "no" ELSE running[s]]

\* A command that failed: the server stays held while it is leaving.
Failed ==
  /\ Doing("Failed")
  /\ running' = Released
  /\ held' = IF op.kind # "remove" THEN held
             ELSE IF mem.leaving = op.space THEN held \cup {op.space} ELSE held \ {op.space}
  /\ op' = Idle
  /\ todo' = <<>>
  /\ UNCHANGED <<disk, mem, up, open, pending, gone, stale, ghost, now, spent>>

\* A command that came through.
Done ==
  /\ Doing("Done")
  /\ running' = Released
  /\ op' = Idle
  /\ chained' = IF stale # {} THEN chained
                ELSE chained \cup {mem.main} \cup {s \in mem.entries : store[s].kept = mem.main}
  /\ Then(<<>>)
  /\ UNCHANGED <<disk, mem, up, open, pending, held, gone, stale, left, wiped, unnoted, deleted, doc, now, spent>>

-----------------------------------------------------------------------------
(* A second server: prepare, register, discard.                            *)

\* begin_store: marked before it exists.
Mark ==
  /\ Doing("Mark")
  /\ marker' = marker \cup {Step.at}
  /\ Then(<<>>)
  /\ UNCHANGED <<reg, files, store, mem, up, open, pending, op, flags, ghost, now, spent>>

MakeFile ==
  /\ Doing("MakeFile")
  /\ files' = files \cup {Step.at}
  /\ pending' = Step.at
  /\ open' = open \cup {Step.at}
  /\ Then(<<>>)
  /\ UNCHANGED <<reg, marker, store, mem, up, op, flags, ghost, now, spent>>

Register ==
  /\ Doing("Register")
  /\ Persist([mem EXCEPT !.entries = @ \cup {Step.at}])
  /\ pending' = None
  /\ Then(<<>>)
  /\ UNCHANGED <<files, marker, store, up, open, op, flags, ghost, now, spent>>

\* settled, and the last step of discard.
Unmark ==
  /\ Doing("Unmark")
  /\ marker' = marker \ {Step.at}
  /\ Then(<<>>)
  /\ UNCHANGED <<reg, files, store, mem, up, open, pending, op, flags, ghost, now, spent>>

\* reseal_chain for one server: its key is kept under the main vault's.
Resealed(main, s) == [store[s] EXCEPT !.kept = main]

\* The end of register, which still holds `ops`: there is one other server.
Reseal ==
  /\ Doing("Reseal")
  /\ IF {mem.main, Step.at} \subseteq open
     THEN SetStore(Step.at, Resealed(mem.main, Step.at)) ELSE UNCHANGED store
  /\ Then(<<>>)
  /\ UNCHANGED <<reg, files, marker, mem, up, open, pending, op, flags, ghost, now, spent>>

\* discard, after the command has let go of the store.
Discard ==
  /\ Doing("Discard")
  /\ files' = files \ {Step.at}
  /\ SetStore(Step.at, EmptyStore)
  /\ pending' = None
  /\ open' = open \ {Step.at}
  /\ Then(<<>>)
  /\ UNCHANGED <<reg, marker, mem, up, op, flags, ghost, now, spent>>

-----------------------------------------------------------------------------
(* What the user asks for.                                                 *)

Starts(kind, s, steps) ==
  /\ up /\ todo = <<>> /\ spent.ops < MaxOps
  /\ op' = [Idle EXCEPT !.kind = kind, !.space = s]
  /\ todo' = steps \o <<Do("Done")>>
  /\ Spend("ops")
  /\ UNCHANGED <<disk, mem, up, open, pending, flags, left, wiped, unnoted, doc, chained, now>>

Asks(kind, s, steps) == Starts(kind, s, steps) /\ UNCHANGED deleted

\* move_host_to, save_host with another server.
AskMove(i, to) ==
  /\ \E e \in Listed : e[2] = i
  /\ to \in mem.entries /\ HostSpace(i) # to
  /\ Asks("move", to, Moving(i, HostSpace(i), to))

\* space_make_main: neither server syncs while the records change hands.
AskMakeMain(s) ==
  /\ s \in mem.entries \ {mem.main}
  /\ {mem.main, s} \subseteq open
  /\ Asks("main", s, <<DoIn("TakeRunning", mem.main), DoIn("TakeRunning", s)>> \o Swapping(s))

\* space_remove: its entries go to the other server, or away with it.
AskRemove(s, keep) ==
  /\ s \in mem.entries /\ Other(s) # None
  /\ keep \/ mem.main = s => {s, Other(s)} \subseteq open
  /\ deleted' = IF keep THEN deleted ELSE deleted \cup {i[1] : i \in {k \in Id : Live(s, k)}}
  /\ Starts("remove", s,
       <<DoIn("Hold", s), DoIn("TakeRunning", s)>>
       \o (IF keep THEN <<DoIn("Leave", s), DoIn("TakeHosts", s)>> ELSE <<>>)
       \o <<DoIn("HandOn", s), DoIn("Unregister", s), DoIn("RemoveFiles", s),
            DoIn("Retire", s)>>)

\* target with begin, under can_add; the id is a new one.
AskAdd(s) ==
  /\ pending = None /\ Cardinality(mem.entries) = 1 /\ mem.main \in open
  /\ s \notin files \cup mem.entries \cup reg.entries \cup gone \cup marker \cup {First}
  /\ Asks("add", s, <<DoIn("Mark", s), DoIn("MakeFile", s)>>)

\* adopt_new; or the user gives up, discard_new.
AskAdopt ==
  /\ pending # None
  /\ Asks("adopt", pending, <<DoIn("Register", pending), DoIn("Unmark", pending), DoIn("Reseal", pending)>>)

AskDiscard ==
  /\ pending # None
  /\ Asks("discard", pending, <<DoIn("Discard", pending), DoIn("Unmark", pending)>>)

\* delete_host, one transaction in the store the host is found in.
DeleteHost(i) ==
  /\ up /\ todo = <<>> /\ spent.ops < MaxOps
  /\ \E e \in Listed : e[2] = i
  /\ SetStore(HostSpace(i), DropHost(store[HostSpace(i)], i))
  /\ deleted' = deleted \cup {i[1]}
  /\ Spend("ops")
  /\ UNCHANGED <<reg, files, marker, mem, up, open, pending, op, todo, flags,
                 left, wiped, unnoted, doc, chained, now>>

\* Key bindings are only ever written in the main store; 0 takes them back.
\* Written while the main server changes, or while the registry on disk already
\* names the other one, they may be the ones that are cleared.  Taken back while
\* another store holds a copy, which a change of the main server left there when
\* it did not get through, they may come back: export_personal leaves out an empty
\* record.
EditDoc(v) ==
  /\ up /\ spent.ops < MaxOps
  /\ v \in {0, spent.ops + 1}
  /\ SetStore(mem.main, [store[mem.main] EXCEPT !.doc = [val |-> v, at |-> now]])
  /\ doc' = IF \/ op.kind \in {"main", "remove"} \/ reg.main # mem.main
               \/ v = 0 /\ \E s \in reg.entries \ {mem.main} : store[s].doc.val # 0
            THEN None ELSE v
  /\ now' = now + 1
  /\ Spend("ops")
  /\ UNCHANGED <<reg, files, marker, mem, up, open, pending, op, todo, flags,
                 left, wiped, unnoted, deleted, chained>>

\* The main vault opens, with its password or the key the system keeps; a kept
\* key that the system cannot open is forgotten.
Unlock ==
  /\ up /\ mem.main \notin open
  /\ open' = open \cup {mem.main}
  /\ \/ UNCHANGED store
     \/ SetStore(mem.main, Unchained(store[mem.main], "os"))
  /\ UNCHANGED <<reg, files, marker, mem, up, pending, op, todo, flags, ghost, now, spent>>

\* space_unlock: a server's own password.
UnlockSpace(s) ==
  /\ up /\ s \in mem.entries \ open /\ s # mem.main
  /\ open' = open \cup {s}
  /\ UNCHANGED <<disk, mem, up, pending, op, todo, flags, ghost, now, spent>>

\* lock_all, at any time.  A swap that is under way then leaves the old main
\* server's key where it was, and its own password is needed.
Lock ==
  /\ up /\ spent.ops < MaxOps /\ open # {}
  /\ open' = open \ mem.entries
  /\ chained' = IF op.kind \in {"main", "remove"} THEN {} ELSE chained
  /\ Spend("ops")
  /\ UNCHANGED <<disk, mem, up, pending, op, todo, flags, left, wiped, unnoted, deleted, doc, now>>

-----------------------------------------------------------------------------
(* rechain: unlock_chain, then reseal_chain, which commands call at any time,  *)
(* any number of them at once.  Each half reads which server is main, then     *)
(* which others there are, then writes to their stores one by one, all without *)
(* `ops`: a call may write under a main server, and to the store of one, of    *)
(* before a swap.  A write that fails is one that does not happen.             *)

MayChain(m, s) ==
  /\ up /\ s \in mem.entries
  /\ m \in stale \/ (m = mem.main /\ s # m)
  /\ m \in open

\* unlock_remembered_vault under m's key: what does not open is forgotten.
RechainUnlock(m, s) ==
  /\ MayChain(m, s) /\ s \notin open
  /\ SetStore(s, Unchained(store[s], m))
  /\ open' = IF store[s].kept = m THEN open \cup {s} ELSE open
  /\ UNCHANGED <<reg, files, marker, mem, up, pending, op, todo, flags, ghost, now, spent>>

RechainSeal(m, s) ==
  /\ MayChain(m, s) /\ s \in open
  /\ SetStore(s, Resealed(m, s))
  /\ UNCHANGED <<reg, files, marker, mem, up, open, pending, op, todo, flags, ghost, now, spent>>

\* The calls that had read this main server have ended.
RechainEnds(m) ==
  /\ m \in stale
  /\ stale' = stale \ {m}
  /\ UNCHANGED <<disk, mem, up, open, pending, op, todo, held, gone, running, ghost, now, spent>>

-----------------------------------------------------------------------------
(* Passes of the worker or asked for, next to everything else: pass().     *)

PassBegin(s) ==
  /\ up /\ s \in mem.entries \cap open
  /\ running[s] = "no"
  /\ running' = [running EXCEPT ![s] = "pass"]
  /\ UNCHANGED <<disk, mem, up, open, pending, op, todo, held, gone, stale, ghost, now, spent>>

PassCheck(s) ==
  /\ up /\ running[s] = "pass"
  /\ running' = [running EXCEPT ![s] = IF s \in gone \cup held THEN "no" ELSE "going"]
  /\ UNCHANGED <<disk, mem, up, open, pending, op, todo, held, gone, stale, ghost, now, spent>>

\* Another device deleted a host of this server.
PassPull(s, i) ==
  /\ up /\ running[s] = "going" /\ spent.ops < MaxOps
  /\ Live(s, i)
  /\ SetStore(s, DropHost(store[s], i))
  /\ deleted' = deleted \cup {i[1]}
  /\ Spend("ops")
  /\ UNCHANGED <<reg, files, marker, mem, up, open, pending, op, todo, flags,
                 left, wiped, unnoted, doc, chained, now>>

\* What is deleted here is deleted on the server and its other devices.
PassEnd(s) ==
  /\ up /\ running[s] = "going"
  /\ running' = [running EXCEPT ![s] = "no"]
  /\ wiped' = wiped \cup {e \in left : e[1] = s /\ store[s].host[e[2]] = "dead"}
  /\ UNCHANGED <<disk, mem, up, open, pending, op, todo, held, gone, stale,
                 left, unnoted, deleted, doc, chained, now, spent>>

-----------------------------------------------------------------------------
(* Faults.                                                                 *)

Crash ==
  /\ spent.crashes < MaxCrashes
  /\ up' = FALSE /\ open' = {} /\ pending' = None
  /\ op' = Idle /\ todo' = <<Do("Open")>>
  /\ held' = {} /\ gone' = {} /\ running' = [s \in Space |-> "no"] /\ stale' = {}
  /\ Spend("crashes")
  /\ UNCHANGED <<disk, mem, ghost, now>>

\* Mutant of Swept: a marker alone decides.
SweptByMarker == marker

\* sweep_leftovers: marked, and not in the registry.
Swept == marker \ reg.entries

\* Spaces::open reads the registry, opens every store it names, which makes the
\* file of one that has none, and clears away what was never set up.
Opened(swept, cleared) ==
  /\ mem' = [reg EXCEPT
       !.journal  = IF @ # NoJournal /\ @.from # @.to /\ {@.from, @.to} \subseteq reg.entries
                    THEN @ ELSE NoJournal,
       !.handover = IF @ # reg.main /\ @ \in reg.entries THEN @ ELSE None,
       !.leaving  = IF @ \in reg.entries THEN @ ELSE None]
  /\ files' = (files \cup reg.entries) \ swept
  /\ store' = [s \in Space |-> IF s \in swept THEN EmptyStore ELSE store[s]]
  /\ marker' = marker \ cleared
  /\ left' = {e \in left : e[1] \notin swept}
  /\ todo' = <<Do("Settle"), Do("Recover"), Do("Ready")>>

Open ==
  /\ Doing("Open")
  /\ Opened(Swept, marker)
  /\ UNCHANGED <<reg, up, open, pending, op, flags, wiped, unnoted, deleted, doc, chained, now, spent>>

\* Mutant of HeldAtStart: a start does not ask whether a server is leaving.
HeldAnew == {}

\* start_space: a removal that stopped half way keeps the server held.
HeldAtStart == {mem.leaving} \ {None}

Ready ==
  /\ Doing("Ready")
  /\ up' = TRUE
  /\ held' = HeldAtStart
  /\ Then(<<>>)
  /\ UNCHANGED <<disk, mem, open, pending, op, gone, running, stale, ghost, now, spent>>

\* A write to a store fails, or one of a file that is made or removed, and nothing
\* was written: the command ends, or goes on where the code only logs it.
FailWrite ==
  /\ up \/ Doing("Unstage")
  /\ LET do == Step.do IN
     \/ /\ do \in {"DropHost", "DropKey", "DropKnown", "TakeKeys", "Personal",
                   "Promote", "ClearDoc"}
        /\ todo' = Unwind
     \/ /\ do = "Import"  \* the journal goes too
        /\ todo' = <<Do("Clear")>> \o Unwind
     \/ /\ do \in {"StageMain", "Stage"}
        /\ todo' = Each("Unstage", mem.entries) \o Unwind
     \/ /\ do = "Mark"
        /\ todo' = <<Do("Failed")>>
     \/ /\ do \in {"Unstage", "RemoveFiles", "Unmark", "Reseal"}
        /\ Then(<<>>)
  /\ UNCHANGED <<disk, mem, up, open, pending, op, flags, ghost, now>>

\* A write of the registry fails, and what stays in memory.
FailPersist ==
  /\ up
  /\ LET do == Step.do IN
     \/ /\ do = "Note"
        /\ mem' = [mem EXCEPT !.journal = Step.j] /\ PersistFails(mem')
        /\ todo' = Unwind /\ UNCHANGED unnoted
     \/ /\ do = "Clear"
        /\ mem' = [mem EXCEPT !.journal = NoJournal] /\ PersistFails(mem')
        /\ todo' = Unwind /\ UNCHANGED unnoted
     \/ /\ do = "Swap"
        /\ mem' = [mem EXCEPT !.handover = None] /\ PersistFails(Swapped(Step.at))
        /\ todo' = Each("Unstage", mem.entries) \o Unwind /\ UNCHANGED unnoted
     \/ /\ do = "EndHandover"
        /\ mem' = [mem EXCEPT !.handover = None] /\ PersistFails(mem')
        /\ todo' = Unwind /\ UNCHANGED unnoted
     \/ /\ do = "Leave" /\ mem.leaving # Step.at  \* another server's note goes with it
        /\ mem' = [mem EXCEPT !.leaving = None]
        /\ PersistFails([mem EXCEPT !.leaving = Step.at])
        /\ unnoted' = unnoted \cup ({mem.leaving} \ {None})
        /\ todo' = <<Do("Failed")>>
     \/ /\ do = "Unleave"
        /\ mem' = [mem EXCEPT !.leaving = None] /\ PersistFails(mem')
        /\ unnoted' = unnoted \cup {e[1] : e \in {f \in left : f[1] = op.space}}
        /\ Then(<<>>)
     \/ /\ do = "Unregister"
        /\ mem' = Removed(Step.at) /\ PersistFails(mem')
        /\ todo' = <<Do("Failed")>> /\ UNCHANGED unnoted
     \/ /\ do = "Register"  \* and adopt_new throws the store away
        /\ PersistFails([mem EXCEPT !.entries = @ \cup {Step.at}])
        /\ todo' = <<DoIn("Discard", Step.at), DoIn("Unmark", Step.at), Do("Failed")>>
        /\ UNCHANGED <<mem, unnoted>>
  /\ UNCHANGED <<files, marker, store, up, open, pending, op, flags,
                 left, wiped, deleted, doc, chained, now>>

\* begin_store has written the marker, and the store does not open.
FailMake ==
  /\ Doing("MakeFile")
  /\ files' \in {files, files \cup {Step.at}}
  /\ todo' = <<Do("Failed")>>
  /\ UNCHANGED <<reg, marker, store, mem, up, open, pending, op, flags, ghost, now>>

\* discard lets go of the store, and its files stay.
FailDiscard ==
  /\ Doing("Discard")
  /\ pending' = None
  /\ open' = open \ {Step.at}
  /\ Then(<<>>)
  /\ UNCHANGED <<disk, mem, up, op, flags, ghost, now>>

\* Files or markers that a start cannot remove.
FailSweep ==
  /\ Doing("Open")
  /\ \E swept \in SUBSET Swept, cleared \in SUBSET marker : Opened(swept, cleared)
  /\ UNCHANGED <<reg, up, open, pending, op, flags, wiped, unnoted, deleted, doc, chained, now>>

\* Any other failure during a start ends it, as a crash does.
Fail ==
  /\ spent.errors < MaxErrors
  /\ todo # <<>>
  /\ FailWrite \/ FailPersist \/ FailMake \/ FailDiscard \/ FailSweep
  /\ Spend("errors")

-----------------------------------------------------------------------------
\* One server, or one more that was set up and is empty yet.
Init ==
  \E entries \in {{First, s} : s \in Space}, seal \in {"os", "none"} :
  /\ reg = [main |-> First, entries |-> entries, journal |-> NoJournal,
            handover |-> None, leaving |-> None]
  /\ mem = reg
  /\ files = entries /\ marker = {}
  /\ store = [s \in Space |->
       IF s # First THEN [EmptyStore EXCEPT !.kept = IF s \in entries THEN First ELSE "none"]
       ELSE [EmptyStore EXCEPT
               !.host  = [i \in Id |-> IF i[2] = 1 THEN "live" ELSE "none"],
               !.uses  = [i \in Id |-> IF i[2] = 1 /\ i[1] \in Keyed THEN 1 ELSE 0],
               !.key   = [g \in Gen |-> IF g = 1 /\ Keyed # {} THEN "live" ELSE "none"],
               !.known = TRUE,
               !.kept  = seal]]
  /\ up = TRUE /\ open = entries /\ pending = None
  /\ op = Idle /\ todo = <<>>
  /\ held = {} /\ gone = {} /\ running = [s \in Space |-> "no"] /\ stale = {}
  /\ left = {} /\ wiped = {} /\ unnoted = {} /\ deleted = {} /\ doc = 0 /\ chained = entries
  /\ now = 1
  /\ spent = [ops |-> 0, crashes |-> 0, errors |-> 0]

Steps ==
  \/ Recover \/ Begin \/ Note \/ Import \/ Drop \/ Clear
  \/ Personal \/ StageMain \/ StageOther \/ Unstage \/ Swap \/ Settle \/ SettleStep \/ EndHandover
  \/ Hold \/ TakeRunning \/ TakeTimesOut \/ Leave \/ TakeHosts \/ Moved \/ TakeKeys \/ HandOn
  \/ Unregister \/ RemoveFiles \/ Retire \/ Unleave \/ Failed \/ Done
  \/ Mark \/ MakeFile \/ Register \/ Unmark \/ Reseal \/ Discard
  \/ Open \/ Ready

User ==
  \/ \E i \in Id : DeleteHost(i) \/ \E s \in Space : AskMove(i, s)
  \/ \E s \in Space : AskMakeMain(s) \/ AskAdd(s) \/ UnlockSpace(s)
                      \/ \E keep \in BOOLEAN : AskRemove(s, keep)
  \/ AskAdopt \/ AskDiscard
  \/ \E v \in 0 .. MaxOps : EditDoc(v)
  \/ Unlock \/ Lock

Rechain ==
  \E m \in Space : RechainEnds(m) \/ \E s \in Space : RechainUnlock(m, s) \/ RechainSeal(m, s)

Passes ==
  \E s \in Space : PassBegin(s) \/ PassCheck(s) \/ PassEnd(s) \/ \E i \in Id : PassPull(s, i)

Next == Steps \/ User \/ Rechain \/ Passes \/ Crash \/ Fail

Spec == Init /\ [][Next]_vars

-----------------------------------------------------------------------------
(* Properties.                                                             *)

Here(h) == {e \in Listed : e[2][1] = h}

\* A host nobody deleted is in the list, once, whatever moves, crashes or
\* fails (list_hosts; "never lost and never there twice", move_between).
ListedOnce ==
  up => \A h \in Host \ deleted :
          /\ Cardinality(Here(h)) = 1
          /\ \A e \in Here(h) : HostSpace(e[2]) = e[1]

\* A listed host can be used where it is listed: the key it logs in with and
\* the host key it was trusted with came along and were not taken from under it
\* (drop_moved_host leaves what another host needs).
HostIsWhole ==
  up => \A e \in Listed :
          LET st == store[e[1]] IN
          /\ e[2][1] \in Keyed => st.uses[e[2]] # 0 /\ st.key[st.uses[e[2]]] = "live"
          /\ st.known

\* On disk a host is never gone: between any two writes of a move, some store
\* the registry names has it.
OnDiskSomewhere ==
  \A h \in Host \ deleted :
    \E s \in reg.entries \cap files : \E g \in Gen : Live(s, <<h, g>>)

\* A move that is over leaves nothing behind: no key that only a host used that
\* has left, even when the move was stopped after the host went (drop_moved_host
\* is asked again by recover).
NothingLeftBehind ==
  up /\ todo = <<>> /\ mem.journal = NoJournal =>
    \A s \in mem.entries : \A g \in Gen :
      LET users == {i \in Id : store[s].uses[i] = g} IN
      /\ users # {} /\ {i[1] : i \in users} \cap deleted = {}
      /\ \A i \in users : store[s].host[i] = "dead"
      => store[s].key[g] # "live"

\* A host that left a store because its server is taken from this device is not
\* deleted for the server's other devices (held, gone, leaving).
RemovalIsLocal == wiped = {}

\* The same for a server whose note `leaving` is still there: it was neither taken
\* back nor written over by the removal of another server.
HeldWhileLeaving == \A e \in wiped : e[1] \in unnoted

\* Wherever a crash cuts it short, a server the main password has opened is still
\* opened by it once the swap is over (make_main, settle_handover).  It is not said
\* of a swap that fell between what a rechain had read and what it wrote (`Swap`),
\* and not after a write that failed.
OnePassword ==
  up /\ todo = <<>> /\ mem.handover = None /\ spent.errors = 0 =>
    \A s \in (chained \cap mem.entries) \ {mem.main} : store[s].kept = mem.main

\* The main server has the key bindings the user last left, or has none when the
\* user last took them back, whichever server was main when they were written
\* (import_personal, clear_personal).  `EditDoc` says when nothing is said of them.
PersonalIsKept ==
  up /\ op.kind \notin {"main", "remove"} => doc \in {None, store[mem.main].doc.val}

\* Sweeping and discarding never take the store of a server in use, whichever write
\* failed and whatever marker stayed behind; and as long as no write failed, never
\* one the registry on disk names.
FilesMatch ==
  /\ up => mem.entries \subseteq files
  /\ spent.errors = 0 => reg.entries \subseteq files
=============================================================================
