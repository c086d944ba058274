------------------------------- MODULE Stream --------------------------------
(***************************************************************************)
(* A session's output on its way to the screen:                             *)
(*                                                                          *)
(*   reader ->  queue -> batcher -> IPC channel -> driver -> xterm.js       *)
(*                          ^                        |                      *)
(*                          +---- acknowledgements --+                      *)
(*                                                                          *)
(*   - the reader of a channel:  crates/uwussh-core/src/{ssh,pty}.rs        *)
(*   - run_batcher:              crates/uwussh-core/src/stream.rs           *)
(*   - FlowControl:              crates/uwussh-core/src/flow.rs             *)
(*   - the driver of a terminal: apps/desktop/src/lib/driver.ts             *)
(*                                                                          *)
(* Output is counted, not spelled out.  Atomic loads and stores, the wake-  *)
(* up of the batcher and every callback of the page are steps of their own. *)
(***************************************************************************)
EXTENDS Integers, Sequences, FiniteSets, Bags, Folds

CONSTANTS
  HighWatermark,   \* HIGH_WATERMARK
  LowWatermark,    \* LOW_WATERMARK
  AckChunk,        \* ACK_CHUNK
  MaxFrame,        \* MAX_FRAME_BYTES
  Capacity,        \* CHANNEL_CAPACITY
  AckRetries,      \* ACK_RETRIES
  Chunk,           \* the sizes a read may have
  Total,           \* bound: how much the program writes
  MaxFailures,     \* bound: acknowledgements that fail
  MayDetach        \* whether the page lets go of the session

ASSUME StreamAssumption ==
  /\ {HighWatermark, LowWatermark, AckChunk, MaxFrame, Capacity} \subseteq Nat \ {0}
  /\ LowWatermark <= HighWatermark
  /\ AckChunk < LowWatermark     \* the assertion in flow.rs
  /\ AckRetries \in Nat
  /\ Chunk \subseteq Nat \ {0} /\ Chunk # {}
  /\ Total \in Nat
  /\ MaxFailures \in Nat
  /\ MayDetach \in BOOLEAN

VARIABLES
  left,      \* what the program has still to write
  queue,     \* the chunks between reader and batcher
  open,      \* the reader holds its end of the queue
  batcher,   \* [pc, frame, ended]: run_batcher
  unacked,   \* FlowControl::unacked
  closing,   \* close_session: how far it has come
  woken,     \* the batcher's wake-up has been triggered
  ipc,       \* frames in the webview's queue, 0 for the end of the stream
  page,      \* what the page has of the session
  parsing,   \* chunks handed to xterm.js
  written,   \* what xterm.js has parsed, or dropped
  ended,     \* the page has been told that the stream ended
  pending,   \* pendingAck
  timer,     \* ackTimer is set
  failures,  \* ackFailures
  acks,      \* acknowledgements on their way, a bag
  failed,    \* how many failed so far, for the bound
  lost       \* the bytes whose acknowledgement the driver has given up

engine == <<left, queue, open, batcher, unacked, closing, woken>>
driver == <<page, parsing, written, ended, pending, timer, failures>>
vars == <<engine, driver, ipc, acks, failed, lost>>

\* The sum of a function's values, or of a sequence's elements.
Sum(f) == MapThenFoldSet(LAMBDA a, b : a + b, 0, LAMBDA e : f[e],
                         LAMBDA S : CHOOSE e \in S : TRUE, DOMAIN f)

\* Where the batcher stands: see the actions of that name.
Step == {"check", "enable", "recheck", "await", "park", "gate", "recv", "fill", "count", "send",
         "finish", "done"}

\* An acknowledgement: on its way, subtracted, and with the waiters notified.
Ack == [bytes : Nat, at : {"going", "counted", "notified"}]

\* Closing a session: asked for, the program told, the flag set, all notified.
Closing == {"no", "asked", "told", "set", "done"}

\* FlowControl::is_closed.
closed == closing \in {"set", "done"}

TypeOK ==
  /\ left \in 0 .. Total
  /\ queue \in Seq(Chunk) /\ Len(queue) <= Capacity
  /\ open \in BOOLEAN
  /\ batcher \in [pc : Step, frame : Nat, ended : BOOLEAN]
  /\ unacked \in Nat
  /\ closing \in Closing /\ woken \in BOOLEAN
  /\ ipc \in Seq(Nat)
  /\ page \in {"starting", "attached", "left", "detached"}
  /\ parsing \in Seq(Nat \ {0})
  /\ written \in 0 .. Total
  /\ ended \in BOOLEAN
  /\ pending \in Nat
  /\ timer \in BOOLEAN
  /\ failures \in 0 .. MaxFailures
  /\ IsABag(acks) /\ IsFiniteSet(BagToSet(acks)) /\ BagToSet(acks) \subseteq Ack
  /\ failed \in 0 .. MaxFailures
  /\ lost \in Nat

Init ==
  /\ left = Total
  /\ queue = <<>>
  /\ open = TRUE
  /\ batcher = [pc |-> "check", frame |-> 0, ended |-> FALSE]
  /\ unacked = 0
  /\ closing = "no"
  /\ woken = FALSE
  /\ ipc = <<>>
  /\ page = "starting"
  /\ parsing = <<>>
  /\ written = 0
  /\ ended = FALSE
  /\ pending = 0
  /\ timer = FALSE
  /\ failures = 0
  /\ acks = EmptyBag
  /\ failed = 0
  /\ lost = 0

At(step) == batcher.pc = step
Go(step) == batcher' = [batcher EXCEPT !.pc = step]

------------------------------------------------------------------------------
(* The reader: waits while the queue is full                                *)

Read ==
  /\ open
  /\ \E n \in Chunk :
       /\ n <= left
       /\ left' = left - n
       /\ IF At("done")            \* nobody receives any more
          THEN open' = FALSE /\ UNCHANGED queue
          ELSE Len(queue) < Capacity /\ queue' = Append(queue, n) /\ UNCHANGED open
  /\ UNCHANGED <<batcher, unacked, closing, woken, driver, ipc, acks, failed, lost>>

\* The program is done, the connection is gone, or closing has cut it.
ReadEnd ==
  /\ open
  /\ open' = FALSE
  /\ UNCHANGED <<left, queue, batcher, unacked, closing, woken, driver, ipc, acks, failed, lost>>

------------------------------------------------------------------------------
(* FlowControl::wait_for_capacity                                           *)

Check ==
  /\ At("check")
  /\ Go(IF unacked <= HighWatermark THEN "gate" ELSE "enable")
  /\ UNCHANGED <<left, queue, open, unacked, closing, woken, driver, ipc, acks, failed, lost>>

\* Interest is registered before the counter is looked at again.
Enable ==
  /\ At("enable")
  /\ Go("recheck")
  /\ woken' = FALSE
  /\ UNCHANGED <<left, queue, open, unacked, closing, driver, ipc, acks, failed, lost>>

Recheck ==
  /\ At("recheck")
  /\ Go(IF closed \/ unacked <= LowWatermark THEN "gate" ELSE "await")
  /\ UNCHANGED <<left, queue, open, unacked, closing, woken, driver, ipc, acks, failed, lost>>

Await ==
  /\ At("await")
  /\ Go("park")
  /\ UNCHANGED <<left, queue, open, unacked, closing, woken, driver, ipc, acks, failed, lost>>

Wake ==
  /\ At("park")
  /\ woken
  /\ Go("enable")
  /\ UNCHANGED <<left, queue, open, unacked, closing, woken, driver, ipc, acks, failed, lost>>

\* Mutant of Notify: interest is registered only by waiting, without enable().
NotifyParked == woken' = (woken \/ At("park"))

\* Notify::notify_waiters: reaches a batcher that has registered.
Notify == woken' = (woken \/ At("recheck") \/ At("await") \/ At("park"))

------------------------------------------------------------------------------
(* run_batcher                                                              *)

Gate ==
  /\ At("gate")
  /\ Go(IF closed THEN "finish" ELSE "recv")
  /\ UNCHANGED <<left, queue, open, unacked, closing, woken, driver, ipc, acks, failed, lost>>

\* The first chunk of a frame, or the end of the queue.
Receive ==
  /\ At("recv")
  /\ \/ /\ queue # <<>>
        /\ queue' = Tail(queue)
        /\ batcher' = [batcher EXCEPT !.pc = "fill", !.frame = Head(queue)]
     \/ /\ queue = <<>> /\ ~open
        /\ Go("finish")
        /\ UNCHANGED queue
  /\ UNCHANGED <<left, open, unacked, closing, woken, driver, ipc, acks, failed, lost>>

\* Mutant of Fill: the end of the source ends the batcher, frame and all.
FillAndDrop ==
  /\ At("fill")
  /\ batcher.frame < MaxFrame
  /\ \/ /\ queue # <<>>
        /\ queue' = Tail(queue)
        /\ batcher' = [batcher EXCEPT !.frame = @ + Head(queue)]
     \/ /\ queue = <<>> /\ ~open
        /\ batcher' = [batcher EXCEPT !.pc = "finish", !.frame = 0]
        /\ UNCHANGED queue
  /\ UNCHANGED <<left, open, unacked, closing, woken, driver, ipc, acks, failed, lost>>

\* The chunks that come in while the frame is collected.
Fill ==
  /\ At("fill")
  /\ batcher.frame < MaxFrame
  /\ \/ /\ queue # <<>>
        /\ queue' = Tail(queue)
        /\ batcher' = [batcher EXCEPT !.frame = @ + Head(queue)]
     \/ /\ queue = <<>> /\ ~open
        /\ batcher' = [batcher EXCEPT !.pc = "count", !.ended = TRUE]
        /\ UNCHANGED queue
  /\ UNCHANGED <<left, open, unacked, closing, woken, driver, ipc, acks, failed, lost>>

\* FRAME_INTERVAL is over, or the frame is full.
FrameDone ==
  /\ At("fill")
  /\ Go("count")
  /\ UNCHANGED <<left, queue, open, unacked, closing, woken, driver, ipc, acks, failed, lost>>

\* Mutant of Count: a frame is not counted.
CountNothing ==
  /\ At("count")
  /\ Go("send")
  /\ UNCHANGED <<left, queue, open, unacked, closing, woken, driver, ipc, acks, failed, lost>>

\* on_sent, before the frame is handed over.
Count ==
  /\ At("count")
  /\ unacked' = unacked + batcher.frame
  /\ Go("send")
  /\ UNCHANGED <<left, queue, open, closing, woken, driver, ipc, acks, failed, lost>>

\* The sink fails once the page is gone.
Send ==
  /\ At("send")
  /\ \/ /\ ipc' = Append(ipc, batcher.frame)
        /\ batcher' = [batcher EXCEPT !.frame = 0,
                                      !.pc = IF batcher.ended THEN "finish" ELSE "check"]
     \/ /\ page = "detached"
        /\ batcher' = [batcher EXCEPT !.frame = 0, !.pc = "finish"]
        /\ UNCHANGED ipc
  /\ UNCHANGED <<left, queue, open, unacked, closing, woken, driver, acks, failed, lost>>

\* sink.finish: the receiving end of the queue goes with the batcher.
Finish ==
  /\ At("finish")
  /\ Go("done")
  /\ ipc' = Append(ipc, 0)
  /\ queue' = <<>>
  /\ UNCHANGED <<left, open, unacked, closing, woken, driver, acks, failed, lost>>

------------------------------------------------------------------------------
(* The driver                                                               *)

Mine == page \in {"starting", "attached"}

\* flushAck, with p still to be acknowledged; without an id it is held back.
FlushAck(known, p) ==
  /\ timer' = FALSE
  /\ IF known /\ p # 0
     THEN /\ acks' = acks (+) SetToBag({[bytes |-> p, at |-> "going"]})
          /\ pending' = 0
     ELSE pending' = p /\ UNCHANGED acks

\* spawn returned: output may have arrived before the id did.
Attach ==
  /\ page = "starting"
  /\ page' = "attached"
  /\ FlushAck(TRUE, pending)
  /\ UNCHANGED <<engine, ipc, parsing, written, ended, failures, failed, lost>>

\* Mutant of Superseded: the session whose id came too late is not closed.
SupersededKept ==
  /\ page = "left"
  /\ page' = "detached"
  /\ UNCHANGED <<engine, ipc, parsing, written, ended, pending, timer, failures, acks, failed, lost>>

\* ... or the page has moved on meanwhile.
Superseded ==
  /\ page = "left"
  /\ page' = "detached"
  /\ closing' = "asked"
  /\ UNCHANGED <<left, queue, open, batcher, unacked, woken, ipc, parsing, written, ended, pending, timer, failures, acks, failed, lost>>

Detach ==
  /\ MayDetach
  /\ Mine
  /\ page' = IF page = "attached" THEN "detached" ELSE "left"
  /\ closing' = IF page = "attached" THEN "asked" ELSE closing
  /\ pending' = 0
  /\ timer' = FALSE
  /\ failures' = 0
  /\ UNCHANGED <<left, queue, open, batcher, unacked, woken, ipc, parsing, written, ended,
                 acks, failed, lost>>

\* onData, and the end marker; a write that throws is discarded, its credit is not.
OnData ==
  /\ ipc # <<>>
  /\ ipc' = Tail(ipc)
  /\ LET size == Head(ipc)
     IN  \/ ~Mine /\ UNCHANGED <<parsing, written, ended, pending, timer>>
         \/ /\ Mine /\ size = 0
            /\ ended' = TRUE
            /\ UNCHANGED <<parsing, written, pending, timer>>
         \/ /\ Mine /\ size # 0
            /\ parsing' = Append(parsing, size)
            /\ UNCHANGED <<written, ended, pending, timer>>
         \/ /\ Mine /\ size # 0
            /\ written' = written + size
            /\ pending' = pending + size
            /\ timer' = TRUE
            /\ UNCHANGED <<parsing, ended>>
  /\ UNCHANGED <<engine, page, failures, acks, failed, lost>>

\* xterm.js has parsed a chunk.
OnParsed ==
  /\ parsing # <<>>
  /\ parsing' = Tail(parsing)
  /\ LET p == pending + Head(parsing)
     IN  \/ ~Mine /\ UNCHANGED <<written, pending, timer, acks>>
         \/ /\ Mine
            /\ written' = written + Head(parsing)
            /\ IF p >= AckChunk
               THEN FlushAck(page = "attached", p)
               ELSE pending' = p /\ timer' = TRUE /\ UNCHANGED acks
  /\ UNCHANGED <<engine, ipc, page, ended, failures, failed, lost>>

\* The idle timer or the retry timer.
TimerFires ==
  /\ timer
  /\ FlushAck(page = "attached", pending)
  /\ UNCHANGED <<engine, ipc, page, parsing, written, ended, failures, failed, lost>>

------------------------------------------------------------------------------
(* Acknowledgements and closing, as the engine gets them                    *)

Move(a, at) == acks' = (acks (-) SetToBag({a})) (+) SetToBag({[a EXCEPT !.at = at]})

\* Mutant of AckCounted: a plain subtraction.
AckCountedPlain ==
  /\ \E a \in BagToSet(acks) :
       /\ a.at = "going"
       /\ unacked' = unacked - a.bytes
       /\ Move(a, "counted")
  /\ UNCHANGED <<left, queue, open, batcher, closing, woken, driver, ipc, failed, lost>>

\* FlowControl::ack: subtract without wrapping, even if the session is closed by
\* now, as long as it was found before ...
AckCounted ==
  /\ \E a \in BagToSet(acks) :
       /\ a.at = "going"
       /\ unacked' = IF a.bytes >= unacked THEN 0 ELSE unacked - a.bytes
       /\ Move(a, "counted")
  /\ UNCHANGED <<left, queue, open, batcher, closing, woken, driver, ipc, failed, lost>>

\* ... and notify.
AckNotified ==
  /\ \E a \in BagToSet(acks) :
       /\ a.at = "counted"
       /\ Move(a, "notified")
  /\ Notify
  /\ UNCHANGED <<left, queue, open, batcher, unacked, closing, driver, ipc, failed, lost>>

\* The driver hears that it arrived.
AckAnswered ==
  /\ \E a \in BagToSet(acks) :
       /\ a.at = "notified"
       /\ acks' = acks (-) SetToBag({a})
  /\ failures' = 0
  /\ UNCHANGED <<engine, ipc, page, parsing, written, ended, pending, timer, failed, lost>>

\* Mutant of AckFailed: an acknowledgement that failed is forgotten.
AckForgotten ==
  /\ failed < MaxFailures \/ ~Mine
  /\ failed' = IF Mine THEN failed + 1 ELSE failed
  /\ \E a \in BagToSet(acks) :
       /\ a.at # "counted"
       /\ acks' = acks (-) SetToBag({a})
  /\ UNCHANGED <<engine, driver, ipc, lost>>

\* The driver hears that it failed: it was lost, the session is unknown, or only
\* the answer was lost.
AckFailed ==
  /\ failed < MaxFailures \/ ~Mine
  /\ failed' = IF Mine THEN failed + 1 ELSE failed
  /\ \E a \in BagToSet(acks) :
       /\ a.at # "counted"
       /\ acks' = acks (-) SetToBag({a})
       /\ IF ~Mine
          THEN UNCHANGED <<failures, pending, timer, lost>>
          ELSE /\ failures' = failures + 1
               /\ IF failures + 1 > AckRetries
                  THEN lost' = lost + a.bytes /\ UNCHANGED <<pending, timer>>
                  ELSE /\ pending' = pending + a.bytes
                       /\ timer' = TRUE
                       /\ UNCHANGED lost
  /\ UNCHANGED <<engine, ipc, page, parsing, written, ended>>

\* SessionManager::close: the program is told, ...
CloseTell ==
  /\ closing = "asked"
  /\ closing' = "told"
  /\ UNCHANGED <<left, queue, open, batcher, unacked, woken, driver, ipc, acks, failed, lost>>

\* ... then FlowControl::close sets the flag ...
CloseSet ==
  /\ closing = "told"
  /\ closing' = "set"
  /\ UNCHANGED <<left, queue, open, batcher, unacked, woken, driver, ipc, acks, failed, lost>>

\* ... and notifies.
CloseNotify ==
  /\ closing = "set"
  /\ closing' = "done"
  /\ Notify
  /\ UNCHANGED <<left, queue, open, batcher, unacked, driver, ipc, acks, failed, lost>>

Close == CloseTell \/ CloseSet \/ CloseNotify

Batcher ==
  \/ Check \/ Enable \/ Recheck \/ Await \/ Wake \/ Gate \/ Receive \/ Fill \/ FrameDone \/ Count
  \/ Send \/ Finish

Acked == AckCounted \/ AckNotified \/ AckAnswered

Next ==
  \/ Read \/ ReadEnd
  \/ Batcher
  \/ Attach \/ Superseded \/ Detach \/ OnData \/ OnParsed \/ TimerFires
  \/ Acked \/ AckFailed
  \/ Close

Spec == Init /\ [][Next]_vars

\* Threads, tasks and timers run; a request is carried out or fails.
FairSpec ==
  /\ Spec
  /\ WF_vars(Read) /\ WF_vars(ReadEnd) /\ WF_vars(Batcher)
  /\ WF_vars(Attach) /\ WF_vars(Superseded)
  /\ WF_vars(OnData) /\ WF_vars(OnParsed) /\ WF_vars(TimerFires)
  /\ WF_vars(Acked) /\ WF_vars(Close)

------------------------------------------------------------------------------
(* Properties                                                               *)

\* What has been counted and xterm.js has not dealt with.
OnTheWay == Sum(ipc) + Sum(parsing) + (IF At("send") THEN batcher.frame ELSE 0)

\* What the acknowledgements on their way have still to subtract.
Due(bag) == Sum([a \in BagToSet(bag) |-> IF a.at = "going" THEN a.bytes * bag[a] ELSE 0])
Going == Due(acks)

\* Every byte the engine waits for will be acknowledged: it is on its way to the
\* screen, or the driver still has to acknowledge it, or has done so, or it
\* has given up after ACK_RETRIES.  Credit that is lost is never given back, and
\* the session pauses for good (driver.ts:425-435).
CreditIsKept == Mine => unacked <= OnTheWay + pending + Going + lost

\* What the webview has not dealt with stays within the high watermark and one
\* frame, whose last chunk may exceed its limit ("a flood could push hundreds
\* of megabytes into the webview's queue", flow.rs:5-7); an acknowledgement that
\* seemed lost and is sent again lets more through.
WebviewIsBounded ==
  failed = 0 => \E n \in Chunk : OnTheWay <= HighWatermark + MaxFrame - 1 + n

\* The page hears that the stream ended after everything that was read, never
\* before ("every frame there will ever be has been sent", stream.rs:52-54).
EndComesLast ==
  Mine /\ ended => written + Sum(parsing) = Total - left

\* With a page that stays, all output arrives, then the end of the stream, and
\* at rest nothing is outstanding: no pause lasts for good (wait_for_capacity
\* against ack, the timers of the driver), unless an acknowledgement was given up.
AllArrives == <>(~Mine \/ lost # 0 \/ (ended /\ written = Total - left /\ unacked = 0))

\* A session the page has let go of ends, wherever its batcher was waiting and
\* even if the page did not know its id yet (close, attach).
CloseEndsIt == page \in {"left", "detached"} ~> At("done") /\ ~open

==============================================================================
