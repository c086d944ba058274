-------------------------------- MODULE Clock --------------------------------
(***************************************************************************)
(* The hybrid logical clock of crates/uwussh-proto/src/clock.rs.  A         *)
(* timestamp is wall time, a counter for events that share a millisecond,   *)
(* and the device that wrote it, compared in that order.                    *)
(*                                                                          *)
(* The counter keeps its width (MaxCounter is u32::MAX in the code) because *)
(* `step' carries into the wall time when it is full.  Wall time is a       *)
(* natural number: its u64 lasts for half a billion years.                  *)
(***************************************************************************)
EXTENDS Integers

CONSTANTS
  MaxCounter,   \* the largest value of Hlc::counter
  MaxDrift      \* MAX_DRIFT_MS, in the model's units of time

ASSUME ClockAssumption ==
  /\ MaxCounter \in Nat
  /\ MaxDrift \in Nat

\* What the tables hold for a device's own clock: meta.clock_wall_ms and
\* meta.clock_counter.  The device id is added when a record is stamped.
Time == [wall : Nat, counter : 0 .. MaxCounter]

TimeZero == [wall |-> 0, counter |-> 0]

\* The order of (wall, counter) pairs.
Before(t, u) ==
  \/ t.wall < u.wall
  \/ t.wall = u.wall /\ t.counter < u.counter

\* impl Ord for Hlc.
HlcLess(a, b) ==
  \/ Before(a, b)
  \/ a.wall = b.wall /\ a.counter = b.counter /\ a.device < b.device

Stamp(t, d) == [wall |-> t.wall, counter |-> t.counter, device |-> d]

\* Mutant of Step: the counter is not kept to its width.
StepWithoutCarry(wall, counter) == [wall |-> wall, counter |-> counter + 1]

\* The moment right after (wall, counter): a full counter moves on to the next
\* millisecond instead of wrapping to 0.
Step(wall, counter) ==
  IF counter < MaxCounter
  THEN [wall |-> wall, counter |-> counter + 1]
  ELSE [wall |-> wall + 1, counter |-> 0]

\* Hlc::tick: the next local timestamp, when the system clock reads now.
Tick(t, now) ==
  IF now > t.wall
  THEN [wall |-> now, counter |-> 0]
  ELSE Step(t.wall, t.counter)

Larger(m, n) == IF m >= n THEN m ELSE n
Smaller(m, n) == IF m <= n THEN m ELSE n

\* Hlc::merge: the local clock catches up with a timestamp that arrived, which
\* counts as at most MaxDrift ahead of what the system clock reads.
MergeTime(t, remote, now) ==
  LET heard == Smaller(remote.wall, now + MaxDrift)
      top   == Larger(Larger(now, t.wall), heard)
  IN  CASE top = t.wall /\ top = heard -> Step(top, Larger(t.counter, remote.counter))
        [] top = t.wall /\ top # heard -> Step(top, t.counter)
        [] top # t.wall /\ top = heard -> Step(top, remote.counter)
        [] OTHER                       -> [wall |-> top, counter |-> 0]

==============================================================================
