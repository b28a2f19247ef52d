-------------------------- MODULE ClockCalibration --------------------------
(***************************************************************************)
(* How a relayed room tells the Mac's time (contribute/clock.go and        *)
(* roomplane/clock.go).  The Mac compares its clock with the origin's in a *)
(* four-timestamp exchange and publishes the offset with a bound on its    *)
(* error; the origin anchors the Mac's time to its own monotonic clock and *)
(* answers every guest from that anchor.                                   *)
(*                                                                         *)
(* Clocks advance in ticks, Quantum of them to the millisecond, and every  *)
(* timestamp that is sent or subtracted is a whole millisecond rounded     *)
(* down, while durations are exact.  Halves are avoided by doubling: the   *)
(* offset and the source time are kept as twice their milliseconds, and    *)
(* the uncertainty as twice its ticks.  The clocks neither drift nor step, *)
(* so the 1 in 10,000 the origin adds for drift is left out, and the age   *)
(* limits (10 s for a sample, 15 s for an anchor) may or may not bite.     *)
(***************************************************************************)
EXTENDS Integers

CONSTANTS
  Quantum,   \* ticks to a millisecond
  MaxRtt,    \* the longest exchange taken, 500 ms in the code, in ticks
  Thetas,    \* bound: how far the origin's clock may be ahead, in ticks
  MaxNow     \* bound: ticks modelled

ASSUME ClockBounds ==
  Quantum \in Nat \ {0} /\ MaxRtt \in Nat /\ Thetas \subseteq Int /\ MaxNow \in Nat

VARIABLES
  now,      \* the Mac's clock
  theta,    \* the origin's clock is at now + theta
  step,     \* where the exchange is
  start,    \* when it began
  received, sent,  \* the origin's timestamps
  sample,   \* the calibration being published
  anchor    \* the calibration in force at the origin, at most one

exchange == <<step, start, received, sent, sample>>
clockVars == <<now, theta, exchange, anchor>>

Ms(t) == t \div Quantum              \* UnixMilli
Larger(a, b) == IF a > b THEN a ELSE b
NoSample == [offset |-> 0, uncertainty |-> 0, at |-> 0]

ClockInit ==
  /\ now = 0 /\ theta \in Thetas /\ step = "idle" /\ start = 0 /\ received = 0 /\ sent = 0
  /\ sample = NoSample /\ anchor = {}

Tick ==
  /\ now < MaxNow /\ now' = now + 1
  /\ UNCHANGED <<theta, exchange, anchor>>

-----------------------------------------------------------------------------
(* The exchange.                                                           *)

Ask ==
  /\ step = "idle" /\ step' = "asked" /\ start' = now
  /\ UNCHANGED <<now, theta, received, sent, sample, anchor>>

Receive ==
  /\ step = "asked" /\ step' = "received" /\ received' = Ms(now + theta)
  /\ UNCHANGED <<now, theta, start, sent, sample, anchor>>

Reply ==
  /\ step = "received" /\ step' = "replied" /\ sent' = Ms(now + theta)
  /\ UNCHANGED <<now, theta, start, received, sample, anchor>>

Rtt == (now - start) - Quantum * (sent - received)
\* The slip: the way back is taken to be as long as the way there.
Offset_OneWay == 2 * (received - Ms(start))
Offset == (received - Ms(start)) + (sent - Ms(now))

Estimate ==
  /\ step = "replied" /\ Rtt <= MaxRtt /\ step' = "sampled"
  /\ sample' = [offset |-> Offset, uncertainty |-> Larger(0, Rtt) + 2 * Quantum, at |-> sent]
  /\ UNCHANGED <<now, theta, start, received, sent, anchor>>

Abandon ==          \* an error, a timeout, an uncertain exchange or a sample too old to take
  /\ step # "idle" /\ step' = "idle"
  /\ UNCHANGED <<now, theta, start, received, sent, sample, anchor>>

-----------------------------------------------------------------------------
(* The origin.                                                             *)

\* The slip: the anchor is the time of the sample, however late it comes.
Publish_AtSample ==
  /\ step = "sampled" /\ step' = "idle"
  /\ anchor' = {[source |-> 2 * sample.at - sample.offset, at |-> now,
                 uncertainty |-> sample.uncertainty]}
  /\ UNCHANGED <<now, theta, start, received, sent, sample>>

Publish ==                           \* publishClock, however late it comes
  /\ step = "sampled" /\ step' = "idle"
  /\ anchor' = {[source |-> 2 * Ms(now + theta) - sample.offset, at |-> now,
                 uncertainty |-> sample.uncertainty]}
  /\ UNCHANGED <<now, theta, start, received, sent, sample>>

Forget ==                            \* Reset, or an anchor too old to use
  /\ anchor # {} /\ anchor' = {}
  /\ UNCHANGED <<now, theta, exchange>>

\* SourceTime at the moment, in twice its ticks.
SourceTime(a) == Quantum * a.source + 2 * (now - a.at)

ClockNext ==
  \/ Tick \/ Ask \/ Receive \/ Reply \/ Estimate \/ Abandon \/ Publish \/ Forget

ClockSpec == ClockInit /\ [][ClockNext]_clockVars

-----------------------------------------------------------------------------
\* The values of the exchange; an uncertainty is at least the rounding and at
\* most half the longest exchange with it (contribute/clock.go:48-58).
ClockTypeOK ==
  /\ now \in 0..MaxNow /\ theta \in Thetas
  /\ step \in {"idle", "asked", "received", "replied", "sampled"}
  /\ start \in 0..now /\ received \in Int /\ sent \in Int
  /\ step = "sampled" => sample.uncertainty \in (2 * Quantum)..(2 * Quantum + MaxRtt)

Within(x, y, bound) == x - y <= bound /\ y - x <= bound

(***************************************************************************)
(* The offset published is the difference of the clocks to within the      *)
(* uncertainty published with it, wherever the time of the exchange was    *)
(* spent and however the timestamps were rounded (contribute/clock.go:     *)
(* 45-58).                                                                 *)
(***************************************************************************)
OffsetIsHonest ==
  step = "sampled" => Within(Quantum * sample.offset, 2 * theta, sample.uncertainty)

(***************************************************************************)
(* The time a guest is told is the Mac's to within the uncertainty it is   *)
(* told and one more millisecond, for the origin rounds once more, however *)
(* late the calibration arrived (roomplane/clock.go:26-64).                *)
(***************************************************************************)
SourceTimeIsHonest ==
  \A a \in anchor : Within(SourceTime(a), 2 * now, a.uncertainty + 2 * Quantum)
=============================================================================
