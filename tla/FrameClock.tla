---------------------------- MODULE FrameClock ----------------------------
(***************************************************************************)
(* The clock of Frame::handle_done (src/src/platform/wayland_native.cpp):  *)
(* a frame callback carries the compositor's time in milliseconds modulo   *)
(* 2^32, which the window unwraps to 64 bits for the host's frame pulse.   *)
(***************************************************************************)
EXTENDS Integers

CONSTANTS
  MaxMilliseconds,  \* numeric_limits<uint32_t>::max()
  MaxGap,           \* bound on the time between two callbacks
  MaxTime           \* bound on the compositor's time

ASSUME ClockConstants ==
  /\ MaxMilliseconds \in Nat /\ MaxMilliseconds % 2 = 1
  /\ MaxGap \in Nat /\ MaxTime \in Nat /\ MaxMilliseconds <= MaxTime

VARIABLES
  now,    \* the compositor's time, not wrapped
  clock,  \* last_frame_milliseconds, frame_millisecond_epoch
  pulsed  \* the time of the last frame pulse, -1 before the first

clockVars == <<now, clock, pulsed>>

(* Type invariant. *)
ClockTypeOK ==
  /\ now \in 0 .. MaxTime /\ pulsed \in {-1} \cup Nat
  /\ clock \in [last : 0 .. MaxMilliseconds, epoch : Nat]
  /\ clock.epoch % (MaxMilliseconds + 1) = 0

ClockInit ==
  /\ now \in 0 .. MaxMilliseconds
  /\ clock = [last |-> 0, epoch |-> 0] /\ pulsed = -1

(* A smaller reading is a new epoch only when it is smaller by more than   *)
(* half the range.                                                         *)
WrapsByLess(ms) == ms < clock.last /\ clock.last - ms > MaxMilliseconds \div 2 + 1
Wraps(ms) == ms < clock.last /\ clock.last - ms > MaxMilliseconds \div 2

handle_done(gap) ==
  LET ms == (now + gap) % (MaxMilliseconds + 1)
  IN  /\ now + gap <= MaxTime
      /\ now' = now + gap
      /\ clock' = [last |-> ms,
                   epoch |-> IF Wraps(ms) THEN clock.epoch + MaxMilliseconds + 1
                                          ELSE clock.epoch]
      /\ pulsed' = clock'.epoch + ms

(* The time of the first callback is the origin. *)
ClockNext ==
  \E gap \in IF pulsed = -1 THEN {0} ELSE 0 .. MaxGap : handle_done(gap)

ClockSpec == ClockInit /\ [][ClockNext]_clockVars
-----------------------------------------------------------------------------
(* Each frame pulse carries the compositor's time exactly, over any number *)
(* of wraps, as long as two callbacks are at most half the range (24.8     *)
(* days) apart.                                                            *)
ClockUnwraps ==
  2 * MaxGap <= MaxMilliseconds + 1 => pulsed \in {-1, now}
=============================================================================
