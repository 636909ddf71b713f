----------------------------- MODULE RtimerClock -----------------------------
(***************************************************************************)
(* The arithmetic of the slot operation's deadlines: rtimer clock values   *)
(* that wrap around at ClockModulus, as check_timer_miss, rtimer_set and   *)
(* RTIMER_BUSYWAIT_UNTIL_ABS compare them.                                 *)
(***************************************************************************)
EXTENDS Integers

CONSTANT ClockModulus     \* 2^w, for an rtimer_clock_t of w bits

ASSUME ClockAssumption == ClockModulus \in Nat \ {0}

Clock == 0 .. ClockModulus - 1

(* The sum and the difference of two clock values. *)
Plus(t, d) == IF t + d < ClockModulus THEN t + d ELSE t + d - ClockModulus
Minus(t, u) == IF t >= u THEN t - u ELSE t - u + ClockModulus

(* check_timer_miss: by cases on which of the two sums overflowed. *)
CheckTimerMiss_NoOverflow(ref_time, offset, now) ==
  Plus(ref_time, offset) <= now
CheckTimerMiss(ref_time, offset, now) ==
  LET target == Plus(ref_time, offset)
      now_has_overflowed == now < ref_time
      target_has_overflowed == target < ref_time
  IN IF now_has_overflowed = target_has_overflowed
       THEN target <= now
       ELSE now_has_overflowed

(* The ticks until a timer that is set for a clock value fires, and those  *)
(* that a busy wait for it takes: none once it is less than half a turn    *)
(* ago.                                                                    *)
TimerWait(now, target) == Minus(target, now)
BusyWait(now, target) ==
  IF 2 * Minus(now, target) < ClockModulus THEN 0 ELSE Minus(target, now)
=============================================================================
