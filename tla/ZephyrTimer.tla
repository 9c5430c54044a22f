----------------------------- MODULE ZephyrTimer -----------------------------
(***************************************************************************)
(* The 64-bit time of zephyr-timer.c: a counter of fewer bits, the number  *)
(* of times it has wrapped, which an interrupt keeps, and the counter's    *)
(* one alarm channel.  A reader takes that number, the counter and the     *)
(* number again (ssm_timer_read_raw), with anything in between, and the    *)
(* time is made from the three later (ssm_timer_calc).                     *)
(***************************************************************************)
EXTENDS Integers

CONSTANTS
  HalfRange,  \* half the values of the counter, 2^31
  MaxTime     \* the last time there is (a bound)

ASSUME TimerAssumption == HalfRange \in Nat \ {0} /\ MaxTime \in Nat

Range == 2 * HalfRange
Top   == Range - 1      \* SSM_TIMER32_TOP
Guard == Top \div 2     \* SSM_TIMER32_GUARD

VARIABLES
  time,      \* the time as a wider counter would have it
  hi,        \* __ssm_timer_hi
  overflow,  \* the counter has wrapped and its interrupt is still to come
  alarm,     \* what the alarm channel compares the counter with, or NoAlarm
  expired,   \* they were equal and the interrupt is still to come
  timer_cb   \* is the callback set?

timerVars == <<time, hi, overflow>>
alarmVars == <<alarm, expired, timer_cb>>

NoAlarm == Range
Counter == time % Range

TimerInit ==
  /\ time = 0 /\ hi = 0 /\ overflow = FALSE
  /\ alarm = NoAlarm /\ expired = FALSE /\ timer_cb = FALSE

\* A tick of the counter.  Its interrupt is served before it wraps again.
Counts ==
  /\ time < MaxTime
  /\ overflow => (time + 1) % Range # 0
  /\ time' = time + 1
  /\ overflow' = (overflow \/ (time + 1) % Range = 0)
  /\ expired' = (expired \/ (time + 1) % Range = alarm)
  /\ UNCHANGED <<hi, alarm, timer_cb>>

\* overflow_handler
OverflowHandler ==
  /\ overflow
  /\ hi' = hi + 1
  /\ overflow' = FALSE
  /\ UNCHANGED <<time, alarmVars>>

-----------------------------------------------------------------------------
(***************************************************************************)
(* Reading.  The field "at" is not in the code: when the last read was.    *)
(***************************************************************************)
Unread == [hi0 |-> 0, lo |-> 0, hi1 |-> 0, at |-> 0]

WithHi0(raw) == [raw EXCEPT !.hi0 = hi, !.at = time]
WithLo(raw)  == [raw EXCEPT !.lo = Counter, !.at = time]
WithHi1(raw) == [raw EXCEPT !.hi1 = hi]

Combine(h, lo) == h * Range + lo
LoMsb(lo)      == lo >= HalfRange

\* Mutant: the second count is always taken.
CalcLast(raw) == Combine(raw.hi1, raw.lo)

\* ssm_timer_calc: the count that belongs to lo.
Calc(raw) ==
  IF raw.hi0 = raw.hi1 \/ LoMsb(raw.lo) THEN Combine(raw.hi0, raw.lo)
  ELSE Combine(raw.hi1, raw.lo)

-----------------------------------------------------------------------------
(***************************************************************************)
(* The alarm.  Half the counter's range is a guard period: a time in it is *)
(* taken to be past, be it late or far ahead.                              *)
(***************************************************************************)
\* Mutant: without a guard period no time is too late.
NeverTooLate(ticks) == FALSE

TooLate(ticks) == (ticks - 1 - Counter) % Range > Top - Guard

\* ssm_timer_set_alarm that succeeds; its time loses its upper bits
AlarmFails(wake_time) == timer_cb \/ TooLate(wake_time % Range)

SetAlarm(wake_time) ==
  /\ ~AlarmFails(wake_time)
  /\ alarm' = wake_time % Range
  /\ timer_cb' = TRUE
  /\ UNCHANGED expired

\* counter_alarm_callback, but for the call of the callback
AlarmGoesOff ==
  /\ expired
  /\ alarm' = NoAlarm /\ expired' = FALSE
  /\ timer_cb' = FALSE

\* Mutant: forgets the callback and leaves the channel.
ForgetCallback ==
  /\ timer_cb' = FALSE
  /\ UNCHANGED <<alarm, expired>>

\* ssm_timer_cancel, in two steps
CancelChannel ==
  /\ alarm' = NoAlarm /\ expired' = FALSE
  /\ UNCHANGED timer_cb

ClearCallback ==
  /\ timer_cb' = FALSE
  /\ UNCHANGED <<alarm, expired>>
=============================================================================
