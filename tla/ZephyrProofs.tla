---------------------------- MODULE ZephyrProofs ----------------------------
(***************************************************************************)
(* Proofs about ZephyrPlatform, for every width of the counter, every size *)
(* of the input buffer and any number of handlers and of inputs.           *)
(*                                                                         *)
(* IInv: the time that is put together from three reads of the counter and *)
(* of its overflow count (zephyr-timer.h) is the time of one of the reads. *)
(* The count of overflows counts the wraps of the counter but for an       *)
(* interrupt that is pending (ClockSound); a reader that is not held up    *)
(* for more than half a range has, after each of its reads, a value that   *)
(* is as good as HasHi0, HasLo and Exact say.                              *)
(*                                                                         *)
(* AlarmInv: an alarm finds its callback.  InputInv: inputs are in the     *)
(* order of time, and the program is not ahead of them.  SleepInv: a sleep *)
(* for an event ends.  PostInv: so does one with an input in the buffer.    *)
(***************************************************************************)
EXTENDS ZephyrPlatform, Lemmas

\* As many turns of the counter or more take as many ticks or more.
LEMMA Multiples ==
  ASSUME NEW q \in Int, NEW k \in Int, q >= k
  PROVE  q * Range >= k * Range
BY TimerAssumption DEF Range

\* A time is the turns of the counter up to it and its value, as in the code's
\* `(hi << 32) + lo`.
LEMMA Split ==
  ASSUME NEW t \in Nat
  PROVE  /\ Range \in Nat \ {0}
         /\ t % Range \in 0..(Range - 1)
         /\ t \div Range \in Nat
         /\ t = (t \div Range) * Range + (t % Range)
<1>1. Range \in Nat \ {0}
  BY TimerAssumption DEF Range
<1>2. \A R \in Nat \ {0} : /\ t % R \in 0..(R - 1)
                          /\ t \div R \in Int
                          /\ t = (t \div R) * R + (t % R)
  OBVIOUS
<1>3. t \div Range >= 0
  BY <1>1, <1>2, Multiples, SMT
<1> QED BY <1>1, <1>2, <1>3

\* The next tick begins another turn of the counter exactly if it is at 0 then.
LEMMA NextTick ==
  ASSUME NEW t \in Nat
  PROVE  /\ (t + 1) % Range = 0 => (t + 1) \div Range = (t \div Range) + 1
         /\ (t + 1) % Range # 0 => (t + 1) \div Range = t \div Range
<1> DEFINE q == t \div Range
           m == t % Range
           p == (t + 1) \div Range
           n == (t + 1) % Range
<1>1. /\ Range \in Nat \ {0} /\ q \in Nat /\ p \in Nat
      /\ m \in 0..(Range - 1) /\ n \in 0..(Range - 1)
      /\ t = q * Range + m /\ t + 1 = p * Range + n
  <2>1. t + 1 \in Nat
    OBVIOUS
  <2> QED BY <2>1, Split
<1>2. (p - q) * Range = (m - n) + 1
  BY <1>1
<1> HIDE DEF q, m, p, n
<1>3. p - q >= 0
  <2>1. CASE -1 >= p - q
    <3>1. p - q \in Int /\ q - p \in Int /\ q - p >= 1
      BY <1>1, <2>1
    <3>2. (q - p) * Range >= 1 * Range
      BY <3>1, Multiples
    <3>3. (q - p) * Range = (n - m) - 1
      BY <1>1, <1>2
    <3> QED BY <1>1, <3>2, <3>3
  <2> QED BY <1>1, <2>1
<1>4. 1 >= p - q
  <2>1. CASE p - q >= 2
    <3>1. (p - q) * Range >= 2 * Range
      BY <1>1, <2>1, Multiples
    <3> QED BY <1>1, <1>2, <3>1
  <2> QED BY <1>1, <2>1
<1>5. CASE p = q
  <2>1. n = m + 1
    BY <1>1, <1>5
  <2> QED BY <1>1, <1>5, <2>1 DEF q, m, p, n
<1>6. CASE p = q + 1
  <2>1. n = (m + 1) - Range
    BY <1>1, <1>2, <1>6
  <2> QED BY <1>1, <1>6, <2>1 DEF q, m, p, n
<1> QED BY <1>1, <1>3, <1>4, <1>5, <1>6

\* In half a range the counter wraps at most once, and not at all from its lower half.
LEMMA HalfARange ==
  ASSUME NEW s \in Nat, NEW t \in Nat, s =< t, t - s =< HalfRange
  PROVE  /\ \/ t \div Range = s \div Range
            \/ t \div Range = (s \div Range) + 1 /\ t % Range < HalfRange
         /\ s % Range < HalfRange => t \div Range = s \div Range
<1> DEFINE q == s \div Range
           m == s % Range
           p == t \div Range
           n == t % Range
<1>1. /\ Range \in Nat \ {0} /\ q \in Nat /\ p \in Nat
      /\ m \in 0..(Range - 1) /\ n \in 0..(Range - 1)
      /\ s = q * Range + m /\ t = p * Range + n
  BY Split
<1>2. HalfRange \in Nat /\ Range = HalfRange + HalfRange
  BY TimerAssumption DEF Range
<1> HIDE DEF q, m, p, n
<1>3. /\ (p - q) * Range = ((t - s) + m) - n
      /\ (q - p) * Range = n - ((t - s) + m)
  BY <1>1
<1>4. p - q >= 0
  <2>1. CASE q - p >= 1
    <3>1. (q - p) * Range >= 1 * Range
      BY <1>1, <2>1, Multiples
    <3> QED BY <1>1, <1>3, <3>1
  <2> QED BY <1>1, <2>1
<1>5. 1 >= p - q
  <2>1. CASE p - q >= 2
    <3>1. (p - q) * Range >= 2 * Range
      BY <1>1, <2>1, Multiples
    <3> QED BY <1>1, <1>2, <1>3, <3>1
  <2> QED BY <1>1, <2>1
<1>6. CASE p = q
  BY <1>6 DEF q, p
<1>7. CASE p = q + 1
  <2>1. Range = ((t - s) + m) - n
    BY <1>1, <1>3, <1>7
  <2>2. n < HalfRange /\ ~(m < HalfRange)
    BY <1>1, <1>2, <2>1
  <2> QED BY <1>7, <2>2 DEF q, m, p, n
<1> QED BY <1>1, <1>4, <1>5, <1>6, <1>7

-----------------------------------------------------------------------------
Reading0 == [hi0 : Nat, lo : Nat, hi1 : Nat, at : Nat]

\* The count of wraps is right but for an interrupt that is pending.
ClockSound ==
  /\ time \in Nat /\ hi \in Nat /\ overflow \in BOOLEAN
  /\ time \div Range = IF overflow THEN hi + 1 ELSE hi

\* What a reader has after its first read, its second, and its third.
HasHi0(x) ==
  /\ x.at =< time /\ time - x.at =< HalfRange
  /\ x.hi0 = x.at \div Range

HasLo(x) ==
  /\ x.at =< time /\ time - x.at =< HalfRange
  /\ x.lo = x.at % Range
  /\ \/ x.hi0 = x.at \div Range
     \/ x.at \div Range = x.hi0 + 1 /\ x.lo < HalfRange

Exact(x) == Calc(x) = x.at

\* The first read, of the overflow count: it is the wraps by now, for its
\* interrupt is taken before anyone reads.
LEMMA ReadsHi0 ==
  ASSUME ClockSound, ~overflow, NEW x \in Reading0
  PROVE  WithHi0(x) \in Reading0 /\ HasHi0(WithHi0(x))
<1> DEFINE y == WithHi0(x)
<1>1. y \in Reading0 /\ y.hi0 = hi /\ y.at = time
  BY DEF ClockSound, Reading0, WithHi0
<1>2. hi = time \div Range /\ time - time = 0 /\ 0 =< HalfRange /\ time =< time
  BY TimerAssumption DEF ClockSound
<1> QED BY <1>1, <1>2 DEF HasHi0

\* The second read, of the counter: it is exact, and the first one is the
\* wraps by now or one less, and then the counter is in its lower half.
LEMMA ReadsLo ==
  ASSUME ClockSound, NEW x \in Reading0, HasHi0(x)
  PROVE  WithLo(x) \in Reading0 /\ HasLo(WithLo(x))
<1>1. time % Range \in Nat
  BY Split DEF ClockSound
<1>2. \/ time \div Range = x.at \div Range
      \/ time \div Range = (x.at \div Range) + 1 /\ time % Range < HalfRange
  BY HalfARange DEF ClockSound, Reading0, HasHi0
<1> DEFINE y == WithLo(x)
<1>3. y \in Reading0 /\ y.hi0 = x.hi0 /\ y.lo = time % Range /\ y.at = time
  BY <1>1 DEF ClockSound, Reading0, WithLo, Counter
<1>4. time - time = 0 /\ 0 =< HalfRange /\ time =< time
  BY TimerAssumption DEF ClockSound
<1>5. \/ y.hi0 = time \div Range
      \/ time \div Range = y.hi0 + 1 /\ y.lo < HalfRange
  BY <1>2, <1>3 DEF HasHi0
<1> QED BY <1>3, <1>4, <1>5 DEF HasLo

\* The third read, of the overflow count again: what ssm_timer_calc makes of
\* the three is the time of the second.
LEMMA ReadsHi1 ==
  ASSUME ClockSound, ~overflow, NEW x \in Reading0, HasLo(x)
  PROVE  WithHi1(x) \in Reading0 /\ Exact(WithHi1(x))
<1> DEFINE y == WithHi1(x)
<1>1. /\ y \in Reading0 /\ y.hi0 = x.hi0 /\ y.lo = x.lo /\ y.at = x.at
      /\ y.hi1 = time \div Range
  BY DEF ClockSound, Reading0, WithHi1
<1>2. /\ x.at = (x.at \div Range) * Range + (x.at % Range)
      /\ x.at \div Range \in Nat /\ x.at % Range \in Nat /\ time \div Range \in Nat
  BY Split DEF Reading0, ClockSound
<1>3. /\ \/ time \div Range = x.at \div Range
         \/ time \div Range = (x.at \div Range) + 1
      /\ x.at % Range < HalfRange => time \div Range = x.at \div Range
  BY HalfARange DEF ClockSound, Reading0, HasLo
<1>4. (IF y.hi0 = y.hi1 \/ LoMsb(y.lo) THEN y.hi0 ELSE y.hi1) = x.at \div Range
  BY <1>1, <1>2, <1>3, TimerAssumption DEF HasLo, LoMsb, Reading0
<1>5. Calc(y) = (x.at \div Range) * Range + (x.at % Range)
  BY <1>1, <1>4 DEF Calc, Combine, HasLo
<1> QED BY <1>1, <1>2, <1>5 DEF Exact

\* A reading nobody took yet is the exact time 0.
LEMMA UnreadExact == Unread \in Reading0 /\ Exact(Unread)
<1>1. Range \in Nat
  BY Split
<1> QED BY <1>1 DEF Unread, Reading0, Exact, Calc, Combine

-----------------------------------------------------------------------------
HandlerStates == [at : {"idle", "hi0", "lo", "hi1", "stamped", "writing", "posting"},
                  raw : Reading0, w : Nat]
Slots   == 0..(SSM_INPUT_RB_SIZE - 1)
Packets == [raw : Reading0, time : Nat]

Typed ==
  /\ handler \in [Handlers -> HandlerStates]
  /\ rb \in [Slots -> Packets]
  /\ rb_r \in Nat /\ rb_w \in Nat
  /\ r \in Nat /\ w \in Nat
  /\ raw \in Reading0

HandlerSound(x) ==
  /\ x.at = "lo" => HasHi0(x.raw)
  /\ x.at = "hi1" => HasLo(x.raw)
  /\ x.at \in {"stamped", "writing"} => Exact(x.raw)

MainSound ==
  /\ main = "lo" => HasHi0(raw)
  /\ main = "hi1" => HasLo(raw)
  /\ main = "polling" => wall_time = raw.at

IInv ==
  /\ ClockSound
  /\ Typed
  /\ \A h \in Handlers : HandlerSound(handler[h])
  /\ MainSound
  /\ \A i \in Slots : Exact(rb[i].raw)

\* At the start nothing is read, and what the buffer holds is exact.
LEMMA InitSound == Init => IInv
<1> SUFFICES ASSUME Init PROVE IInv
  OBVIOUS
<1>1. ClockSound
  <2>1. 0 \div Range = 0
    <3>1. \A R \in Nat \ {0} : 0 \div R = 0
      OBVIOUS
    <3> QED BY <3>1, Split
  <2> QED BY <2>1 DEF ClockSound, Init, TimerInit
<1>2. Typed
  BY UnreadExact DEF Typed, Init, HandlerStates, Slots, Packets
<1>3. \A h \in Handlers : HandlerSound(handler[h])
  BY DEF Init, HandlerSound
<1>4. MainSound
  BY DEF Init, MainSound
<1>5. \A i \in Slots : Exact(rb[i].raw)
  BY UnreadExact DEF Init, Slots
<1> QED BY <1>1, <1>2, <1>3, <1>4, <1>5 DEF IInv

\* A tick of the counter leaves what readers have sound: none of them is held
\* up for more than half a range.
LEMMA TimePassesKeeps == IInv /\ TimePasses => IInv'
<1> SUFFICES ASSUME IInv, TimePasses PROVE IInv'
  OBVIOUS
<1> USE DEF IInv
<1>1. /\ time \in Nat /\ time' = time + 1
      /\ UNCHANGED <<hi, handler, rb, rb_r, rb_w, main, raw, r, w, wall_time>>
  BY DEF TimePasses, Counts, ClockSound, bufferVars, localVars, loopVars
<1>2. ClockSound'
  <2>1. /\ (time + 1) % Range = 0 => (time + 1) \div Range = (time \div Range) + 1
        /\ (time + 1) % Range # 0 => (time + 1) \div Range = time \div Range
    BY <1>1, NextTick
  <2>2. /\ overflow => (time + 1) % Range # 0
        /\ overflow' = (overflow \/ (time + 1) % Range = 0)
    BY DEF TimePasses, Counts
  <2>3. time \div Range = IF overflow THEN hi + 1 ELSE hi
    BY DEF ClockSound
  <2>4. CASE (time + 1) % Range = 0
    <3>1. (time + 1) \div Range = hi + 1 /\ overflow'
      BY <2>1, <2>2, <2>3, <2>4
    <3> QED BY <1>1, <2>2, <3>1 DEF ClockSound
  <2>5. CASE (time + 1) % Range # 0
    <3>1. (time + 1) \div Range = (IF overflow THEN hi + 1 ELSE hi) /\ (overflow' = overflow)
      BY <2>1, <2>2, <2>3, <2>5 DEF ClockSound
    <3> QED BY <1>1, <3>1 DEF ClockSound
  <2> QED BY <2>4, <2>5
<1>3. ASSUME NEW x \in Reading0, HandlerSound([at |-> "lo", raw |-> x]), ~(time - x.at >= HalfRange)
      PROVE  HasHi0(x)'
  BY <1>1, <1>3, TimerAssumption DEF HandlerSound, HasHi0, Reading0
<1>4. ASSUME NEW x \in Reading0, HandlerSound([at |-> "hi1", raw |-> x]), ~(time - x.at >= HalfRange)
      PROVE  HasLo(x)'
  BY <1>1, <1>4, TimerAssumption DEF HandlerSound, HasLo, Reading0
<1>5. ASSUME NEW h \in Handlers
      PROVE  HandlerSound(handler[h])'
  <2>1. /\ handler[h] \in HandlerStates /\ HandlerSound(handler[h]) /\ handler'[h] = handler[h]
        /\ ~Reading(handler[h].raw, handler[h].at)
    BY <1>1 DEF Typed, TimePasses
  <2>2. CASE handler[h].at = "lo"
    BY <1>3, <2>1, <2>2 DEF HandlerSound, Reading, HandlerStates
  <2>3. CASE handler[h].at = "hi1"
    BY <1>4, <2>1, <2>3 DEF HandlerSound, Reading, HandlerStates
  <2>4. CASE handler[h].at \notin {"lo", "hi1"}
    BY <2>1, <2>4 DEF HandlerSound, Exact, Calc
  <2> QED BY <2>2, <2>3, <2>4
<1>6. MainSound'
  <2>1. raw \in Reading0 /\ ~Reading(raw, main)
    BY DEF Typed, TimePasses
  <2>2. CASE main = "lo"
    BY <1>1, <1>3, <2>1, <2>2 DEF MainSound, HandlerSound, Reading
  <2>3. CASE main = "hi1"
    BY <1>1, <1>4, <2>1, <2>3 DEF MainSound, HandlerSound, Reading
  <2>4. CASE main \notin {"lo", "hi1"}
    BY <1>1, <2>4 DEF MainSound
  <2> QED BY <2>2, <2>3, <2>4
<1> QED BY <1>1, <1>2, <1>5, <1>6 DEF Typed, Exact, Calc

\* A step that leaves the time alone leaves what has been read as good as it was.
LEMMA ReadKept ==
  ASSUME time' = time, NEW x
  PROVE  HasHi0(x)' = HasHi0(x) /\ HasLo(x)' = HasLo(x) /\ Exact(x)' = Exact(x)
BY DEF HasHi0, HasLo, Exact, Calc

\* The counter's interrupt makes the count of overflows right again.
LEMMA OverflowKeeps == IInv /\ Overflow => IInv'
<1> SUFFICES ASSUME IInv, Overflow PROVE IInv'
  OBVIOUS
<1> USE DEF IInv
<1>1. /\ overflow /\ hi' = hi + 1 /\ overflow' = FALSE /\ time' = time
      /\ UNCHANGED <<handler, rb, rb_r, rb_w, main, raw, r, w, wall_time>>
  BY DEF Overflow, OverflowHandler, bufferVars, localVars, loopVars
<1>2. ClockSound'
  <2>1. time \div Range = hi + 1 /\ hi + 1 \in Nat
    BY <1>1 DEF ClockSound
  <2> QED BY <1>1, <2>1 DEF ClockSound
<1>3. \A h \in Handlers : HandlerSound(handler[h])'
  BY <1>1, ReadKept DEF HandlerSound
<1>4. MainSound'
  BY <1>1, ReadKept DEF MainSound
<1>5. (\A i \in Slots : Exact(rb[i].raw))' /\ Typed'
  BY <1>1, ReadKept DEF Typed
<1> QED BY <1>1, <1>2, <1>3, <1>4, <1>5

\* Steps that are not about readings.
LEMMA OtherKeeps ==
  ASSUME IInv, UNCHANGED <<timerVars, handler, rb, rb_w, raw>>,
         rb_r' \in Nat, r' \in Nat, w' \in Nat,
         main' \notin {"lo", "hi1", "polling"} \/ UNCHANGED <<main, wall_time>>
  PROVE  IInv'
<1> USE DEF IInv
<1>1. UNCHANGED <<time, hi, overflow, handler, rb, rb_w, raw>>
  BY DEF timerVars
<1>2. ClockSound' /\ Typed'
  BY <1>1 DEF ClockSound, Typed
<1>3. \A h \in Handlers : HandlerSound(handler[h])'
  BY <1>1, ReadKept DEF HandlerSound
<1>4. MainSound'
  BY <1>1, ReadKept DEF MainSound
<1>5. (\A i \in Slots : Exact(rb[i].raw))'
  BY <1>1, ReadKept
<1> QED BY <1>1, <1>2, <1>3, <1>4, <1>5

\* A handler goes on; it may have written to the buffer.
LEMMA HandlerKeeps ==
  ASSUME IInv, NEW h, NEW from, NEW to \in HandlerStates, HandlerStep(h, from, to),
         HandlerSound(to),
         rb' \in [Slots -> Packets], \A i \in Slots : Exact(rb'[i].raw),
         rb_w' \in Nat
  PROVE  IInv'
<1> USE DEF IInv
<1>1. /\ UNCHANGED <<time, hi, overflow, rb_r, main, raw, r, w, wall_time>>
      /\ handler' = [handler EXCEPT ![h] = to]
  BY DEF HandlerStep, timerVars, localVars, loopVars
<1>2. ClockSound' /\ Typed'
  BY <1>1 DEF ClockSound, Typed
<1>3. ASSUME NEW k \in Handlers PROVE HandlerSound(handler[k])'
  <2>1. handler'[k] = IF k = h THEN to ELSE handler[k]
    BY <1>1 DEF Typed
  <2> QED BY <1>1, <2>1, ReadKept DEF HandlerSound
<1>4. MainSound'
  BY <1>1, ReadKept DEF MainSound
<1>5. (\A i \in Slots : Exact(rb[i].raw))'
  BY <1>1 DEF Exact, Calc
<1> QED BY <1>1, <1>2, <1>3, <1>4, <1>5

\* ssm_input_idx gives a slot of the buffer.
LEMMA IndexInBuffer == \A i \in Nat : Idx(i) \in Slots
BY Turns, ZephyrAssumption DEF Idx, Slots

\* An interrupt begins: its handler has read nothing, or goes on as it was.
LEMMA InterruptKeeps == IInv /\ Interrupt => IInv'
<1> SUFFICES ASSUME IInv, Interrupt PROVE IInv'
  OBVIOUS
<1> DEFINE h == CHOOSE k \in Handlers : handler[k].at = "idle"
           to == [handler[h] EXCEPT !.at = "hi0"]
<1>1. HandlerStep(h, "idle", to) /\ UNCHANGED <<rb, rb_w>>
  BY DEF Interrupt
<1>2. CASE h \in Handlers
  <2>1. to \in HandlerStates /\ HandlerSound(to)
    BY <1>2 DEF IInv, Typed, HandlerStates, HandlerSound
  <2> QED BY <1>1, <2>1, HandlerKeeps DEF IInv, Typed
<1>3. CASE h \notin Handlers
  <2>1. handler' = handler
    BY <1>1, <1>3 DEF HandlerStep, IInv, Typed
  <2>2. UNCHANGED <<timerVars, rb_r, main, raw, r, w, wall_time>>
    BY <1>1 DEF HandlerStep, localVars, loopVars
  <2> QED BY <1>1, <2>1, <2>2, OtherKeeps DEF IInv, Typed
<1> QED BY <1>2, <1>3

\* Every step of ssm_insert_input in a handler keeps the invariant: the three
\* reads, the writing of the slot and the advance of rb_w.
LEMMA InsertsKeeps == ASSUME NEW h \in Handlers PROVE IInv /\ Inserts(h) => IInv'
<1> SUFFICES ASSUME IInv, Inserts(h) PROVE IInv'
  OBVIOUS
<1> DEFINE x == handler[h].raw
<1>1. /\ handler[h] \in HandlerStates /\ HandlerSound(handler[h]) /\ x \in Reading0
      /\ handler[h].w \in Nat
      /\ rb \in [Slots -> Packets] /\ rb_w \in Nat
      /\ \A i \in Slots : Exact(rb[i].raw)
      /\ ClockSound
  BY DEF IInv, Typed, HandlerStates
<1>2. CASE ReadHi0(h)
  <2> DEFINE to == [handler[h] EXCEPT !.at = "lo", !.raw = WithHi0(@)]
  <2>1. HandlerStep(h, "hi0", to) /\ UNCHANGED <<rb, rb_w>> /\ ~overflow
    BY <1>2 DEF ReadHi0, HandlerStep, bufferVars
  <2>2. WithHi0(x) \in Reading0 /\ HasHi0(WithHi0(x))
    BY <1>1, <2>1, ReadsHi0
  <2>3. to \in HandlerStates /\ HandlerSound(to)
    BY <1>1, <2>2 DEF HandlerStates, HandlerSound
  <2> QED BY <1>1, <2>1, <2>3, HandlerKeeps
<1>3. CASE ReadLo(h)
  <2> DEFINE to == [handler[h] EXCEPT !.at = "hi1", !.raw = WithLo(@)]
  <2>1. HandlerStep(h, "lo", to) /\ UNCHANGED <<rb, rb_w>> /\ handler[h].at = "lo"
    BY <1>3 DEF ReadLo, HandlerStep, bufferVars
  <2>2. WithLo(x) \in Reading0 /\ HasLo(WithLo(x))
    BY <1>1, <2>1, ReadsLo DEF HandlerSound
  <2>3. to \in HandlerStates /\ HandlerSound(to)
    BY <1>1, <2>2 DEF HandlerStates, HandlerSound
  <2> QED BY <1>1, <2>1, <2>3, HandlerKeeps
<1>4. CASE ReadHi1(h)
  <2> DEFINE to == [handler[h] EXCEPT !.at = "stamped", !.raw = WithHi1(@)]
  <2>1. /\ HandlerStep(h, "hi1", to) /\ UNCHANGED <<rb, rb_w>>
        /\ handler[h].at = "hi1" /\ ~overflow
    BY <1>4 DEF ReadHi1, HandlerStep, bufferVars
  <2>2. WithHi1(x) \in Reading0 /\ Exact(WithHi1(x))
    BY <1>1, <2>1, ReadsHi1 DEF HandlerSound
  <2>3. to \in HandlerStates /\ HandlerSound(to)
    BY <1>1, <2>2 DEF HandlerStates, HandlerSound
  <2> QED BY <1>1, <2>1, <2>3, HandlerKeeps
<1>5. Idle \in HandlerStates /\ HandlerSound(Idle)
  BY UnreadExact DEF Idle, HandlerStates, HandlerSound
<1>6. CASE ReadHeads(h)
  <2> DEFINE to == IF WriteReady(rb_r, rb_w) THEN [handler[h] EXCEPT !.at = "writing", !.w = rb_w]
                   ELSE Idle
  <2>1. HandlerStep(h, "stamped", to) /\ UNCHANGED <<rb, rb_w>> /\ handler[h].at = "stamped"
    BY <1>6 DEF ReadHeads, HandlerStep, bufferVars
  <2>2. to \in HandlerStates /\ HandlerSound(to)
    BY <1>1, <1>5, <2>1 DEF HandlerStates, HandlerSound
  <2> QED BY <1>1, <2>1, <2>2, HandlerKeeps
<1>7. CASE Publish(h)
  <2> DEFINE to == [Idle EXCEPT !.at = "posting"]
             j  == Idx(handler[h].w)
  <2>1. /\ HandlerStep(h, "writing", to) /\ handler[h].at = "writing"
        /\ rb' = [rb EXCEPT ![j].raw = x] /\ rb_w' = handler[h].w + 1
    BY <1>7 DEF Publish, HandlerStep
  <2>2. to \in HandlerStates /\ HandlerSound(to)
    BY <1>5 DEF Idle, HandlerStates, HandlerSound
  <2>3. j \in Slots
    BY <1>1, IndexInBuffer
  <2>4. Exact(x)
    BY <1>1, <2>1 DEF HandlerSound
  <2>5. rb' \in [Slots -> Packets] /\ \A i \in Slots : Exact(rb'[i].raw)
    <3>1. \A i \in Slots : rb'[i] = IF i = j THEN [rb[i] EXCEPT !.raw = x] ELSE rb[i]
      BY <1>1, <2>1, <2>3
    <3>2. \A p \in Packets : /\ [p EXCEPT !.raw = x] \in Packets
                             /\ [p EXCEPT !.raw = x].raw = x
      BY <1>1 DEF Packets
    <3> QED BY <1>1, <2>1, <2>3, <2>4, <3>1, <3>2
  <2> QED BY <1>1, <2>1, <2>2, <2>5, HandlerKeeps
<1>8. CASE Post(h)
  <2>1. HandlerStep(h, "posting", Idle) /\ UNCHANGED <<rb, rb_w>>
    BY <1>8 DEF Post, bufferVars
  <2> QED BY <1>1, <1>5, <2>1, HandlerKeeps
<1> QED BY <1>2, <1>3, <1>4, <1>6, <1>7, <1>8 DEF Inserts

\* A reading of the thread's own.
LEMMA ReadsKeeps == IInv /\ Reads => IInv'
<1> SUFFICES ASSUME IInv, Reads PROVE IInv'
  OBVIOUS
<1>1. /\ UNCHANGED <<time, hi, overflow, handler, rb, rb_w, rb_r, r, w>> /\ ~overflow
      /\ ClockSound /\ Typed /\ MainSound /\ raw \in Reading0
  BY DEF Reads, MainReadsHi0, MainReadsLo, MainReadsHi1, MainStep, timerVars, bufferVars,
         loopVars, IInv, Typed
<1>2. /\ ClockSound'
      /\ \A h \in Handlers : HandlerSound(handler[h])'
      /\ (\A i \in Slots : Exact(rb[i].raw))'
  BY <1>1, ReadKept DEF ClockSound, HandlerSound, IInv
<1>3. CASE MainReadsHi0
  <2>1. main' = "lo" /\ raw' = WithHi0(raw)
    BY <1>3 DEF MainReadsHi0, MainStep
  <2>2. raw' \in Reading0 /\ HasHi0(raw')
    BY <1>1, <2>1, ReadsHi0
  <2>3. MainSound' /\ Typed'
    BY <1>1, <2>1, <2>2 DEF MainSound, Typed, HasHi0
  <2> QED BY <1>2, <2>3 DEF IInv
<1>4. CASE MainReadsLo
  <2>1. main = "lo" /\ main' = "hi1" /\ raw' = WithLo(raw)
    BY <1>4 DEF MainReadsLo, MainStep
  <2>2. raw' \in Reading0 /\ HasLo(raw')
    BY <1>1, <2>1, ReadsLo DEF MainSound
  <2>3. MainSound' /\ Typed'
    BY <1>1, <2>1, <2>2 DEF MainSound, Typed, HasLo
  <2> QED BY <1>2, <2>3 DEF IInv
<1>5. CASE MainReadsHi1
  <2>1. main = "hi1" /\ main' = "polling" /\ raw' = WithHi1(raw) /\ wall_time' = Calc(raw')
    BY <1>5 DEF MainReadsHi1, MainStep
  <2>2. raw' \in Reading0 /\ Calc(raw') = raw'.at
    BY <1>1, <2>1, ReadsHi1 DEF MainSound, Exact
  <2>3. MainSound' /\ Typed'
    BY <1>1, <2>1, <2>2 DEF MainSound, Typed
  <2> QED BY <1>2, <2>3 DEF IInv
<1> QED BY <1>3, <1>4, <1>5 DEF Reads

\* The loop's look at the buffer keeps the invariant.
LEMMA PollKeeps == IInv /\ Poll => IInv'
<1> SUFFICES ASSUME IInv, Poll PROVE IInv'
  OBVIOUS
<1>1. /\ UNCHANGED <<time, hi, overflow, handler, rb_w, rb_r>>
      /\ main' = "deciding" /\ raw' = Unread /\ r' = rb_r /\ w' = rb_w
      /\ ClockSound /\ Typed
  BY DEF Poll, timerVars, IInv
<1>2. ClockSound' /\ \A h \in Handlers : HandlerSound(handler[h])'
  BY <1>1, ReadKept DEF ClockSound, HandlerSound, IInv
<1>3. rb' \in [Slots -> Packets] /\ \A i \in Slots : Exact(rb'[i].raw)
  <2>1. rb \in [Slots -> Packets] /\ DOMAIN rb = Slots
    BY <1>1 DEF Typed
  <2>2. /\ DOMAIN rb' = Slots
        /\ rb' = [i \in Slots |-> rb'[i]]
        /\ \A i \in Slots : rb'[i] = rb[i] \/ rb'[i] = [rb[i] EXCEPT !.time = Calc(rb[i].raw)]
    BY <2>1 DEF Poll
  <2>3. ASSUME NEW i \in Slots
        PROVE  rb'[i] \in Packets /\ rb'[i].raw = rb[i].raw
    <3>1. rb[i] \in Packets /\ Calc(rb[i].raw) \in Nat
      BY <2>1 DEF IInv, Exact, Packets, Reading0
    <3> QED BY <2>2, <3>1 DEF Packets
  <2> QED BY <2>2, <2>3 DEF IInv
<1>4. MainSound' /\ Typed'
  BY <1>1, <1>3, UnreadExact DEF MainSound, Typed
<1>5. (\A i \in Slots : Exact(rb[i].raw))'
  BY <1>1, <1>3 DEF Exact, Calc
<1> QED BY <1>2, <1>4, <1>5 DEF IInv

\* The other steps of the tick loop and the alarm read nothing.
LEMMA MainKeeps == IInv /\ (Ticks \/ Sleeps \/ Alarm) => IInv'
<1> SUFFICES ASSUME IInv, Ticks \/ Sleeps \/ Alarm PROVE IInv'
  OBVIOUS
<1>1. r \in Nat /\ w \in Nat /\ rb_r \in Nat /\ rb_w \in Nat
  BY DEF IInv, Typed
<1>2. CASE ConsumeInput
  <2>1. /\ UNCHANGED <<timerVars, handler, rb, rb_w, rb_r, raw, w>> /\ main' = "consumed"
    BY <1>2 DEF ConsumeInput, MainStep, bufferVars
  <2>2. r' \in Nat
    <3>1. CASE r' = r
      BY <1>1, <3>1
    <3>2. CASE \E i \in Consumed : r' = i + 1
      BY <1>1, <3>2 DEF Consumed
    <3> QED BY <1>2, <3>1, <3>2 DEF ConsumeInput
  <2> QED BY <1>1, <2>1, <2>2, OtherKeeps
<1>3. CASE Start \/ Release
  BY <1>1, <1>3, OtherKeeps DEF Start, Release, MainStep, bufferVars, localVars, loopVars
<1>4. CASE TickForInput \/ TickForEvent
  BY <1>1, <1>4, OtherKeeps DEF TickForInput, TickForEvent, LoopFrom, MainStep, bufferVars
<1>5. CASE SleepForever \/ WakeForever
  BY <1>1, <1>5, OtherKeeps DEF SleepForever, WakeForever, LoopFrom, MainStep, bufferVars,
                                localVars, loopVars
<1>6. CASE Sleep \/ SleepFails \/ Wake
  BY <1>1, <1>6, OtherKeeps DEF Sleep, SleepFails, Wake, MainStep, bufferVars, localVars, loopVars
<1>7. CASE Cancel \/ Cancelled \/ SemReset
  BY <1>1, <1>7, OtherKeeps DEF Cancel, Cancelled, SemReset, LoopFrom, MainStep, bufferVars,
                                localVars, loopVars
<1>8. CASE Alarm
  BY <1>1, <1>8, OtherKeeps DEF Alarm, bufferVars, localVars, loopVars
<1> QED BY <1>2, <1>3, <1>4, <1>5, <1>6, <1>7, <1>8 DEF Ticks, Sleeps

\* Every step keeps the invariant.
LEMMA StepKeeps == IInv /\ [Next]_vars => IInv'
<1> SUFFICES ASSUME IInv, [Next]_vars PROVE IInv'
  OBVIOUS
<1>1. CASE TimePasses
  BY <1>1, TimePassesKeeps
<1>2. CASE Interrupt
  BY <1>2, InterruptKeeps
<1>3. CASE Interrupts
  BY <1>3, OverflowKeeps, MainKeeps, InsertsKeeps DEF Interrupts
<1>4. CASE Main
  BY <1>4, ReadsKeeps, PollKeeps, MainKeeps DEF Main
<1>5. CASE UNCHANGED vars
  <2>1. UNCHANGED <<timerVars, handler, rb, rb_w, rb_r, raw, main, wall_time, r, w>>
    BY <1>5 DEF vars, bufferVars, localVars, loopVars
  <2> QED BY <2>1, OtherKeeps DEF IInv, Typed
<1> QED BY <1>1, <1>2, <1>3, <1>4, <1>5 DEF Next

\* IInv holds in every state: the clock, the readers and the buffer are sound.
THEOREM Invariance == Spec => []IInv
<1> QED BY InitSound, StepKeeps, PTL DEF Spec

\* TimesExact: the wall time the loop goes by, and the time stamp of every
\* packet it takes from the buffer, is a time at which the counter was read,
\* however the counter wraps and its interrupt falls among the three reads
\* of ssm_timer_read (zephyr-timer.h).
THEOREM TimesAreExact == Spec => []TimesExact
<1>1. IInv => TimesExact
  <2> SUFFICES ASSUME IInv PROVE TimesExact
    OBVIOUS
  <2>1. ASSUME NEW i \in Waiting PROVE Calc(InputGet(i).raw) = InputGet(i).raw.at
    <3>1. i \in Nat
      BY DEF Waiting, IInv, Typed
    <3> QED BY <3>1, IndexInBuffer DEF IInv, InputGet, Exact
  <2> QED BY <2>1 DEF TimesExact, IInv, MainSound
<1> QED BY <1>1, Invariance, PTL

-----------------------------------------------------------------------------
\* Outside of a sleep there is no callback, and between the two steps of
\* ssm_timer_cancel there is no alarm that could want it.
AlarmInv ==
  /\ alarm # NoAlarm \/ expired => timer_cb
  /\ error # "no_callback"
  /\ main \notin {"sleeping", "cancelling", "cancelled"} => ~timer_cb
  /\ main = "cancelled" => alarm = NoAlarm /\ ~expired

\* At the start there is neither a callback nor an alarm.
LEMMA AlarmInvInit == Init => AlarmInv
BY DEF Init, TimerInit, AlarmInv

\* Every step keeps AlarmInv: ssm_timer_cancel takes the alarm away before
\* its callback, and ssm_timer_set_alarm leaves none without the other.
LEMMA AlarmInvStep == IInv /\ AlarmInv /\ [Next]_vars => AlarmInv'
<1> SUFFICES ASSUME IInv, AlarmInv, [Next]_vars PROVE AlarmInv'
  OBVIOUS
<1>1. CASE TimePasses
  <2>1. (time + 1) % Range # NoAlarm
    <3>1. time + 1 \in Nat
      BY DEF IInv, ClockSound
    <3> QED BY <3>1, Split DEF NoAlarm
  <2>2. /\ UNCHANGED <<alarm, timer_cb, main, error>>
        /\ expired' => expired \/ (time + 1) % Range = alarm
    BY <1>1 DEF TimePasses, Counts, modelVars
  <2> QED BY <2>1, <2>2 DEF AlarmInv, NoAlarm
<1>2. CASE UNCHANGED <<alarmVars, main, error>>
  BY <1>2 DEF AlarmInv, alarmVars, NoAlarm
<1>3. CASE Alarm
  <2>1. UNCHANGED main
    BY <1>3 DEF Alarm
  <2> QED BY <1>3, <2>1 DEF AlarmInv, Alarm, AlarmGoesOff, NoAlarm
<1>4. CASE Overflow \/ Interrupt \/ \E h \in Handlers : Inserts(h)
  <2>1. UNCHANGED <<alarmVars, main, error>>
    BY <1>4 DEF Overflow, OverflowHandler, Interrupt, Inserts, ReadHi0, ReadLo, ReadHi1,
                ReadHeads, Publish, Post, HandlerStep, modelVars
  <2> QED BY <1>2, <2>1
<1>5. CASE Reads \/ Poll
  <2>1. /\ UNCHANGED <<alarmVars, error>>
        /\ main \in {"hi0", "lo", "hi1", "polling"} /\ main' \in {"lo", "hi1", "polling", "deciding"}
    BY <1>5 DEF Reads, MainReadsHi0, MainReadsLo, MainReadsHi1, Poll, MainStep, modelVars
  <2> QED BY <2>1 DEF AlarmInv, alarmVars, NoAlarm
<1>6. CASE Ticks
  <2>1. /\ UNCHANGED alarmVars
        /\ main \in {"starting", "deciding", "consumed", "ticking"}
        /\ main' \in {"hi0", "consumed", "ticking"}
        /\ error' = error \/ error' \in {"later_in_past", "invalid_time"}
    BY <1>6 DEF Ticks, Start, ConsumeInput, Release, TickForInput, TickForEvent, LoopFrom,
                MainStep, Instant, SsmTick, modelVars
  <2> QED BY <2>1 DEF AlarmInv, alarmVars, NoAlarm
<1>7. CASE SleepForever \/ WakeForever \/ SleepFails \/ SemReset
  <2>1. /\ UNCHANGED alarmVars
        /\ main \in {"deciding", "idle", "resetting"} /\ main' \in {"idle", "hi0", "deciding"}
        /\ error' = error \/ error' = "internal_error"
    BY <1>7 DEF SleepForever, WakeForever, SleepFails, SemReset, LoopFrom, MainStep, modelVars
  <2> QED BY <2>1 DEF AlarmInv, alarmVars, NoAlarm
<1>8. CASE Sleep
  <2>1. main' = "sleeping" /\ timer_cb' = TRUE /\ UNCHANGED error
    BY <1>8 DEF Sleep, SetAlarm, MainStep, modelVars
  <2> QED BY <2>1 DEF AlarmInv
<1>9. CASE Wake
  <2>1. UNCHANGED <<alarmVars, error>> /\ main = "sleeping" /\ main' = "cancelling"
    BY <1>9 DEF Wake, MainStep, modelVars
  <2> QED BY <2>1 DEF AlarmInv, alarmVars, NoAlarm
<1>10. CASE Cancel
  <2>1. alarm' = NoAlarm /\ expired' = FALSE /\ UNCHANGED error /\ main' = "cancelled"
    BY <1>10 DEF Cancel, CancelChannel, MainStep, modelVars
  <2> QED BY <2>1 DEF AlarmInv, NoAlarm
<1>11. CASE Cancelled
  <2>1. /\ timer_cb' = FALSE /\ UNCHANGED <<alarm, expired, error>>
        /\ main = "cancelled" /\ main' = "resetting"
    BY <1>11 DEF Cancelled, ClearCallback, MainStep, modelVars
  <2> QED BY <2>1 DEF AlarmInv, NoAlarm
<1>12. CASE UNCHANGED vars
  BY <1>2, <1>12 DEF vars, modelVars
<1> QED BY <1>1, <1>3, <1>4, <1>5, <1>6, <1>7, <1>8, <1>9, <1>10, <1>11, <1>12
        DEF Next, Interrupts, Main, Sleeps

\* AlarmHasCallback: an alarm that goes off finds the callback of the sleep it
\* was set for, which counter_alarm_callback (zephyr-timer.c) calls unchecked.
THEOREM CallbackIsThere == Spec => []AlarmHasCallback
<1>1. AlarmInv => AlarmHasCallback
  BY DEF AlarmInv, AlarmHasCallback
<1> QED BY <1>1, AlarmInvInit, AlarmInvStep, Invariance, PTL DEF Spec

-----------------------------------------------------------------------------
(***************************************************************************)
(* The buffer: at any time at most one handler is under way, and what it   *)
(* has read is not before anything in the buffer.                          *)
(***************************************************************************)
TimeOf(i)  == InputGet(i).raw.at
HasTime(h) == handler[h].at \in {"hi1", "stamped", "writing"}

\* One slot is always free, and another while a handler writes.  The packets the
\* loop has looked at are those below `scaled`.
Heads ==
  /\ scaled \in Nat /\ rb_r <= scaled /\ scaled <= rb_w
  /\ rb_w - rb_r <= SSM_INPUT_RB_SIZE - 1
  /\ \A h \in Handlers : handler[h].at = "writing" =>
       handler[h].w = rb_w /\ rb_w - rb_r <= SSM_INPUT_RB_SIZE - 2
  /\ \A h, k \in Handlers : handler[h].at = "idle" \/ handler[k].at = "idle" \/ h = k
  /\ main = "deciding" => r = rb_r /\ w = scaled
  /\ main = "consumed" => rb_r <= r /\ r <= scaled

\* The buffer is in the order of time; the input that is being inserted comes last.
Ordered ==
  /\ \A i, j \in Waiting : i <= j => TimeOf(i) <= TimeOf(j)
  /\ \A i \in Waiting : TimeOf(i) <= time
  /\ \A h \in Handlers : HasTime(h) =>
       handler[h].raw.at <= time /\ \A i \in Waiting : TimeOf(i) <= handler[h].raw.at

Scaled == \A i \in Waiting : i < scaled => InputGet(i).time = TimeOf(i)

\* t is not after any input that is still to be consumed.
NotAfter(t) ==
  /\ t <= time
  /\ \A i \in Waiting : t <= TimeOf(i)
  /\ \A h \in Handlers : HasTime(h) => t <= handler[h].raw.at

\* The inputs that came after the loop looked at the buffer came after it looked at
\* the clock.
Looked ==
  /\ now \in Nat /\ event_time \in Nat /\ next_time \in Nat
  /\ wall_time \in Nat /\ wall_time <= time
  /\ main \in {"polling", "deciding"} => next_time = event_time
  /\ main = "deciding" =>
       /\ \A i \in w..(rb_w - 1) : wall_time <= TimeOf(i)
       /\ \A h \in Handlers : HasTime(h) => wall_time <= handler[h].raw.at

InputInv ==
  /\ accepted = rb_w
  /\ Heads
  /\ Ordered
  /\ Scaled
  /\ NotAfter(now)
  /\ Looked
  /\ main \in {"consumed", "ticking"} => NotAfter(event_time)
  /\ error # "later_in_past"

\* The packets that wait have a time.
LEMMA HaveTimes ==
  ASSUME IInv
  PROVE  \A i \in Waiting : i \in Nat /\ Idx(i) \in Slots /\ TimeOf(i) \in Nat
BY IndexInBuffer DEF IInv, Typed, Waiting, TimeOf, InputGet, Packets, Reading0

\* What a handler has read is a number.
LEMMA HandlersHaveTimes ==
  ASSUME IInv, NEW h \in Handlers
  PROVE  handler[h].raw \in Reading0 /\ handler[h].raw.at \in Nat /\ time \in Nat
BY DEF IInv, Typed, ClockSound, HandlerStates, Reading0

\* Different heads of at most one turn are in different slots.
LEMMA SlotsApart ==
  ASSUME NEW i \in Nat, NEW j \in Nat, i < j, j - i <= SSM_INPUT_RB_SIZE - 1
  PROVE  Idx(i) # Idx(j)
<1>1. j < i + SSM_INPUT_RB_SIZE /\ SSM_INPUT_RB_SIZE \in Nat \ {0}
  BY ZephyrAssumption
<1> QED BY <1>1, Apart DEF Idx

\* ssm_input_write_ready says that there is room for one more.
LEMMA RoomForOne ==
  ASSUME NEW i \in Nat, NEW j \in Nat, j - i <= SSM_INPUT_RB_SIZE - 1, WriteReady(i, j)
  PROVE  j - i <= SSM_INPUT_RB_SIZE - 2
<1>1. SSM_INPUT_RB_SIZE \in Nat \ {0}
  BY ZephyrAssumption
<1>2. CASE j - i = SSM_INPUT_RB_SIZE - 1
  <2>1. j + 1 = i + SSM_INPUT_RB_SIZE
    BY <1>1, <1>2
  <2>2. Idx(j + 1) = Idx(i)
    BY <1>1, <2>1, ATurn DEF Idx
  <2> QED BY <2>2 DEF WriteReady, ReadReady
<1> QED BY <1>1, <1>2

\* The buffer starts empty.
LEMMA InputsInit == Init => InputInv
<1> SUFFICES ASSUME Init PROVE InputInv
  OBVIOUS
<1>1. Waiting = {} /\ \A h \in Handlers : ~HasTime(h) /\ handler[h].at = "idle"
  BY DEF Init, Waiting, HasTime
<1>2. Heads /\ Looked
  BY <1>1, ZephyrAssumption DEF Init, TimerInit, Heads, Looked
<1> QED BY <1>1, <1>2 DEF InputInv, Init, TimerInit, Ordered, Scaled, NotAfter

\* Time that passes, and the steps of the loop and of the alarm that have nothing
\* to do with the buffer.
LEMMA OthersKeepInputs ==
  ASSUME IInv, InputInv, time' \in Nat, time <= time',
         UNCHANGED <<handler, rb, rb_r, rb_w, accepted, scaled, now, event_time>>,
         error' # "later_in_past",
         \/ UNCHANGED <<main, wall_time, next_time, r, w>>
         \/ /\ main' \notin {"deciding", "consumed", "ticking"}
            /\ wall_time' \in Nat /\ wall_time' <= time' /\ next_time' \in Nat
            /\ main' = "polling" => next_time' = event_time
  PROVE  InputInv'
<1>1. /\ Waiting' = Waiting
      /\ \A i : TimeOf(i)' = TimeOf(i) /\ InputGet(i)' = InputGet(i)
      /\ \A h : HasTime(h)' = HasTime(h)
  BY DEF Waiting, TimeOf, InputGet, HasTime
<1>2. time \in Nat /\ \A i \in Waiting : TimeOf(i) \in Nat
  BY HaveTimes DEF IInv, ClockSound
<1>3. Heads' /\ Scaled'
  BY <1>1 DEF InputInv, Heads, Scaled
<1>4. Ordered'
  <2>1. \A h \in Handlers : HasTime(h)' => handler[h].raw.at <= time'
    BY <1>1, HandlersHaveTimes DEF InputInv, Ordered
  <2> QED BY <1>1, <1>2, <2>1 DEF InputInv, Ordered
<1>5. /\ NotAfter(now)'
      /\ main' \in {"consumed", "ticking"} => NotAfter(event_time)'
  BY <1>1, <1>2 DEF InputInv, NotAfter, Looked
<1>6. Looked'
  BY <1>1, <1>2 DEF InputInv, Looked
<1> QED BY <1>3, <1>4, <1>5, <1>6 DEF InputInv

\* A handler goes on without writing to the buffer.
LEMMA HandlerKeepsInputs ==
  ASSUME IInv, InputInv, NEW h \in Handlers, NEW to,
         handler' = [handler EXCEPT ![h] = to],
         UNCHANGED <<time, rb, rb_r, rb_w, accepted, scaled, main, wall_time, next_time,
                     r, w, now, event_time, error>>,
         to.at = "idle" \/ \A k \in Handlers : k = h \/ handler[k].at = "idle",
         to.at = "writing" => to.w = rb_w /\ rb_w - rb_r <= SSM_INPUT_RB_SIZE - 2,
         to.at \in {"hi1", "stamped", "writing"} =>
            \/ to.raw.at = time
            \/ HasTime(h) /\ to.raw.at = handler[h].raw.at
  PROVE  InputInv'
<1>1. /\ Waiting' = Waiting
      /\ \A i : TimeOf(i)' = TimeOf(i) /\ InputGet(i)' = InputGet(i)
  BY DEF Waiting, TimeOf, InputGet
<1>2. \A k \in Handlers : handler'[k] = IF k = h THEN to ELSE handler[k]
  BY DEF IInv, Typed
<1>3. time \in Nat /\ \A i \in Waiting : TimeOf(i) \in Nat
  BY HaveTimes DEF IInv, ClockSound
<1>4. ASSUME NEW k \in Handlers, HasTime(k)'
      PROVE  \/ handler'[k].raw.at = time
             \/ HasTime(k) /\ handler'[k].raw.at = handler[k].raw.at
  BY <1>2, <1>4 DEF HasTime
<1>5. Heads'
  BY <1>1, <1>2 DEF InputInv, Heads
<1>6. Ordered' /\ Scaled'
  BY <1>1, <1>3, <1>4 DEF InputInv, Ordered, Scaled
<1>7. /\ NotAfter(now)'
      /\ main' \in {"consumed", "ticking"} => NotAfter(event_time)'
  BY <1>1, <1>3, <1>4 DEF InputInv, NotAfter
<1>8. Looked'
  BY <1>1, <1>3, <1>4 DEF InputInv, Looked
<1> QED BY <1>5, <1>6, <1>7, <1>8 DEF InputInv

\* The packet goes to a slot that no waiting input is in, and is the last.
LEMMA PublishKeepsInputs ==
  ASSUME IInv, InputInv, NEW h \in Handlers, Publish(h)
  PROVE  InputInv'
<1>0. PICK last : last = rb_w
  OBVIOUS
<1> DEFINE stamp == handler[h].raw
<1>1. /\ UNCHANGED <<time, rb_r, scaled, main, wall_time, next_time, r, w, now, event_time, error>>
      /\ handler[h].at = "writing" /\ handler' = [handler EXCEPT ![h] = [Idle EXCEPT !.at = "posting"]]
      /\ rb' = [rb EXCEPT ![Idx(last)].raw = stamp]
      /\ last = rb_w /\ rb_w' = last + 1 /\ accepted' = rb_w'
  BY <1>0 DEF Publish, HandlerStep, InputInv, Heads, timerVars, localVars, loopVars, modelVars
<1>2. /\ rb_r \in Nat /\ rb_w \in Nat /\ rb_r <= rb_w /\ scaled \in Nat
      /\ rb_r <= scaled /\ scaled <= rb_w
      /\ rb_w - rb_r <= SSM_INPUT_RB_SIZE - 2
      /\ SSM_INPUT_RB_SIZE \in Nat /\ time \in Nat
      /\ stamp \in Reading0 /\ stamp.at \in Nat /\ stamp.at <= time
  BY <1>1, HandlersHaveTimes, ZephyrAssumption
     DEF IInv, Typed, InputInv, Heads, Ordered, HasTime
<1>3. Waiting' = Waiting \cup {last} /\ last \notin Waiting
  BY <1>1, <1>2 DEF Waiting
<1>4. Idx(last) \in Slots /\ rb \in [Slots -> Packets]
  BY <1>1, <1>2, IndexInBuffer DEF IInv, Typed
<1>5. \A i \in Waiting : InputGet(i)' = InputGet(i) /\ TimeOf(i)' = TimeOf(i)
  <2> SUFFICES ASSUME NEW i \in Waiting PROVE InputGet(i)' = InputGet(i)
    BY DEF TimeOf
  <2>1. Idx(i) # Idx(last)
    BY <1>1, <1>2, SlotsApart DEF Waiting
  <2> QED BY <1>1, <1>4, <2>1, HaveTimes DEF InputGet
<1>6. TimeOf(last)' = stamp.at
  BY <1>1, <1>4 DEF TimeOf, InputGet, Packets
<1>7. \A i \in Waiting : TimeOf(i) \in Nat /\ TimeOf(i) <= stamp.at
  BY <1>1, HaveTimes DEF InputInv, Ordered, HasTime
<1>8. \A k \in Handlers : handler'[k].at \notin {"hi1", "stamped", "writing"}
                          /\ (k # h => handler'[k].at = "idle")
  <2> TAKE k \in Handlers
  <2>1. CASE k = h
    BY <1>1, <2>1 DEF Idle, IInv, Typed
  <2>2. CASE k # h
    BY <1>1, <2>2 DEF InputInv, Heads, IInv, Typed
  <2> QED BY <2>1, <2>2
<1>9. Heads'
  BY <1>1, <1>2, <1>8 DEF InputInv, Heads
<1>10. Ordered'
  <2>1. \A i \in Waiting' : TimeOf(i)' <= time'
    BY <1>1, <1>2, <1>3, <1>5, <1>6 DEF InputInv, Ordered
  <2>2. \A i, j \in Waiting' : i <= j => TimeOf(i)' <= TimeOf(j)'
    <3> SUFFICES ASSUME NEW i \in Waiting', NEW j \in Waiting', i <= j
                 PROVE  TimeOf(i)' <= TimeOf(j)'
      OBVIOUS
    <3>1. CASE i \in Waiting /\ j \in Waiting
      BY <1>5, <3>1 DEF InputInv, Ordered
    <3>2. CASE i \in Waiting /\ j = last
      BY <1>5, <1>6, <1>7, <3>2
    <3>3. CASE i = last
      <4>1. j = last
        BY <1>1, <1>2, <3>3 DEF Waiting
      <4> QED BY <1>2, <1>6, <3>3, <4>1
    <3> QED BY <1>3, <3>1, <3>2, <3>3
  <2> QED BY <1>8, <2>1, <2>2 DEF Ordered, HasTime
<1>11. Scaled'
  BY <1>1, <1>2, <1>3, <1>5 DEF InputInv, Scaled
<1>12. /\ NotAfter(now)'
       /\ main' \in {"consumed", "ticking"} => NotAfter(event_time)'
  BY <1>1, <1>3, <1>5, <1>6, <1>8 DEF InputInv, NotAfter, HasTime
<1>13. Looked'
  <2>1. ASSUME main = "deciding", NEW i \in w..(rb_w' - 1) PROVE wall_time <= TimeOf(i)'
    <3>1. w \in Nat /\ rb_r <= w
      BY <1>2, <2>1 DEF InputInv, Heads
    <3>2. CASE i = last
      BY <1>1, <1>6, <2>1, <3>2 DEF InputInv, Looked, HasTime
    <3>3. CASE i # last
      <4>1. i \in w..(rb_w - 1) /\ i \in Waiting
        BY <1>1, <1>2, <2>1, <3>1, <3>3 DEF Waiting
      <4> QED BY <1>5, <2>1, <4>1 DEF InputInv, Looked
    <3> QED BY <3>2, <3>3
  <2> QED BY <1>1, <1>8, <2>1 DEF InputInv, Looked, HasTime
<1> QED BY <1>1, <1>9, <1>10, <1>11, <1>12, <1>13 DEF InputInv

\* Every step of ssm_insert_input keeps the buffer in order: handlers do not
\* interrupt one another, so the next one reads a later time.
LEMMA InsertsKeepInputs ==
  ASSUME IInv, InputInv, NEW h \in Handlers, Inserts(h)
  PROVE  InputInv'
<1> USE DEF HandlerStep, bufferVars, timerVars, localVars, loopVars, modelVars
<1> DEFINE x == handler[h]
<1>1. /\ x \in HandlerStates /\ rb_r \in Nat /\ rb_w \in Nat
      /\ rb_w - rb_r <= SSM_INPUT_RB_SIZE - 1
  BY DEF IInv, Typed, InputInv, Heads
<1>2. x.at # "idle" => \A k \in Handlers : k = h \/ handler[k].at = "idle"
  BY DEF InputInv, Heads
<1>3. CASE ReadHi0(h)
  <2> DEFINE to == [x EXCEPT !.at = "lo", !.raw = WithHi0(@)]
  <2>1. to.at = "lo"
    BY <1>1 DEF HandlerStates
  <2> QED BY <1>2, <1>3, <2>1, HandlerKeepsInputs DEF ReadHi0
<1>4. CASE ReadLo(h)
  <2> DEFINE to == [x EXCEPT !.at = "hi1", !.raw = WithLo(@)]
  <2>1. to.at = "hi1" /\ to.raw.at = time
    BY <1>1 DEF HandlerStates, WithLo, Reading0
  <2> QED BY <1>2, <1>4, <2>1, HandlerKeepsInputs DEF ReadLo
<1>5. CASE ReadHi1(h)
  <2> DEFINE to == [x EXCEPT !.at = "stamped", !.raw = WithHi1(@)]
  <2>1. to.at = "stamped" /\ to.raw.at = x.raw.at
    BY <1>1 DEF HandlerStates, WithHi1, Reading0
  <2>2. HasTime(h)
    BY <1>5 DEF ReadHi1, HasTime
  <2> QED BY <1>2, <1>5, <2>1, <2>2, HandlerKeepsInputs DEF ReadHi1
<1>6. CASE ReadHeads(h)
  <2> DEFINE to == IF WriteReady(rb_r, rb_w) THEN [x EXCEPT !.at = "writing", !.w = rb_w]
                   ELSE Idle
  <2>1. \/ to.at = "idle"
        \/ /\ to.at = "writing" /\ to.w = rb_w /\ to.raw.at = x.raw.at
           /\ rb_w - rb_r <= SSM_INPUT_RB_SIZE - 2
    BY <1>1, RoomForOne DEF HandlerStates, Idle
  <2>2. HasTime(h)
    BY <1>6 DEF ReadHeads, HasTime
  <2> QED BY <1>2, <1>6, <2>1, <2>2, HandlerKeepsInputs DEF ReadHeads
<1>7. CASE Publish(h)
  BY <1>7, PublishKeepsInputs
<1>8. CASE Post(h)
  <2>1. Idle.at = "idle"
    BY DEF Idle
  <2> QED BY <1>8, <2>1, HandlerKeepsInputs DEF Post
<1> QED BY <1>3, <1>4, <1>5, <1>6, <1>7, <1>8 DEF Inserts

\* An interrupt begins when no other is under way.
LEMMA InterruptKeepsInputs ==
  ASSUME IInv, InputInv, Interrupt
  PROVE  InputInv'
<1> USE DEF HandlerStep, timerVars, localVars, loopVars, modelVars
<1> DEFINE h  == CHOOSE k \in Handlers : handler[k].at = "idle"
           to == [handler[h] EXCEPT !.at = "hi0"]
<1>1. CASE h \in Handlers
  <2>1. to.at = "hi0"
    BY <1>1 DEF IInv, Typed, HandlerStates
  <2> QED BY <1>1, <2>1, HandlerKeepsInputs DEF Interrupt, MayBegin, HandlersIdle
<1>2. CASE h \notin Handlers
  <2>1. handler' = handler
    BY <1>2 DEF Interrupt, IInv, Typed
  <2>2. time' \in Nat /\ time <= time'
    BY DEF Interrupt, IInv, ClockSound
  <2> QED BY <2>1, <2>2, OthersKeepInputs DEF Interrupt, InputInv
<1> QED BY <1>1, <1>2

-----------------------------------------------------------------------------
\* The loop's reading is done: it is the time by now or before.
LEMMA ReadsKeepInputs ==
  ASSUME IInv, InputInv, Reads
  PROVE  InputInv'
<1> USE DEF MainStep, timerVars, bufferVars, loopVars, modelVars
<1>1. time \in Nat /\ time <= time /\ error # "later_in_past"
  BY DEF IInv, ClockSound, InputInv
<1>2. CASE MainReadsHi0 \/ MainReadsLo
  BY <1>1, <1>2, OthersKeepInputs DEF MainReadsHi0, MainReadsLo, InputInv, Looked
<1>3. CASE MainReadsHi1
  <2>1. /\ main = "hi1" /\ main' = "polling" /\ ~overflow
        /\ raw' = WithHi1(raw) /\ wall_time' = Calc(raw') /\ next_time' = event_time
        /\ UNCHANGED <<time, handler, rb, rb_r, rb_w, accepted, scaled, now, event_time, error>>
    BY <1>3 DEF MainReadsHi1
  <2>2. raw \in Reading0 /\ HasLo(raw) /\ ClockSound
    BY <2>1 DEF IInv, Typed, MainSound
  <2>3. wall_time' = raw.at
    <3>1. Exact(WithHi1(raw))
      BY <2>1, <2>2, ReadsHi1
    <3>2. WithHi1(raw).at = raw.at
      BY <2>2 DEF WithHi1, Reading0
    <3> QED BY <2>1, <3>1, <3>2 DEF Exact
  <2>4. wall_time' \in Nat /\ wall_time' <= time' /\ next_time' \in Nat
    BY <2>1, <2>2, <2>3 DEF HasLo, Reading0, InputInv, Looked
  <2> QED BY <1>1, <2>1, <2>4, OthersKeepInputs
<1> QED BY <1>2, <1>3 DEF Reads

\* poll_input_queue scales the times of the packets it has not seen, and of no other.
LEMMA PollKeepsInputs ==
  ASSUME IInv, InputInv, Poll
  PROVE  InputInv'
<1>1. /\ UNCHANGED <<time, handler, rb_r, rb_w, accepted, wall_time, next_time, now, event_time, error>>
      /\ main = "polling" /\ main' = "deciding" /\ r' = rb_r /\ w' = rb_w /\ scaled' = rb_w
      /\ rb' = [i \in DOMAIN rb |->
                  IF \E j \in scaled..(rb_w - 1) : i = Idx(j)
                  THEN [rb[i] EXCEPT !.time = Calc(rb[i].raw)] ELSE rb[i]]
      /\ \A h \in Handlers : ~HasTime(h) /\ handler[h].at = "idle"
  BY DEF Poll, timerVars, modelVars, HandlersIdle, HasTime
<1>2. /\ rb_r \in Nat /\ rb_w \in Nat /\ scaled \in Nat /\ rb_r <= scaled /\ scaled <= rb_w
      /\ rb \in [Slots -> Packets] /\ \A i \in Slots : Exact(rb[i].raw)
  BY DEF IInv, Typed, InputInv, Heads
<1>3. Waiting' = Waiting
  BY <1>1 DEF Waiting
<1>4. ASSUME NEW i \in Waiting
      PROVE  TimeOf(i)' = TimeOf(i) /\ InputGet(i)'.time = TimeOf(i)
  <2>1. i \in Nat /\ Idx(i) \in Slots /\ rb[Idx(i)] \in Packets
    BY <1>2, <1>4, HaveTimes
  <2>2. CASE \E j \in scaled..(rb_w - 1) : Idx(i) = Idx(j)
    <3>1. rb'[Idx(i)] = [rb[Idx(i)] EXCEPT !.time = Calc(rb[Idx(i)].raw)]
      BY <1>1, <1>2, <2>1, <2>2
    <3>2. rb'[Idx(i)].raw = rb[Idx(i)].raw /\ rb'[Idx(i)].time = Calc(rb[Idx(i)].raw)
      BY <2>1, <3>1 DEF Packets
    <3>3. Calc(rb[Idx(i)].raw) = rb[Idx(i)].raw.at
      BY <1>2, <2>1 DEF Exact
    <3> QED BY <3>2, <3>3 DEF TimeOf, InputGet
  <2>3. CASE ~(\E j \in scaled..(rb_w - 1) : Idx(i) = Idx(j))
    <3>1. rb'[Idx(i)] = rb[Idx(i)]
      BY <1>1, <1>2, <2>1, <2>3
    <3>2. i < scaled
      BY <1>2, <1>4, <2>3 DEF Waiting
    <3> QED BY <1>4, <3>1, <3>2 DEF InputInv, Scaled, TimeOf, InputGet
  <2> QED BY <2>2, <2>3
<1>5. Heads'
  BY <1>1, <1>2 DEF InputInv, Heads
<1>6. Ordered' /\ Scaled'
  BY <1>1, <1>3, <1>4 DEF InputInv, Ordered, Scaled, HasTime
<1>7. NotAfter(now)'
  BY <1>1, <1>3, <1>4 DEF InputInv, NotAfter, HasTime
<1>8. Looked'
  <2>1. \A i \in w'..(rb_w' - 1) : FALSE
    BY <1>1, <1>2
  <2> QED BY <1>1, <2>1 DEF InputInv, Looked, HasTime
<1> QED BY <1>1, <1>5, <1>6, <1>7, <1>8 DEF InputInv

\* The first input in the buffer is the earliest; its time becomes the next event's.
LEMMA ConsumeKeepsInputs ==
  ASSUME IInv, InputInv, ConsumeInput
  PROVE  InputInv'
<1>1. main = "deciding" /\ r # w /\ r = rb_r /\ w = scaled /\ r <= w /\ w <= rb_w
  BY DEF ConsumeInput, MainStep, InputFirst, ReadReady, InputInv, Heads
<1>2. r \in Nat /\ w \in Nat /\ rb_w \in Nat /\ r \in Waiting
  BY <1>1 DEF IInv, Typed, Waiting
<1>3. PICK t \in Nat : t = TimeOf(r)
  BY <1>2, HaveTimes
<1>4. InputGet(r).time = t
  BY <1>1, <1>2, <1>3 DEF InputInv, Scaled
<1>5. /\ UNCHANGED <<time, handler, rb, rb_w, rb_r, accepted, wall_time, next_time, w, scaled, now>>
      /\ main' = "consumed"
      /\ \A h \in Handlers : ~HasTime(h) /\ handler[h].at = "idle"
  BY DEF ConsumeInput, MainStep, timerVars, bufferVars, HandlersIdle, HasTime
<1>6. ~(t < now)
  BY <1>2, <1>3 DEF InputInv, NotAfter, Looked
<1>7. /\ event_time' = t /\ error' = error
      /\ \E i \in Consumed : r' = i + 1
  BY <1>4, <1>6 DEF ConsumeInput
<1>8. PICK i \in r..(w - 1) : r' = i + 1
  BY <1>7 DEF Consumed
<1>9. rb_r <= r' /\ r' <= scaled
  BY <1>1, <1>2, <1>8
<1>10. Waiting' = Waiting /\ \A k : TimeOf(k)' = TimeOf(k) /\ InputGet(k)' = InputGet(k)
  BY <1>5 DEF Waiting, TimeOf, InputGet
<1>11. NotAfter(t)
  BY <1>1, <1>2, <1>3, <1>5 DEF InputInv, Ordered, NotAfter, Waiting
<1>12. Heads' /\ Ordered' /\ Scaled'
  BY <1>5, <1>9, <1>10 DEF InputInv, Heads, Ordered, Scaled, HasTime
<1>13. NotAfter(now)' /\ NotAfter(event_time)'
  BY <1>5, <1>7, <1>10, <1>11 DEF InputInv, NotAfter, HasTime
<1>14. Looked'
  BY <1>3, <1>5, <1>7 DEF InputInv, Looked
<1> QED BY <1>5, <1>7, <1>12, <1>13, <1>14 DEF InputInv

\* The slots of what was consumed are free again.
LEMMA ReleaseKeepsInputs ==
  ASSUME IInv, InputInv, Release
  PROVE  InputInv'
<1>1. /\ UNCHANGED <<time, handler, rb, rb_w, accepted, wall_time, next_time, r, w, scaled,
                     now, event_time, error>>
      /\ main = "consumed" /\ main' = "ticking" /\ rb_r' = r
      /\ \A h \in Handlers : ~HasTime(h) /\ handler[h].at = "idle"
  BY DEF Release, MainStep, timerVars, bufferVars, localVars, loopVars, modelVars,
         HandlersIdle, HasTime
<1>2. /\ rb_r \in Nat /\ r \in Nat /\ rb_w \in Nat /\ rb_r <= r /\ r <= scaled
      /\ SSM_INPUT_RB_SIZE \in Nat
  BY <1>1, ZephyrAssumption DEF IInv, Typed, InputInv, Heads
<1>3. Waiting' \subseteq Waiting
  BY <1>1, <1>2 DEF Waiting
<1>4. \A i : TimeOf(i)' = TimeOf(i) /\ InputGet(i)' = InputGet(i)
  BY <1>1 DEF TimeOf, InputGet
<1>5. Heads'
  BY <1>1, <1>2 DEF InputInv, Heads
<1>6. Ordered' /\ Scaled' /\ Looked'
  BY <1>1, <1>3, <1>4 DEF InputInv, Ordered, Scaled, Looked, HasTime
<1>7. NotAfter(now)' /\ NotAfter(event_time)'
  BY <1>1, <1>3, <1>4 DEF InputInv, NotAfter, HasTime
<1> QED BY <1>1, <1>5, <1>6, <1>7 DEF InputInv

\* ssm_tick, at a time that no input is before.
LEMMA TickKeepsInputs ==
  ASSUME IInv, InputInv, SsmTick \/ Instant(now), NotAfter(event_time) \/ Instant(now),
         main' = "hi0", HandlersIdle,
         UNCHANGED <<time, handler, bufferVars, rb_r, scaled>>,
         \/ UNCHANGED <<wall_time, next_time>>
         \/ wall_time' = 0 /\ next_time' = Never
  PROVE  InputInv'
<1>1. /\ event_time' \in Nat /\ error' # "later_in_past" /\ time \in Nat
      /\ \/ now' = now
         \/ now' = event_time /\ NotAfter(event_time)
      /\ now' \in Nat
  BY ZephyrAssumption DEF InputInv, Looked, IInv, ClockSound, SsmTick, Instant, Times
<1>2. Waiting' = Waiting /\ \A i : TimeOf(i)' = TimeOf(i) /\ InputGet(i)' = InputGet(i)
  BY DEF Waiting, TimeOf, InputGet, bufferVars
<1>3. Heads' /\ Ordered' /\ Scaled'
  BY <1>2 DEF InputInv, Heads, Ordered, Scaled, HasTime, bufferVars
<1>4. NotAfter(now)'
  BY <1>1, <1>2 DEF InputInv, NotAfter, HasTime
<1>5. Looked'
  BY <1>1, ZephyrAssumption DEF InputInv, Looked
<1> QED BY <1>1, <1>3, <1>4, <1>5 DEF InputInv, bufferVars

\* An event is due and no input comes before it: those that the loop has not seen
\* came after it had read the clock.
LEMMA EventBeforeInputs ==
  ASSUME IInv, InputInv, main = "deciding", HandlersIdle, ~InputFirst, EventDue
  PROVE  NotAfter(event_time)
<1>1. /\ event_time = next_time /\ next_time <= wall_time /\ wall_time <= time
      /\ next_time \in Nat /\ wall_time \in Nat /\ time \in Nat
      /\ r \in Nat /\ w \in Nat /\ rb_w \in Nat /\ r = rb_r /\ w = scaled /\ r <= w /\ w <= rb_w
      /\ rb_w - rb_r <= SSM_INPUT_RB_SIZE - 1 /\ SSM_INPUT_RB_SIZE \in Nat
      /\ \A h \in Handlers : ~HasTime(h)
  BY ZephyrAssumption DEF EventDue, IInv, ClockSound, Typed, InputInv, Looked, Heads,
                          HandlersIdle, HasTime
<1>2. \A i \in Waiting : TimeOf(i) \in Nat
  BY HaveTimes
<1>3. CASE r = w
  <2>1. \A i \in Waiting : wall_time <= TimeOf(i)
    BY <1>1, <1>3 DEF Waiting, InputInv, Looked
  <2>2. \A i \in Waiting : next_time <= TimeOf(i)
    BY <1>1, <1>2, <2>1
  <2>3. next_time <= time
    BY <1>1
  <2> QED BY <1>1, <2>2, <2>3, Zenon DEF NotAfter
<1>4. CASE r < w
  <2>1. Idx(r) # Idx(w)
    BY <1>1, <1>4, SlotsApart
  <2>2. r \in Waiting
    BY <1>1, <1>4 DEF Waiting
  <2>3. InputGet(r).time = TimeOf(r)
    BY <1>1, <1>4, <2>2 DEF InputInv, Scaled
  <2>4. ~(TimeOf(r) <= next_time)
    BY <2>1, <2>3 DEF InputFirst, ReadReady
  <2>5. \A i \in Waiting : TimeOf(r) <= TimeOf(i)
    BY <1>1, <2>2 DEF InputInv, Ordered, Waiting
  <2>6. ASSUME NEW i \in Waiting PROVE next_time <= TimeOf(i)
    <3>1. TimeOf(r) \in Nat /\ TimeOf(i) \in Nat
      BY <1>2, <2>2, <2>6
    <3>2. TimeOf(r) <= TimeOf(i)
      BY <2>5, <2>6
    <3> QED BY <1>1, <2>4, <3>1, <3>2
  <2>7. next_time <= time
    BY <1>1
  <2> QED BY <1>1, <2>6, <2>7, Zenon DEF NotAfter
<1> QED BY <1>1, <1>3, <1>4

\* Every step of the tick loop keeps the buffer in order.
LEMMA MainKeepsInputs ==
  ASSUME IInv, InputInv, Main \/ Alarm
  PROVE  InputInv'
<1> USE DEF LoopFrom, MainStep, timerVars, bufferVars, localVars, loopVars, modelVars
<1>1. /\ time \in Nat /\ time <= time /\ 0 <= time /\ error # "later_in_past"
      /\ Never \in Nat /\ 0 \in Nat
      /\ wall_time \in Nat /\ wall_time <= time /\ next_time \in Nat
  BY ZephyrAssumption DEF IInv, ClockSound, InputInv, Looked
<1>2. CASE Reads \/ Poll \/ ConsumeInput \/ Release
  BY <1>2, ReadsKeepInputs, PollKeepsInputs, ConsumeKeepsInputs, ReleaseKeepsInputs
<1>3. CASE Start
  BY <1>3, TickKeepsInputs DEF Start
<1>4. CASE TickForInput
  <2>1. NotAfter(event_time)
    BY <1>4 DEF TickForInput, InputInv
  <2> QED BY <1>4, <2>1, TickKeepsInputs DEF TickForInput
<1>5. CASE TickForEvent
  BY <1>5, EventBeforeInputs, TickKeepsInputs DEF TickForEvent
<1>6. CASE SleepForever \/ Sleep \/ Wake \/ Cancel \/ Cancelled
  BY <1>1, <1>6, OthersKeepInputs DEF SleepForever, Sleep, Wake, Cancel, Cancelled
<1>7. CASE WakeForever \/ SemReset
  BY <1>1, <1>7, OthersKeepInputs DEF WakeForever, SemReset
<1>8. CASE SleepFails \/ Alarm
  BY <1>1, <1>8, OthersKeepInputs DEF SleepFails, Alarm
<1> QED BY <1>2, <1>3, <1>4, <1>5, <1>6, <1>7, <1>8 DEF Main, Ticks, Sleeps

\* Every step keeps the buffer in order.
LEMMA InputsStep ==
  ASSUME IInv, InputInv, [Next]_vars
  PROVE  InputInv'
<1>1. time \in Nat /\ time <= time /\ error # "later_in_past"
  BY DEF IInv, ClockSound, InputInv
<1>2. CASE TimePasses
  <2>1. time' \in Nat /\ time <= time'
    BY <1>1, <1>2 DEF TimePasses, Counts
  <2> QED BY <1>1, <1>2, <2>1, OthersKeepInputs
          DEF TimePasses, bufferVars, localVars, loopVars, modelVars
<1>3. CASE Overflow
  BY <1>1, <1>3, OthersKeepInputs
     DEF Overflow, OverflowHandler, bufferVars, localVars, loopVars, modelVars
<1>4. CASE Interrupt
  BY <1>4, InterruptKeepsInputs
<1>5. CASE \E h \in Handlers : Inserts(h)
  BY <1>5, InsertsKeepInputs
<1>6. CASE Main \/ Alarm
  BY <1>6, MainKeepsInputs
<1>7. CASE UNCHANGED vars
  BY <1>1, <1>7, OthersKeepInputs
     DEF vars, timerVars, bufferVars, localVars, loopVars, modelVars
<1> QED BY <1>2, <1>3, <1>4, <1>5, <1>6, <1>7 DEF Next, Interrupts

\* InputInv holds in every state: the buffer is in order.
THEOREM InputInvariance == Spec => []InputInv
<1> QED BY InputsInit, InputsStep, Invariance, PTL DEF Spec

\* InputsInOrder: what ssm_insert_input has accepted is in the buffer until it is
\* consumed, in the order of time, and carries its scaled time once the loop has
\* looked at it.
THEOREM InputsArriveInOrder == Spec => []InputsInOrder
<1>1. IInv /\ InputInv => InputsInOrder
  <2> SUFFICES ASSUME IInv, InputInv PROVE InputsInOrder
    OBVIOUS
  <2>1. \A i \in Waiting : i \in Nat
    BY HaveTimes
  <2> QED BY <2>1 DEF InputInv, Ordered, Scaled, InputsInOrder, TimeOf
<1> QED BY <1>1, Invariance, InputInvariance, PTL

\* InputsNotPast: the program's time is never ahead of the clock nor of an input in
\* the buffer, and so ssm_sv_later_unsafe takes every input.
THEOREM NoInputIsPast == Spec => []InputsNotPast
<1>1. IInv /\ InputInv => InputsNotPast
  <2> SUFFICES ASSUME IInv, InputInv PROVE InputsNotPast
    OBVIOUS
  <2>1. \A i \in Waiting : TimeOf(i) \in Nat
    BY HaveTimes
  <2> QED BY <2>1 DEF InputInv, NotAfter, Looked, InputsNotPast, TimeOf
<1> QED BY <1>1, Invariance, InputInvariance, PTL

-----------------------------------------------------------------------------
(***************************************************************************)
(* A sleep for an event.  The loop decides within half a range of a time   *)
(* it has read, and that is what the guard period of an alarm is for: what *)
(* the driver does not take to be too late is still to come.               *)
(***************************************************************************)
Timely ==
  /\ main = "hi1" => time - raw.at <= HalfRange - 1
  /\ main \in {"polling", "deciding"} => time - wall_time <= HalfRange - 1

\* An alarm for a time that has come in the last half of a range is refused.
LEMMA GuardPeriod ==
  ASSUME time \in Nat, NEW t \in Nat, t <= time, time - t < HalfRange - 1
  PROVE  TooLate(t % Range)
<1> DEFINE x == ((t % Range) - 1) - Counter
           d == (time + 1) - t
           q == ((time \div Range) - (t \div Range)) - 1
<1>1. /\ Range \in Nat \ {0} /\ HalfRange \in Nat /\ Range = 2 * HalfRange
      /\ t % Range \in Nat /\ t \div Range \in Nat
      /\ Counter \in Nat /\ time \div Range \in Nat
      /\ t = (t \div Range) * Range + (t % Range)
      /\ time = (time \div Range) * Range + Counter
  BY Split, TimerAssumption DEF Range, Counter
<1>2. d \in Nat /\ 1 <= d /\ d < HalfRange
  BY <1>1
<1>3. q \in Int
  BY <1>1
<1>4. x = q * Range + (Range - d)
  <2> DEFINE a == t \div Range
             b == time \div Range
             m == t % Range
  <2>1. /\ a \in Int /\ b \in Int /\ m \in Int /\ q = (b - a) - 1
        /\ t = a * Range + m /\ time = b * Range + Counter
        /\ x = (m - 1) - Counter /\ d = (time + 1) - t
    BY <1>1
  <2> HIDE DEF a, b, m, q, x, d
  <2>2. (b - a) * Range = (time - Counter) - (t - m)
    BY <1>1, <2>1
  <2>3. q * Range = (b - a) * Range - Range
    BY <1>1, <2>1
  <2> QED BY <1>1, <2>1, <2>2, <2>3
<1>5. x \in Int /\ Range - d \in 0..(Range - 1)
  BY <1>1, <1>2
<1>6. x % Range = Range - d
  <2> HIDE DEF x, d, q
  <2> QED BY <1>1, <1>3, <1>4, <1>5, Remainder
<1>7. Top - Guard = HalfRange
  BY <1>1 DEF Top, Guard
<1>8. Range - d > HalfRange
  BY <1>1, <1>2
<1> QED BY <1>6, <1>7, <1>8 DEF TooLate

SleepInv == Timely /\ WokenForEvents

\* At the start nobody sleeps.
LEMMA SleepInvInit == Init => SleepInv
BY DEF Init, SleepInv, Timely, WokenForEvents

\* A tick of the counter brings the alarm nearer, or is the one it is set for.
LEMMA TimePassesKeepsSleep ==
  ASSUME IInv, InputInv, SleepInv, TimePasses
  PROVE  SleepInv'
<1>1. /\ time \in Nat /\ time' = time + 1 /\ next_time \in Nat /\ wall_time \in Nat
      /\ raw.at \in Nat /\ HalfRange \in Nat
      /\ UNCHANGED <<main, raw, wall_time, next_time, handler, sem, alarm>>
      /\ expired' = (expired \/ (time + 1) % Range = alarm)
  BY TimerAssumption
     DEF TimePasses, Counts, IInv, Typed, Reading0, ClockSound, InputInv, Looked, localVars, loopVars
<1>2. Timely'
  <2>1. ~Deciding
    BY DEF TimePasses
  <2> QED BY <1>1, <2>1 DEF Timely, Deciding
<1>3. WokenForEvents'
  <2> SUFFICES ASSUME main = "sleeping", sem # 1, ~expired',
                      \A h \in Handlers : handler[h].at # "posting"
               PROVE  \E t \in (time' + 1)..next_time : t % Range = alarm
    BY <1>1 DEF WokenForEvents
  <2>1. ~expired /\ (time + 1) % Range # alarm
    BY <1>1
  <2>2. PICK t \in (time + 1)..next_time : t % Range = alarm
    BY <2>1 DEF SleepInv, WokenForEvents
  <2>3. t # time + 1
    BY <2>1, <2>2
  <2> QED BY <1>1, <2>2, <2>3
<1> QED BY <1>2, <1>3 DEF SleepInv

\* Steps at which nothing happens to a sleep but that it comes to its end.
LEMMA OthersKeepSleep ==
  ASSUME SleepInv, time' = time,
         main' = "hi1" => raw'.at = time \/ (main = "hi1" /\ raw' = raw),
         main' = "polling" =>
           \/ main = "polling" /\ wall_time' = wall_time
           \/ main = "hi1" /\ wall_time' = raw.at,
         main' = "deciding" => main \in {"polling", "deciding"} /\ wall_time' = wall_time,
         main' = "sleeping" =>
           \/ sem' = 1
           \/ /\ main = "sleeping" /\ UNCHANGED <<sem, expired, alarm, next_time>>
              /\ \A h \in Handlers : handler[h].at = "posting" => handler'[h].at = "posting",
         time \in Nat
  PROVE  SleepInv'
<1>1. HalfRange \in Nat /\ HalfRange >= 1 /\ time - time = 0
  BY TimerAssumption
<1>2. Timely'
  BY <1>1 DEF SleepInv, Timely
<1>3. WokenForEvents'
  BY DEF SleepInv, WokenForEvents
<1> QED BY <1>2, <1>3 DEF SleepInv

\* Steps of the handlers: a post ends the sleep.
LEMMA InsertsKeepSleep ==
  ASSUME IInv, SleepInv, NEW h \in Handlers, Inserts(h)
  PROVE  SleepInv'
<1> USE DEF HandlerStep, bufferVars, timerVars, alarmVars, localVars, loopVars, modelVars
<1>1. time \in Nat /\ \A k \in Handlers : handler[k] \in HandlerStates
  BY DEF IInv, ClockSound, Typed
<1>2. UNCHANGED <<time, main, raw, wall_time, next_time, expired, alarm>>
  BY DEF Inserts, ReadHi0, ReadLo, ReadHi1, ReadHeads, Publish, Post
<1>3. CASE Post(h)
  <2>1. sem' = 1
    BY <1>3 DEF Post, Given
  <2> QED BY <1>1, <1>2, <2>1, OthersKeepSleep
<1>4. CASE ~Post(h)
  <2>1. UNCHANGED sem /\ handler[h].at # "posting"
    BY <1>4 DEF Inserts, ReadHi0, ReadLo, ReadHi1, ReadHeads, Publish
  <2>2. \A k \in Handlers : k # h => handler'[k] = handler[k]
    BY DEF Inserts, ReadHi0, ReadLo, ReadHi1, ReadHeads, Publish, Post, IInv, Typed
  <2> QED BY <1>1, <1>2, <2>1, <2>2, OthersKeepSleep
<1> QED BY <1>3, <1>4

\* The loop goes to sleep: the driver has taken the alarm, so the event is ahead.
LEMMA SleepKeepsSleep ==
  ASSUME IInv, InputInv, SleepInv, Sleep
  PROVE  SleepInv'
<1>1. /\ time \in Nat /\ next_time \in Nat /\ wall_time \in Nat /\ HalfRange \in Nat
      /\ main = "deciding" /\ main' = "sleeping" /\ ~(next_time <= wall_time)
      /\ UNCHANGED <<time, next_time>>
      /\ ~TooLate(next_time % Range) /\ alarm' = next_time % Range
  BY TimerAssumption
     DEF Sleep, MainStep, SetAlarm, AlarmFails, EventDue, timerVars, localVars, loopVars,
         IInv, ClockSound, InputInv, Looked
<1>2. time - wall_time <= HalfRange - 1
  BY <1>1 DEF SleepInv, Timely
<1>3. next_time > time
  <2>1. CASE next_time <= time
    <3>1. time - next_time < HalfRange - 1
      BY <1>1, <1>2
    <3> QED BY <1>1, <2>1, <3>1, GuardPeriod
  <2> QED BY <1>1, <2>1
<1>4. next_time \in (time + 1)..next_time
  BY <1>1, <1>3
<1> QED BY <1>1, <1>4 DEF SleepInv, Timely, WokenForEvents

\* Every other step of the loop leaves a sleep alone, or ends it.
LEMMA MainKeepsSleep ==
  ASSUME IInv, InputInv, AlarmInv, SleepInv, Main \/ Alarm \/ Overflow \/ Interrupt
  PROVE  SleepInv'
<1> USE DEF LoopFrom, MainStep, bufferVars, timerVars, alarmVars, localVars, loopVars, modelVars
<1>1. time \in Nat
  BY DEF IInv, ClockSound
<1>2. CASE MainReadsHi0
  BY <1>1, <1>2, OthersKeepSleep DEF MainReadsHi0
<1>3. CASE MainReadsLo
  <2>1. raw'.at = time
    BY <1>3 DEF MainReadsLo, WithLo, IInv, Typed, Reading0
  <2> QED BY <1>1, <1>3, <2>1, OthersKeepSleep DEF MainReadsLo
<1>4. CASE MainReadsHi1
  <2>1. main = "hi1" /\ main' = "polling" /\ ~overflow /\ raw' = WithHi1(raw)
        /\ wall_time' = Calc(raw') /\ time' = time
    BY <1>4 DEF MainReadsHi1
  <2>2. raw \in Reading0 /\ HasLo(raw) /\ ClockSound
    BY <2>1 DEF IInv, Typed, MainSound
  <2>3. Exact(WithHi1(raw)) /\ WithHi1(raw).at = raw.at
    BY <2>1, <2>2, ReadsHi1 DEF WithHi1, Reading0
  <2>4. wall_time' = raw.at
    BY <2>1, <2>3 DEF Exact
  <2> QED BY <1>1, <2>1, <2>4, OthersKeepSleep
<1>5. CASE Poll \/ Ticks
  BY <1>1, <1>5, OthersKeepSleep
     DEF Poll, Ticks, Start, ConsumeInput, Release, TickForInput, TickForEvent
<1>6. CASE Sleep
  BY <1>6, SleepKeepsSleep
<1>7. CASE SleepForever \/ WakeForever \/ SleepFails
  BY <1>1, <1>7, OthersKeepSleep DEF SleepForever, WakeForever, SleepFails
<1>8. CASE Wake \/ Cancel \/ Cancelled \/ SemReset
  BY <1>1, <1>8, OthersKeepSleep DEF Wake, Cancel, Cancelled, SemReset
<1>9. CASE Alarm
  <2>1. sem' = 1
    BY <1>9 DEF Alarm, AlarmGoesOff, AlarmInv, Given
  <2> QED BY <1>1, <1>9, <2>1, OthersKeepSleep DEF Alarm
<1>10. CASE Overflow
  BY <1>1, <1>10, OthersKeepSleep DEF Overflow, OverflowHandler
<1>11. CASE Interrupt
  <2>1. \A h \in Handlers : handler[h].at # "posting"
    BY <1>11 DEF Interrupt, MayBegin, HandlersIdle
  <2> QED BY <1>1, <1>11, <2>1, OthersKeepSleep DEF Interrupt, HandlerStep
<1> QED BY <1>2, <1>3, <1>4, <1>5, <1>6, <1>7, <1>8, <1>9, <1>10, <1>11
        DEF Main, Reads, Sleeps

\* Every step keeps it that a sleep for an event is going to end.
LEMMA SleepInvStep ==
  ASSUME IInv, InputInv, AlarmInv, SleepInv, [Next]_vars
  PROVE  SleepInv'
<1>1. CASE TimePasses
  BY <1>1, TimePassesKeepsSleep
<1>2. CASE \E h \in Handlers : Inserts(h)
  BY <1>2, InsertsKeepSleep
<1>3. CASE Main \/ Alarm \/ Overflow \/ Interrupt
  BY <1>3, MainKeepsSleep
<1>4. CASE UNCHANGED vars
  BY <1>4, OthersKeepSleep
     DEF vars, timerVars, alarmVars, localVars, loopVars, IInv, ClockSound
<1> QED BY <1>1, <1>2, <1>3, <1>4 DEF Next, Interrupts

-----------------------------------------------------------------------------
(***************************************************************************)
(* That the loop does not sleep through an input.                          *)
(***************************************************************************)
\* A post has been made, or is about to be.
Roused == sem = 1 \/ \E h \in Handlers : handler[h].at = "posting"

\* An input that has come after t.
Since(t) == \E i \in Waiting : t < TimeOf(i)

\* Posts are forgotten only before the loop reads the time.  So an input later than
\* its reading, and one after its look at the buffer, still has its post.
PostInv ==
  /\ main = "hi1" /\ Since(raw.at) => Roused
  /\ main \in {"polling", "deciding"} /\ Since(wall_time) => Roused
  /\ main = "deciding" /\ w # rb_w => Roused
  /\ WokenForInputs

\* The places at which PostInv says something.
Watched == {"hi1", "polling", "deciding", "idle", "sleeping"}

\* Steps that leave the loop where it is, or where nothing is said of posts.
LEMMA OthersKeepPosts ==
  ASSUME PostInv, UNCHANGED <<rb, rb_r, rb_w>>, Roused => Roused',
         main' \notin Watched \/ UNCHANGED <<main, raw, wall_time, w>>
  PROVE  PostInv'
<1>1. CASE main' \notin Watched
  BY <1>1 DEF Watched, PostInv, WokenForInputs
<1>2. CASE UNCHANGED <<main, raw, wall_time, w>>
  <2>1. \A t : Since(t)' = Since(t)
    BY DEF Since, Waiting, TimeOf, InputGet
  <2> QED BY <1>2, <2>1 DEF PostInv, WokenForInputs, Roused
<1> QED BY <1>1, <1>2

\* The handlers: what they write to the buffer they are about to post.
LEMMA InsertsKeepPosts ==
  ASSUME IInv, PostInv, NEW h \in Handlers, Inserts(h)
  PROVE  PostInv'
<1> USE DEF HandlerStep, bufferVars, timerVars, alarmVars, localVars, loopVars, modelVars
<1>1. handler[h] \in HandlerStates /\ UNCHANGED <<main, raw, wall_time, w>>
  BY DEF Inserts, ReadHi0, ReadLo, ReadHi1, ReadHeads, Publish, Post, IInv, Typed
<1>2. CASE Publish(h) \/ Post(h)
  <2>1. Roused'
    BY <1>1, <1>2 DEF Publish, Post, Given, Idle, Roused, IInv, Typed
  <2> QED BY <2>1 DEF PostInv, Roused, WokenForInputs
<1>3. CASE ~(Publish(h) \/ Post(h))
  <2>1. UNCHANGED <<rb, rb_r, rb_w, sem>> /\ handler[h].at # "posting"
    BY <1>3 DEF Inserts, ReadHi0, ReadLo, ReadHi1, ReadHeads
  <2>2. \A k \in Handlers : k # h => handler'[k] = handler[k]
    BY DEF Inserts, ReadHi0, ReadLo, ReadHi1, ReadHeads, Publish, Post, IInv, Typed
  <2>3. Roused => Roused'
    BY <2>1, <2>2 DEF Roused
  <2> QED BY <1>1, <2>1, <2>3, OthersKeepPosts
<1> QED BY <1>2, <1>3

\* The loop goes to sleep with an input in the buffer: it has not seen it, or has put
\* it off for an event that is later than its reading of the time.
LEMMA SleepKeepsPosts ==
  ASSUME IInv, InputInv, PostInv, Sleep \/ SleepForever
  PROVE  PostInv'
<1> USE DEF MainStep, bufferVars, timerVars, localVars, loopVars, modelVars
<1>1. /\ UNCHANGED <<rb_r, rb_w, sem, handler>>
      /\ main = "deciding" /\ main' \in {"sleeping", "idle"}
      /\ ~InputFirst /\ ~EventDue
  BY DEF Sleep, SleepForever
<1>2. /\ r \in Nat /\ w \in Nat /\ rb_w \in Nat /\ r = rb_r /\ w = scaled /\ r <= w /\ w <= rb_w
      /\ rb_w - rb_r <= SSM_INPUT_RB_SIZE - 1 /\ SSM_INPUT_RB_SIZE \in Nat
      /\ wall_time \in Nat /\ next_time \in Nat /\ wall_time < next_time
  BY <1>1, ZephyrAssumption DEF IInv, Typed, InputInv, Heads, Looked, EventDue
<1>3. rb_r # rb_w => Roused
  <2> SUFFICES ASSUME rb_r # rb_w PROVE Roused
    OBVIOUS
  <2>1. CASE r = w
    BY <1>1, <1>2, <2>1 DEF PostInv
  <2>2. CASE r # w
    <3>1. Idx(r) # Idx(w)
      BY <1>2, <2>2, SlotsApart
    <3>2. r \in Waiting /\ r < scaled
      BY <1>2, <2>2 DEF Waiting
    <3>3. InputGet(r).time = TimeOf(r) /\ TimeOf(r) \in Nat
      BY <3>2, HaveTimes DEF InputInv, Scaled
    <3>4. ~(TimeOf(r) <= next_time)
      BY <1>1, <3>1, <3>3 DEF InputFirst, ReadReady
    <3>5. Since(wall_time)
      BY <1>2, <3>2, <3>3, <3>4 DEF Since
    <3> QED BY <1>1, <3>5 DEF PostInv
  <2> QED BY <2>1, <2>2
<1> QED BY <1>1, <1>3 DEF PostInv, Roused, WokenForInputs

\* The loop reads the time: whatever is in the buffer has come before.
LEMMA ReadsKeepPosts ==
  ASSUME IInv, InputInv, PostInv, Reads
  PROVE  PostInv'
<1> USE DEF MainStep, bufferVars, timerVars, alarmVars, localVars, loopVars, modelVars
<1>1. UNCHANGED <<rb, rb_r, rb_w, sem, handler, time>>
  BY DEF Reads, MainReadsHi0, MainReadsLo, MainReadsHi1
<1>2. \A t : Since(t)' = Since(t)
  BY <1>1 DEF Since, Waiting, TimeOf, InputGet
<1>3. CASE MainReadsHi0
  BY <1>1, <1>3, OthersKeepPosts DEF MainReadsHi0, Roused, Watched
<1>4. CASE MainReadsLo
  <2>1. raw'.at = time /\ main' = "hi1"
    BY <1>4 DEF MainReadsLo, WithLo, IInv, Typed, Reading0
  <2>2. \A i \in Waiting : TimeOf(i) \in Nat /\ TimeOf(i) <= time /\ time \in Nat
    BY HaveTimes DEF IInv, ClockSound, InputInv, Ordered
  <2>3. ~Since(time)
    BY <2>2 DEF Since
  <2>4. ~Since(raw.at)'
    BY <1>1, <1>2, <2>1, <2>3
  <2> QED BY <2>1, <2>4 DEF PostInv, WokenForInputs
<1>5. CASE MainReadsHi1
  <2>1. main = "hi1" /\ main' = "polling" /\ ~overflow /\ wall_time' = Calc(WithHi1(raw))
    BY <1>5 DEF MainReadsHi1
  <2>2. raw \in Reading0 /\ HasLo(raw) /\ ClockSound
    BY <2>1 DEF IInv, Typed, MainSound
  <2>3. wall_time' = raw.at
    BY <2>1, <2>2, ReadsHi1 DEF WithHi1, Reading0, Exact
  <2>4. Since(wall_time)' => Since(raw.at)
    BY <1>2, <2>3
  <2> QED BY <1>1, <2>1, <2>4 DEF PostInv, Roused, WokenForInputs
<1> QED BY <1>3, <1>4, <1>5 DEF Reads

\* The loop looks at the buffer: there is nothing it has not seen.
LEMMA PollKeepsPosts ==
  ASSUME IInv, PostInv, Poll
  PROVE  PostInv'
<1>1. /\ UNCHANGED <<rb_r, rb_w, sem, handler, wall_time>>
      /\ main = "polling" /\ main' = "deciding" /\ w' = rb_w
  BY DEF Poll
<1>2. \A i \in Waiting : TimeOf(i)' = TimeOf(i)
  <2> TAKE i \in Waiting
  <2>1. rb[Idx(i)] \in Packets /\ Idx(i) \in DOMAIN rb
    BY IndexInBuffer DEF IInv, Typed, Waiting
  <2>2. rb'[Idx(i)].raw = rb[Idx(i)].raw
    BY <2>1 DEF Poll, Packets
  <2>3. Idx(i)' = Idx(i)
    BY DEF Idx
  <2> QED BY <2>2, <2>3 DEF TimeOf, InputGet
<1>3. Since(wall_time)' => Since(wall_time)
  BY <1>1, <1>2 DEF Since, Waiting
<1> QED BY <1>1, <1>3 DEF PostInv, Roused, WokenForInputs

\* Every step keeps it that an input finds the loop awake or a post to wake it.
LEMMA PostInvStep ==
  ASSUME IInv, InputInv, PostInv, [Next]_vars
  PROVE  PostInv'
<1> USE DEF LoopFrom, MainStep, bufferVars, timerVars, alarmVars, localVars, loopVars, modelVars
<1>1. CASE TimePasses
  BY <1>1, OthersKeepPosts DEF TimePasses, Roused
<1>2. CASE Interrupt
  <2>1. \A h \in Handlers : handler[h].at # "posting"
    BY <1>2 DEF Interrupt, MayBegin, HandlersIdle
  <2>2. UNCHANGED <<rb, rb_r, rb_w, sem, main, raw, wall_time, w>>
    BY <1>2 DEF Interrupt, HandlerStep
  <2> QED BY <2>1, <2>2, OthersKeepPosts DEF Roused
<1>3. CASE Overflow
  BY <1>3, OthersKeepPosts DEF Overflow, Roused
<1>4. CASE Alarm
  BY <1>4, OthersKeepPosts DEF Alarm, Roused, Given
<1>5. CASE \E h \in Handlers : Inserts(h)
  BY <1>5, InsertsKeepPosts
<1>6. CASE Reads \/ Poll \/ Sleep \/ SleepForever
  BY <1>6, ReadsKeepPosts, PollKeepsPosts, SleepKeepsPosts
<1>7. CASE Start \/ TickForInput \/ TickForEvent \/ WakeForever \/ SemReset
  <2>1. UNCHANGED <<rb, rb_r, rb_w>> /\ main' \notin Watched
    BY <1>7 DEF Start, TickForInput, TickForEvent, WakeForever, SemReset, Watched
  <2> QED BY <2>1 DEF PostInv, WokenForInputs, Watched
<1>8. CASE ConsumeInput \/ Release \/ Wake \/ Cancel \/ Cancelled
  <2>1. main' \notin Watched
    BY <1>8 DEF ConsumeInput, Release, Wake, Cancel, Cancelled, Watched
  <2> QED BY <2>1 DEF PostInv, WokenForInputs, Watched
<1>9. CASE SleepFails
  BY <1>9, OthersKeepPosts DEF SleepFails, Roused
<1>10. CASE UNCHANGED vars
  BY <1>10, OthersKeepPosts DEF vars, Roused
<1> QED BY <1>1, <1>2, <1>3, <1>4, <1>5, <1>6, <1>7, <1>8, <1>9, <1>10
        DEF Next, Interrupts, Main, Ticks, Sleeps

\* SleepsEnd: while the loop sleeps for an event, a post or an alarm that is due by
\* then is on its way, for any width of the counter and however far the event is; and
\* while it sleeps with an input in the buffer, a post has come or is about to.
THEOREM NoSleepIsTooLong == Spec => []SleepsEnd
<1>1. Spec => []AlarmInv
  BY AlarmInvInit, AlarmInvStep, Invariance, PTL DEF Spec
<1>2. Spec => []SleepInv
  BY <1>1, SleepInvInit, SleepInvStep, Invariance, InputInvariance, PTL DEF Spec
<1>3. Init => PostInv
  BY DEF Init, PostInv, WokenForInputs
<1>4. Spec => []PostInv
  BY <1>3, PostInvStep, Invariance, InputInvariance, PTL DEF Spec
<1>5. SleepInv /\ PostInv => SleepsEnd
  BY DEF SleepInv, PostInv, SleepsEnd
<1> QED BY <1>2, <1>4, <1>5, PTL
=============================================================================
