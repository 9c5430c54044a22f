----------------------------- MODULE PosixProofs -----------------------------
(***************************************************************************)
(* The input buffer of PosixPlatform, for any size of it and of the pipe   *)
(* and any number of inputs: no input is overwritten, lost or taken out of *)
(* order, and none is overtaken by the program's time.                     *)
(***************************************************************************)
EXTENDS PosixPlatform, Lemmas

Slots   == 0..(SSM_INPUT_RB_SIZE - 1)
Packets == [input : Nat, time : Nat]
TimeOf(i) == InputGet(i).time

Typed ==
  /\ clock \in Nat /\ stamp \in Nat /\ wall_time \in Nat
  /\ now \in Nat /\ event_time \in Nat /\ next_time \in Nat
  /\ rb \in [Slots -> Packets]
  /\ rb_r \in Nat /\ rb_w \in Nat /\ r \in Nat /\ w \in Nat
  /\ thread \in {"reading", "locking", "stamped", "signalling"}
  /\ rb_lk = (thread = "stamped")

\* One slot is always free, and another while the thread has an input that has
\* not been written.  The main loop's r and w are in between.
Heads ==
  /\ rb_r <= rb_w /\ rb_w - rb_r <= SSM_INPUT_RB_SIZE - 1
  /\ thread \in {"locking", "stamped"} => rb_w - rb_r <= SSM_INPUT_RB_SIZE - 2
  /\ main = "deciding" => r = rb_r /\ r <= w /\ w <= rb_w
  /\ main = "consumed" => rb_r <= r /\ r <= rb_w

\* The buffer is in the order of time; the input that is stamped comes last.
Ordered ==
  /\ \A i, j \in Unread : i <= j => TimeOf(i) <= TimeOf(j)
  /\ \A i \in Unread : TimeOf(i) <= clock
  /\ thread = "stamped" => stamp <= clock /\ \A i \in Unread : TimeOf(i) <= stamp

\* t is not after any input that is still to be consumed.
NotAfter(t) ==
  /\ t <= clock
  /\ \A i \in Unread : t <= TimeOf(i)
  /\ thread = "stamped" => t <= stamp

\* The inputs that came after the main loop looked at the buffer came after it
\* looked at the clock.
Looked ==
  /\ wall_time <= clock
  /\ main \in {"polling", "deciding"} => next_time = event_time
  /\ main = "deciding" =>
       /\ \A i \in w..(rb_w - 1) : wall_time <= TimeOf(i)
       /\ thread = "stamped" => wall_time <= stamp

IInv ==
  /\ Typed
  /\ Heads
  /\ InputsInOrder
  /\ Ordered
  /\ NotAfter(now)
  /\ Looked
  /\ main \in {"consumed", "ticking"} => NotAfter(event_time)
  /\ error # "later_in_past"

-----------------------------------------------------------------------------
\* ssm_input_idx gives a slot of the buffer.
LEMMA IndexInBuffer == \A i \in Nat : Idx(i) \in Slots
BY Turns, PosixAssumption DEF Idx, Slots

\* Different heads of at most one turn are in different slots.
LEMMA SlotsApart ==
  ASSUME NEW i \in Nat, NEW j \in Nat, i < j, j - i <= SSM_INPUT_RB_SIZE - 1
  PROVE  Idx(i) # Idx(j)
<1>1. j < i + SSM_INPUT_RB_SIZE /\ SSM_INPUT_RB_SIZE \in Nat \ {0}
  BY PosixAssumption
<1> QED BY <1>1, Apart DEF Idx

\* ssm_input_write_ready says that there is room for one more.
LEMMA RoomForOne ==
  ASSUME NEW i \in Nat, NEW j \in Nat, j - i <= SSM_INPUT_RB_SIZE - 1, WriteReady(i, j)
  PROVE  j - i <= SSM_INPUT_RB_SIZE - 2
<1>1. SSM_INPUT_RB_SIZE \in Nat \ {0}
  BY PosixAssumption
<1>2. CASE j - i = SSM_INPUT_RB_SIZE - 1
  <2>1. j + 1 = i + SSM_INPUT_RB_SIZE
    BY <1>1, <1>2
  <2>2. Idx(j + 1) = Idx(i)
    BY <1>1, <2>1, ATurn DEF Idx
  <2> QED BY <2>2 DEF WriteReady, ReadReady
<1> QED BY <1>1, <1>2

\* The program starts with an empty buffer.
LEMMA InitSound == Init => IInv
<1> SUFFICES ASSUME Init PROVE IInv
  OBVIOUS
<1>1. Unread = {}
  BY DEF Init, Unread
<1>2. Typed
  BY PosixAssumption DEF Init, Typed, Slots, Packets
<1>3. Heads
  BY PosixAssumption DEF Init, Heads
<1> QED BY <1>1, <1>2, <1>3
        DEF IInv, Init, InputsInOrder, Ordered, NotAfter, Looked

\* Time that passes, and what the thread and the loop do without the buffer.
LEMMA OthersKeep ==
  ASSUME IInv, clock' \in Nat, clock <= clock',
         UNCHANGED <<rb, rb_r, rb_w, rb_lk, stamp, wall_time, next_time, r, w,
                     now, event_time, taken, error>>,
         \/ thread' = thread
         \/ thread = "signalling" /\ thread' = "reading",
         \/ main' = main
         \/ main' \notin {"polling", "deciding", "consumed", "ticking"} /\ main # "consumed"
  PROVE  IInv'
<1>1. Unread' = Unread /\ \A i : TimeOf(i)' = TimeOf(i) /\ InputGet(i)' = InputGet(i)
  BY DEF Unread, TimeOf, InputGet
<1>2. Typed'
  BY DEF IInv, Typed
<1>3. Heads' /\ InputsInOrder'
  BY <1>1 DEF IInv, Heads, InputsInOrder
<1>4. \A i \in Unread : TimeOf(i) \in Nat
  BY IndexInBuffer DEF IInv, Typed, Unread, TimeOf, InputGet, Packets
<1>5. Ordered'
  BY <1>1, <1>4 DEF IInv, Ordered, Typed
<1>6. /\ NotAfter(now)'
      /\ main' \in {"consumed", "ticking"} => NotAfter(event_time)'
  BY <1>1 DEF IInv, NotAfter, Typed
<1>7. Looked'
  BY <1>1 DEF IInv, Looked, Typed
<1> QED BY <1>2, <1>3, <1>5, <1>6, <1>7 DEF IInv

\* The packets that are to be consumed have a time.
LEMMA Stamped == IInv => \A i \in Unread : i \in Nat /\ TimeOf(i) \in Nat
BY IndexInBuffer DEF IInv, Typed, Unread, TimeOf, InputGet, Packets

-----------------------------------------------------------------------------
(***************************************************************************)
(* The stdin thread.                                                       *)
(***************************************************************************)
\* A character has room: the read head moves only forward until it is written.
LEMMA GetCharKeeps == IInv /\ GetChar => IInv'
<1> SUFFICES ASSUME IInv, GetChar PROVE IInv'
  OBVIOUS
<1>1. /\ UNCHANGED <<clock, bufferVars, rb_r, stamp, main, localVars, modelVars>>
      /\ UNCHANGED <<clock, rb, rb_r, rb_w, rb_lk, stamp, main, wall_time, next_time, r, w,
                     now, event_time, taken, error>>
      /\ thread = "reading" /\ thread' = "locking"
  BY DEF GetChar, bufferVars, localVars, modelVars
<1>2. Unread' = Unread /\ \A i : TimeOf(i)' = TimeOf(i) /\ InputGet(i)' = InputGet(i)
  BY <1>1 DEF Unread, TimeOf, InputGet
<1>3. rb_w - rb_r <= SSM_INPUT_RB_SIZE - 2
  BY RoomForOne DEF GetChar, IInv, Typed, Heads
<1>4. Typed'
  BY <1>1 DEF IInv, Typed
<1>5. Heads' /\ InputsInOrder' /\ Ordered' /\ Looked'
  BY <1>1, <1>2, <1>3 DEF IInv, Heads, InputsInOrder, Ordered, Looked
<1>6. NotAfter(now)' /\ (main' \in {"consumed", "ticking"} => NotAfter(event_time)')
  BY <1>1, <1>2 DEF IInv, NotAfter
<1> QED BY <1>1, <1>4, <1>5, <1>6 DEF IInv

\* The time is read under the lock: whatever main had seen before is before it.
LEMMA LockAndStampKeeps == IInv /\ LockAndStamp => IInv'
<1> SUFFICES ASSUME IInv, LockAndStamp PROVE IInv'
  OBVIOUS
<1>1. /\ UNCHANGED <<clock, rb, rb_r, rb_w, main, wall_time, next_time, r, w,
                     now, event_time, taken, error>>
      /\ thread = "locking" /\ thread' = "stamped" /\ rb_lk' = TRUE /\ stamp' = clock
  BY DEF LockAndStamp, localVars, modelVars
<1>2. Unread' = Unread /\ \A i : TimeOf(i)' = TimeOf(i) /\ InputGet(i)' = InputGet(i)
  BY <1>1 DEF Unread, TimeOf, InputGet
<1>3. Typed'
  BY <1>1 DEF IInv, Typed
<1>4. Heads' /\ InputsInOrder' /\ Ordered' /\ Looked'
  BY <1>1, <1>2 DEF IInv, Typed, Heads, InputsInOrder, Ordered, Looked
<1>5. NotAfter(now)' /\ (main' \in {"consumed", "ticking"} => NotAfter(event_time)')
  BY <1>1, <1>2 DEF IInv, Typed, NotAfter
<1> QED BY <1>1, <1>3, <1>4, <1>5 DEF IInv

\* The packet goes to a slot that no unread input is in, and is the last.
LEMMA PublishKeeps == IInv /\ Publish => IInv'
<1> SUFFICES ASSUME IInv, Publish PROVE IInv'
  OBVIOUS
<1>0. PICK last : last = rb_w
  OBVIOUS
<1> DEFINE packet == [input |-> last, time |-> stamp]
<1>1. /\ UNCHANGED <<clock, rb_r, main, wall_time, next_time, r, w,
                     now, event_time, taken, error>>
      /\ thread = "stamped" /\ thread' = "signalling" /\ rb_lk' = FALSE /\ stamp' = 0
      /\ rb' = [rb EXCEPT ![Idx(last)] = packet]
      /\ last = rb_w /\ rb_w' = last + 1
  BY <1>0 DEF Publish, localVars, modelVars
<1>2. /\ rb_r \in Nat /\ rb_w \in Nat /\ rb_r <= rb_w
      /\ rb_w - rb_r <= SSM_INPUT_RB_SIZE - 2
      /\ SSM_INPUT_RB_SIZE \in Nat /\ clock \in Nat /\ stamp \in Nat
  BY <1>1, PosixAssumption DEF IInv, Typed, Heads
<1>3. Unread' = Unread \cup {last} /\ last \notin Unread
  BY <1>1, <1>2 DEF Unread
<1>4. \A i \in Unread : InputGet(i)' = InputGet(i) /\ TimeOf(i)' = TimeOf(i)
  <2> SUFFICES ASSUME NEW i \in Unread PROVE InputGet(i)' = InputGet(i)
    BY DEF TimeOf
  <2>1. Idx(i) # Idx(last)
    BY <1>1, <1>2, SlotsApart DEF Unread
  <2>2. Idx(i) \in Slots /\ i \in Nat
    BY <1>2, IndexInBuffer DEF Unread
  <2> QED BY <1>1, <2>1, <2>2 DEF InputGet, IInv, Typed
<1>5. InputGet(last)' = packet
  BY <1>1, <1>2, IndexInBuffer DEF InputGet, IInv, Typed
<1>6. TimeOf(last)' = stamp /\ \A i \in Unread : TimeOf(i) \in Nat /\ TimeOf(i) <= stamp
  BY <1>1, <1>5, Stamped DEF TimeOf, IInv, Ordered
<1>7. Typed'
  <2>1. packet \in Packets /\ Idx(last) \in Slots
    BY <1>1, <1>2, IndexInBuffer DEF Packets
  <2>2. rb' \in [Slots -> Packets]
    BY <1>1, <2>1 DEF IInv, Typed
  <2>3. rb_lk' = (thread' = "stamped")
    BY <1>1
  <2> QED BY <1>1, <1>2, <2>2, <2>3 DEF IInv, Typed
<1>8. Heads'
  BY <1>1, <1>2 DEF IInv, Heads, Typed
<1>9. InputsInOrder'
  <2>1. \A i \in Unread' : InputGet(i)'.input = i
    BY <1>3, <1>4, <1>5 DEF IInv, InputsInOrder
  <2> QED BY <1>1, <2>1 DEF IInv, InputsInOrder
<1>10. Ordered'
  <2>1. stamp <= clock
    BY <1>1 DEF IInv, Ordered
  <2>2. \A i \in Unread' : TimeOf(i)' <= clock'
    BY <1>1, <1>3, <1>4, <1>6, <2>1 DEF IInv, Ordered
  <2>3. \A i, j \in Unread' : i <= j => TimeOf(i)' <= TimeOf(j)'
    <3> SUFFICES ASSUME NEW i \in Unread', NEW j \in Unread', i <= j
                 PROVE  TimeOf(i)' <= TimeOf(j)'
      OBVIOUS
    <3>1. CASE i \in Unread /\ j \in Unread
      BY <1>4, <3>1 DEF IInv, Ordered
    <3>2. CASE i \in Unread /\ j = last
      BY <1>4, <1>6, <3>2
    <3>3. CASE i = last
      <4>1. j = last
        BY <1>1, <1>2, <1>3, <3>3 DEF Unread
      <4> QED BY <1>2, <1>6, <3>3, <4>1
    <3> QED BY <1>3, <3>1, <3>2, <3>3
  <2> QED BY <1>1, <2>2, <2>3 DEF Ordered
<1>11. NotAfter(now)' /\ (main' \in {"consumed", "ticking"} => NotAfter(event_time)')
  BY <1>1, <1>3, <1>4, <1>6 DEF NotAfter, IInv
<1>12. Looked'
  <2> SUFFICES ASSUME main = "deciding"
               PROVE  \A i \in w..(rb_w' - 1) : wall_time <= TimeOf(i)'
    BY <1>1 DEF IInv, Looked
  <2>1. w \in Nat /\ rb_r <= w /\ w <= rb_w
    BY <1>2 DEF IInv, Heads, Typed
  <2> TAKE i \in w..(rb_w' - 1)
  <2>2. CASE i = last
    BY <1>1, <1>6, <2>2 DEF IInv, Looked
  <2>3. CASE i # last
    <3>1. i \in w..(rb_w - 1) /\ i \in Unread
      BY <1>1, <1>2, <2>1, <2>3 DEF Unread
    <3> QED BY <1>4, <3>1 DEF IInv, Looked
  <2> QED BY <2>2, <2>3
<1> QED BY <1>1, <1>7, <1>8, <1>9, <1>10, <1>11, <1>12 DEF IInv

-----------------------------------------------------------------------------
(***************************************************************************)
(* The main loop.                                                          *)
(***************************************************************************)
\* The loop reads the clock and its next event.
LEMMA ReadTimesKeeps == IInv /\ ReadTimes => IInv'
<1> SUFFICES ASSUME IInv, ReadTimes PROVE IInv'
  OBVIOUS
<1>1. /\ UNCHANGED <<clock, rb, rb_r, rb_w, rb_lk, thread, stamp, r, w,
                     now, event_time, taken, error>>
      /\ main = "looping" /\ main' = "polling"
      /\ wall_time' = clock /\ next_time' = event_time
  BY DEF ReadTimes, bufferVars, threadVars, modelVars
<1>2. Unread' = Unread /\ \A i : TimeOf(i)' = TimeOf(i) /\ InputGet(i)' = InputGet(i)
  BY <1>1 DEF Unread, TimeOf, InputGet
<1>3. Typed'
  BY <1>1 DEF IInv, Typed
<1>4. Heads' /\ InputsInOrder' /\ Ordered' /\ Looked'
  BY <1>1, <1>2 DEF IInv, Typed, Heads, InputsInOrder, Ordered, Looked
<1>5. NotAfter(now)'
  BY <1>1, <1>2 DEF IInv, NotAfter
<1> QED BY <1>1, <1>3, <1>4, <1>5 DEF IInv

\* The loop looks at the buffer under the lock: nothing that is stamped is missing.
LEMMA PollKeeps == IInv /\ Poll => IInv'
<1> SUFFICES ASSUME IInv, Poll PROVE IInv'
  OBVIOUS
<1>1. /\ UNCHANGED <<clock, rb, rb_r, rb_w, rb_lk, thread, stamp, wall_time, next_time,
                     now, event_time, taken, error>>
      /\ main = "polling" /\ main' = "deciding" /\ r' = rb_r /\ w' = rb_w
  BY DEF Poll, bufferVars, threadVars, modelVars
<1>2. thread # "stamped"
  BY DEF Poll, IInv, Typed
<1>3. Unread' = Unread /\ \A i : TimeOf(i)' = TimeOf(i) /\ InputGet(i)' = InputGet(i)
  BY <1>1 DEF Unread, TimeOf, InputGet
<1>4. Typed'
  BY <1>1 DEF IInv, Typed
<1>5. Heads' /\ InputsInOrder' /\ Ordered'
  BY <1>1, <1>3 DEF IInv, Typed, Heads, InputsInOrder, Ordered
<1>6. Looked'
  <2>1. \A i \in w'..(rb_w' - 1) : FALSE
    BY <1>1 DEF IInv, Typed
  <2> QED BY <1>1, <1>2, <2>1 DEF IInv, Looked
<1>7. NotAfter(now)'
  BY <1>1, <1>3 DEF IInv, NotAfter
<1> QED BY <1>1, <1>4, <1>5, <1>6, <1>7 DEF IInv

\* The first input in the buffer is the earliest; its time becomes the next event's.
LEMMA ConsumeInputKeeps == IInv /\ ConsumeInput => IInv'
<1> SUFFICES ASSUME IInv, ConsumeInput PROVE IInv'
  OBVIOUS
<1>1. main = "deciding" /\ r # w /\ r = rb_r /\ r <= w /\ w <= rb_w
  BY DEF ConsumeInput, InputFirst, ReadReady, IInv, Heads
<1>2. r \in Nat /\ w \in Nat /\ rb_w \in Nat /\ r \in Unread
  BY <1>1 DEF IInv, Typed, Unread
<1>3. PICK t \in Nat : t = TimeOf(r)
  BY <1>2, Stamped
<1>4. NotAfter(t)
  BY <1>1, <1>2, <1>3 DEF IInv, Ordered, NotAfter, Unread
<1>5. ~(t < now)
  BY <1>2, <1>3 DEF IInv, NotAfter, Typed
<1>6. /\ event_time' = t /\ main' = "consumed"
      /\ \E i \in Consumed : r' = i + 1 /\ taken' = InputGet(i).input + 1
      /\ UNCHANGED <<clock, rb, rb_r, rb_w, rb_lk, thread, stamp, wall_time, next_time, w,
                     now, error>>
  BY <1>3, <1>5 DEF ConsumeInput, TimeOf, bufferVars, threadVars
<1>7. PICK i \in r..(w - 1) : r' = i + 1 /\ taken' = InputGet(i).input + 1
  BY <1>6 DEF Consumed
<1>8. i \in Unread /\ r' \in Nat /\ rb_r <= r' /\ r' <= rb_w /\ taken' = r'
  BY <1>1, <1>2, <1>7 DEF IInv, InputsInOrder, Unread
<1>9. Unread' = Unread /\ \A k : TimeOf(k)' = TimeOf(k) /\ InputGet(k)' = InputGet(k)
  BY <1>6 DEF Unread, TimeOf, InputGet
<1>10. Typed'
  BY <1>3, <1>6, <1>8 DEF IInv, Typed
<1>11. Heads' /\ InputsInOrder' /\ Ordered' /\ Looked'
  BY <1>1, <1>6, <1>8, <1>9 DEF IInv, Heads, InputsInOrder, Ordered, Looked
<1>12. NotAfter(now)' /\ NotAfter(event_time)'
  BY <1>4, <1>6, <1>9 DEF IInv, NotAfter
<1> QED BY <1>6, <1>10, <1>11, <1>12 DEF IInv

\* The slots of what was consumed are free again.
LEMMA ReleaseKeeps == IInv /\ Release => IInv'
<1> SUFFICES ASSUME IInv, Release PROVE IInv'
  OBVIOUS
<1>1. /\ UNCHANGED <<clock, rb, rb_w, rb_lk, thread, stamp, wall_time, next_time, r, w,
                     now, event_time, taken, error>>
      /\ main = "consumed" /\ main' = "ticking" /\ rb_r' = r
  BY DEF Release, bufferVars, threadVars, localVars, modelVars
<1>2. /\ rb_r \in Nat /\ r \in Nat /\ rb_w \in Nat /\ rb_r <= r /\ r <= rb_w
      /\ SSM_INPUT_RB_SIZE \in Nat
  BY <1>1, PosixAssumption DEF IInv, Typed, Heads
<1>3. Unread' \subseteq Unread
  BY <1>1, <1>2 DEF Unread
<1>4. \A i : TimeOf(i)' = TimeOf(i) /\ InputGet(i)' = InputGet(i)
  BY <1>1 DEF TimeOf, InputGet
<1>5. Typed'
  BY <1>1 DEF IInv, Typed
<1>6. Heads'
  BY <1>1, <1>2 DEF IInv, Heads
<1>7. InputsInOrder' /\ Ordered' /\ Looked'
  BY <1>1, <1>3, <1>4 DEF IInv, InputsInOrder, Ordered, Looked
<1>8. NotAfter(now)' /\ NotAfter(event_time)'
  BY <1>1, <1>3, <1>4 DEF IInv, NotAfter
<1> QED BY <1>1, <1>5, <1>6, <1>7, <1>8 DEF IInv

\* ssm_tick, at a time that no input is before.
LEMMA TickKeeps ==
  ASSUME IInv, SsmTick \/ Instant(now), NotAfter(event_time) \/ Instant(now),
         main \in {"starting", "ticking", "deciding"}, main' = "looping",
         UNCHANGED <<clock, bufferVars, rb_r, pipe, threadVars, localVars>>
  PROVE  IInv'
<1>1. UNCHANGED <<clock, rb, rb_r, rb_w, rb_lk, thread, stamp, wall_time, next_time, r, w, taken>>
  BY DEF SsmTick, Instant, bufferVars, threadVars, localVars
<1>2. event_time' \in Nat /\ error' # "later_in_past"
  BY PosixAssumption DEF IInv, Typed, SsmTick, Instant, Times
<1>3. \/ now' = now
      \/ now' = event_time /\ NotAfter(event_time)
  BY DEF SsmTick, Instant
<1>4. Unread' = Unread /\ \A i : TimeOf(i)' = TimeOf(i) /\ InputGet(i)' = InputGet(i)
  BY <1>1 DEF Unread, TimeOf, InputGet
<1>5. Typed'
  BY <1>1, <1>2, <1>3 DEF IInv, Typed
<1>6. Heads' /\ InputsInOrder' /\ Ordered' /\ Looked'
  BY <1>1, <1>4 DEF IInv, Heads, InputsInOrder, Ordered, Looked
<1>7. NotAfter(now)'
  BY <1>1, <1>3, <1>4 DEF IInv, NotAfter
<1> QED BY <1>2, <1>5, <1>6, <1>7 DEF IInv

\* An event is due and no input comes before it: those that the loop has not seen
\* came after it had read the clock.
LEMMA EventBeforeInputs ==
  ASSUME IInv, main = "deciding", ~InputFirst, EventDue
  PROVE  NotAfter(event_time)
<1>1. /\ event_time = next_time /\ next_time <= wall_time /\ wall_time <= clock
      /\ thread = "stamped" => wall_time <= stamp
      /\ next_time \in Nat /\ wall_time \in Nat /\ clock \in Nat /\ stamp \in Nat
      /\ r \in Nat /\ w \in Nat /\ rb_w \in Nat /\ r = rb_r /\ r <= w /\ w <= rb_w
      /\ rb_w - rb_r <= SSM_INPUT_RB_SIZE - 1 /\ SSM_INPUT_RB_SIZE \in Nat
  BY PosixAssumption DEF EventDue, IInv, Looked, Typed, Heads
<1>2. \A i \in Unread : TimeOf(i) \in Nat
  BY Stamped
<1>3. CASE r = w
  <2>1. \A i \in Unread : wall_time <= TimeOf(i)
    BY <1>1, <1>3 DEF Unread, IInv, Looked
  <2> QED BY <1>1, <1>2, <2>1 DEF NotAfter
<1>4. CASE r < w
  <2>1. Idx(r) # Idx(w)
    BY <1>1, <1>4, SlotsApart
  <2>2. r \in Unread /\ ~(TimeOf(r) <= next_time)
    BY <1>1, <1>4, <2>1 DEF InputFirst, ReadReady, TimeOf, Unread
  <2>3. \A i \in Unread : TimeOf(r) <= TimeOf(i)
    BY <1>1, <2>2 DEF IInv, Ordered, Unread
  <2> QED BY <1>1, <1>2, <2>2, <2>3 DEF NotAfter
<1> QED BY <1>1, <1>3, <1>4

-----------------------------------------------------------------------------
\* Every step of the two threads keeps the invariant.
LEMMA StepKeeps == IInv /\ [Next]_vars => IInv'
<1> SUFFICES ASSUME IInv, [Next]_vars PROVE IInv'
  OBVIOUS
<1> USE DEF bufferVars, threadVars, localVars, modelVars
<1>1. clock \in Nat /\ clock <= clock
  BY DEF IInv, Typed
<1>2. CASE TimePasses
  <2>1. clock' \in Nat /\ clock <= clock'
    BY <1>1, <1>2 DEF TimePasses
  <2> QED BY <1>2, <2>1, OthersKeep DEF TimePasses
<1>3. CASE GetChar \/ Handler
  BY <1>1, <1>3, GetCharKeeps, LockAndStampKeeps, PublishKeeps, OthersKeep
     DEF Handler, Signal
<1>4. CASE Start
  BY <1>4, TickKeeps DEF Start
<1>5. CASE ReadTimes \/ Poll \/ ConsumeInput \/ Release
  BY <1>5, ReadTimesKeeps, PollKeeps, ConsumeInputKeeps, ReleaseKeeps
<1>6. CASE TickForInput
  <2>1. NotAfter(event_time)
    BY <1>6 DEF TickForInput, IInv
  <2> QED BY <1>6, <2>1, TickKeeps DEF TickForInput
<1>7. CASE TickForEvent
  BY <1>7, EventBeforeInputs, TickKeeps DEF TickForEvent
<1>8. CASE Sleep \/ Woken \/ FdSemRead \/ TimesOut \/ Break
  BY <1>1, <1>8, OthersKeep DEF Sleep, Woken, FdSemRead, TimesOut, Break
<1>9. CASE UNCHANGED vars
  BY <1>1, <1>9, OthersKeep DEF vars
<1> QED BY <1>2, <1>3, <1>4, <1>5, <1>6, <1>7, <1>8, <1>9 DEF Next, Main

\* IInv holds in every state.
THEOREM Invariance == Spec => []IInv
<1> QED BY InitSound, StepKeeps, PTL DEF Spec

\* InputsInOrder: no input is overwritten before it is consumed, and none is
\* consumed twice or out of order, for any size of the buffer, though
\* ssm_stdin_handler tests for room before it takes the lock.
THEOREM InputsArriveInOrder == Spec => []InputsInOrder
<1>1. IInv => InputsInOrder
  BY DEF IInv
<1> QED BY <1>1, Invariance, PTL

\* InputsNotPast: the program's time is never ahead of the clock nor of an input
\* that has been stamped, and so ssm_sv_later_unsafe takes every input.
THEOREM NoInputIsPast == Spec => []InputsNotPast
<1>1. IInv => InputsNotPast
  <2> SUFFICES ASSUME IInv PROVE InputsNotPast
    OBVIOUS
  <2>1. NotAfter(now) /\ error # "later_in_past"
    BY DEF IInv
  <2>2. \A i \in Unread : TimeOf(i) \in Nat
    BY Stamped
  <2> QED BY <2>1, <2>2 DEF NotAfter, InputsNotPast, TimeOf, IInv, Typed
<1> QED BY <1>1, Invariance, PTL

-----------------------------------------------------------------------------
(***************************************************************************)
(* That the main loop does not sleep through an input.                     *)
(***************************************************************************)
\* A byte is in the pipe, or the thread is about to write one.
Roused == pipe > 0 \/ thread = "signalling"

\* The loop reads no byte between its look at the clock and its sleep.  So an input
\* later than that look, and one after its look at the buffer, has its byte still.
Later == \E i \in Unread : wall_time < TimeOf(i)

Wakes ==
  /\ pipe \in Nat
  /\ main \in {"polling", "deciding"} /\ Later => Roused
  /\ main = "deciding" /\ w # rb_w => Roused
  /\ NoInputSleptThrough

\* Steps of the thread and of time, which leave the main loop where it is.
LEMMA ThreadWakes == IInv /\ Wakes /\ (TimePasses \/ GetChar \/ Handler) => Wakes'
<1> SUFFICES ASSUME IInv, Wakes, TimePasses \/ GetChar \/ Handler PROVE Wakes'
  OBVIOUS
<1> USE DEF bufferVars, threadVars, localVars, modelVars
<1>1. CASE TimePasses \/ GetChar \/ LockAndStamp
  <2>1. /\ UNCHANGED <<rb, rb_r, rb_w, pipe, main, wall_time, w>>
        /\ thread' # "signalling" => thread # "signalling"
    BY <1>1 DEF TimePasses, GetChar, LockAndStamp
  <2>2. Unread' = Unread /\ \A i : TimeOf(i)' = TimeOf(i)
    BY <2>1 DEF Unread, TimeOf, InputGet
  <2> QED BY <2>1, <2>2 DEF Wakes, Later, Roused, NoInputSleptThrough
<1>2. CASE Publish \/ Signal
  <2>1. pipe' \in Nat /\ Roused'
    BY <1>2 DEF Publish, Signal, Wakes, Roused
  <2> QED BY <2>1 DEF Wakes, Roused, NoInputSleptThrough
<1> QED BY <1>1, <1>2 DEF Handler

\* The loop goes to sleep with an input in the buffer: it has not seen it, or has
\* put it off for an event that is later than its look at the clock.
LEMMA SleepWakes == IInv /\ Wakes /\ Sleep => Wakes'
<1> SUFFICES ASSUME IInv, Wakes, Sleep PROVE Wakes'
  OBVIOUS
<1>1. /\ UNCHANGED <<rb_r, rb_w, pipe, thread>>
      /\ main = "deciding" /\ main' = "sleeping"
      /\ ~InputFirst /\ ~EventDue
  BY DEF Sleep, bufferVars, threadVars, localVars, modelVars
<1>2. /\ r \in Nat /\ w \in Nat /\ rb_w \in Nat /\ r = rb_r /\ r <= w /\ w <= rb_w
      /\ rb_w - rb_r <= SSM_INPUT_RB_SIZE - 1 /\ SSM_INPUT_RB_SIZE \in Nat
      /\ wall_time \in Nat /\ next_time \in Nat /\ wall_time < next_time
  BY <1>1, PosixAssumption DEF IInv, Typed, Heads, EventDue
<1>3. rb_r # rb_w => Roused
  <2> SUFFICES ASSUME rb_r # rb_w PROVE Roused
    OBVIOUS
  <2>1. CASE r = w
    BY <1>1, <1>2, <2>1 DEF Wakes
  <2>2. CASE r # w
    <3>1. Idx(r) # Idx(w)
      BY <1>2, <2>2, SlotsApart
    <3>2. r \in Unread /\ ~(TimeOf(r) <= next_time)
      BY <1>1, <1>2, <2>2, <3>1 DEF InputFirst, ReadReady, TimeOf, Unread
    <3>3. TimeOf(r) \in Nat
      BY <3>2, Stamped
    <3>4. Later
      BY <1>2, <3>2, <3>3 DEF Later
    <3> QED BY <1>1, <3>4 DEF Wakes
  <2> QED BY <2>1, <2>2
<1> QED BY <1>1, <1>3 DEF Wakes, Roused, NoInputSleptThrough

\* The other steps of the main loop.
LEMMA MainWakes == IInv /\ Wakes /\ Main => Wakes'
<1> SUFFICES ASSUME IInv, Wakes, Main PROVE Wakes'
  OBVIOUS
<1> USE DEF bufferVars, threadVars, localVars, modelVars
<1>1. CASE ReadTimes
  <2>1. UNCHANGED <<rb, rb_r, rb_w, pipe, clock>> /\ main' = "polling" /\ wall_time' = clock
    BY <1>1 DEF ReadTimes
  <2>2. Unread' = Unread /\ \A i : TimeOf(i)' = TimeOf(i)
    BY <2>1 DEF Unread, TimeOf, InputGet
  <2>3. \A i \in Unread : TimeOf(i) \in Nat /\ TimeOf(i) <= clock /\ clock \in Nat
    BY Stamped DEF IInv, Ordered, Typed
  <2>4. ~Later'
    BY <2>1, <2>2, <2>3 DEF Later
  <2> QED BY <2>1, <2>4 DEF Wakes, NoInputSleptThrough
<1>2. CASE Poll
  <2>1. /\ UNCHANGED <<rb, rb_r, rb_w, pipe, thread, wall_time>>
        /\ main = "polling" /\ main' = "deciding" /\ w' = rb_w
    BY <1>2 DEF Poll
  <2>2. Unread' = Unread /\ \A i : TimeOf(i)' = TimeOf(i)
    BY <2>1 DEF Unread, TimeOf, InputGet
  <2> QED BY <2>1, <2>2 DEF Wakes, Later, Roused, NoInputSleptThrough
<1>3. CASE ConsumeInput
  <2>1. UNCHANGED <<rb, rb_r, rb_w, pipe, thread, wall_time, w>> /\ main' \in {main, "consumed"}
    BY <1>3 DEF ConsumeInput
  <2>2. Unread' = Unread /\ \A i : TimeOf(i)' = TimeOf(i)
    BY <2>1 DEF Unread, TimeOf, InputGet
  <2> QED BY <2>1, <2>2 DEF Wakes, Later, Roused, NoInputSleptThrough
<1>4. CASE Start \/ Release \/ TickForInput \/ TickForEvent \/ TimesOut \/ Break
  <2>1. pipe' = pipe /\ main' \in {"looping", "ticking", "done"}
    BY <1>4 DEF Start, Release, TickForInput, TickForEvent, TimesOut, Break
  <2> QED BY <2>1 DEF Wakes, NoInputSleptThrough
<1>5. CASE FdSemRead
  <2>1. pipe' = pipe - 1 /\ pipe > 0 /\ main' = "looping"
    BY <1>5 DEF FdSemRead
  <2> QED BY <2>1 DEF Wakes, NoInputSleptThrough
<1>6. CASE Woken
  <2>1. UNCHANGED <<rb_r, rb_w, pipe, thread>> /\ main = "sleeping" /\ main' = "woken"
    BY <1>6 DEF Woken
  <2> QED BY <2>1 DEF Wakes, Roused, NoInputSleptThrough
<1> QED BY <1>1, <1>2, <1>3, <1>4, <1>5, <1>6, SleepWakes DEF Main

\* NoInputSleptThrough: while an input is in the buffer and the main loop of
\* posix-main.c is in pselect or about to read the pipe, there is a byte to wake it
\* or one on its way, for any size of the buffer and of the pipe.  In particular
\* fd_sem_read does not block for ever while an input waits.
THEOREM InputsWakeTheLoop == Spec => []NoInputSleptThrough
<1>1. Init => Wakes
  BY DEF Init, Wakes, NoInputSleptThrough
<1>2. IInv /\ Wakes /\ [Next]_vars => Wakes'
  <2> SUFFICES ASSUME IInv, Wakes, UNCHANGED vars PROVE Wakes'
    BY ThreadWakes, MainWakes DEF Next
  <2>1. UNCHANGED <<rb, rb_r, rb_w, pipe, thread, main, wall_time, w>>
    BY DEF vars, bufferVars, threadVars, localVars
  <2>2. Unread' = Unread /\ \A i : TimeOf(i)' = TimeOf(i)
    BY <2>1 DEF Unread, TimeOf, InputGet
  <2> QED BY <2>1, <2>2 DEF Wakes, Later, Roused, NoInputSleptThrough
<1>3. Wakes => NoInputSleptThrough
  BY DEF Wakes
<1> QED BY <1>1, <1>2, <1>3, Invariance, PTL DEF Spec
=============================================================================
