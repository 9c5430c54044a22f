--------------------------- MODULE ZephyrPlatform ---------------------------
(***************************************************************************)
(* The Zephyr platform: the thread of zephyr-tick.c, which calls ssm_tick  *)
(* and sleeps on a semaphore until an alarm or an input, against the       *)
(* interrupts that insert inputs (ssm_insert_input), the counter's and the *)
(* alarm's.  Interrupts stop the thread, and the counter's stops all.  Of  *)
(* the program only its next event is modelled, as for POSIX.              *)
(***************************************************************************)
EXTENDS ZephyrTimer, Sequences

CONSTANTS
  SSM_INPUT_RB_SIZE,
  Handlers,   \* interrupt handlers that insert inputs
  NumInputs,  \* the inputs that come (a bound)
  Never       \* SSM_NEVER

ASSUME ZephyrAssumption ==
  /\ SSM_INPUT_RB_SIZE \in Nat /\ SSM_INPUT_RB_SIZE >= 2
  /\ NumInputs \in Nat
  /\ Never \in Nat /\ Never > MaxTime

VARIABLES
  handler,     \* where each handler is, what it has read
  rb,          \* the packets: the time raw, and scaled
  rb_r, rb_w,  \* the read and the write head, never wrapped
  sem,         \* ssm_tick_sem, of at most 1
  main,        \* where the thread is
  wall_time, next_time, r, w,  \* the variables of its loop's body
  raw,         \* what ssm_timer_read has read
  scaled,      \* how many packets have been scaled
  now,         \* the model time
  event_time,  \* ssm_next_event_time()
  arrived,     \* auxiliary: the inputs that have come
  accepted,    \* and those for which ssm_insert_input returned 0
  error

bufferVars == <<rb, rb_w, arrived, accepted>>
loopVars   == <<wall_time, next_time, r, w>>
localVars  == <<raw, loopVars, scaled>>
modelVars  == <<now, event_time, error>>
vars == <<timerVars, alarmVars, handler, bufferVars, rb_r, sem, main, localVars, modelVars>>

Times == 0..MaxTime

\* ssm_input_idx, ssm_input_get, ssm_input_read_ready, ssm_input_write_ready
Idx(i)             == i % SSM_INPUT_RB_SIZE
InputGet(i)        == rb[Idx(i)]
ReadReady(rr, ww)  == Idx(rr) # Idx(ww)
WriteReady(rr, ww) == ReadReady(rr, ww + 1)

\* The timer is started, the main routine is activated and ssm_tick is next.
Init ==
  /\ TimerInit
  /\ handler = [h \in Handlers |-> [at |-> "idle", raw |-> Unread, w |-> 0]]
  /\ rb = [i \in 0..(SSM_INPUT_RB_SIZE - 1) |-> [raw |-> Unread, time |-> 0]]
  /\ rb_r = 0 /\ rb_w = 0
  /\ sem = 0
  /\ main = "starting"
  /\ wall_time = 0 /\ next_time = Never /\ r = 0 /\ w = 0
  /\ raw = Unread /\ scaled = 0
  /\ now = 0 /\ event_time = Never
  /\ arrived = 0 /\ accepted = 0
  /\ error = "none"

\* Two bounds, as HalfRange ticks are minutes: a reader's reads are not half a
\* range of the counter apart, and the thread decides on a time it has read
\* before half a range has gone by.
Reading(x, at) == at \in {"lo", "hi1"} /\ time - x.at >= HalfRange
Deciding ==
  \/ main = "hi1" /\ time - raw.at >= HalfRange - 1
  \/ main \in {"polling", "deciding"} /\ time - wall_time >= HalfRange - 1

TimePasses ==
  /\ ~Reading(raw, main) /\ ~Deciding
  /\ \A h \in Handlers : ~Reading(handler[h].raw, handler[h].at)
  /\ Counts
  /\ UNCHANGED <<handler, bufferVars, rb_r, sem, main, localVars, modelVars>>

Overflow ==
  /\ OverflowHandler
  /\ UNCHANGED <<handler, bufferVars, rb_r, sem, main, localVars, modelVars>>

\* k_sem_give of a semaphore whose limit is 1
Given == 1

\* The callback is send_timeout_event, which posts.
Alarm ==
  /\ AlarmGoesOff
  /\ IF timer_cb THEN sem' = Given /\ UNCHANGED error
     ELSE error' = "no_callback" /\ UNCHANGED sem
  /\ UNCHANGED <<timerVars, handler, bufferVars, rb_r, main, localVars, now, event_time>>

-----------------------------------------------------------------------------
(***************************************************************************)
(* ssm_insert_input, called by an interrupt handler.                       *)
(***************************************************************************)
HandlersIdle == \A h \in Handlers : handler[h].at = "idle"

\* Mutant: one handler may interrupt another.
AnyIdle == \E h \in Handlers : handler[h].at = "idle"

\* The handlers' interrupts do not interrupt one another.
MayBegin == HandlersIdle

\* A step of handler h.  The counter's interrupt comes before it.
HandlerStep(h, from, to) ==
  /\ ~overflow
  /\ handler[h].at = from
  /\ handler' = [handler EXCEPT ![h] = to]
  /\ UNCHANGED <<timerVars, alarmVars, rb_r, main, localVars, modelVars>>

\* Handlers are alike: it is any that is idle.
Interrupt ==
  /\ arrived < NumInputs
  /\ MayBegin
  /\ LET h == CHOOSE k \in Handlers : handler[k].at = "idle"
     IN HandlerStep(h, "idle", [handler[h] EXCEPT !.at = "hi0"])
  /\ arrived' = arrived + 1
  /\ UNCHANGED <<rb, rb_w, accepted, sem>>

ReadHi0(h) ==
  /\ HandlerStep(h, "hi0", [handler[h] EXCEPT !.at = "lo", !.raw = WithHi0(@)])
  /\ UNCHANGED <<bufferVars, sem>>

ReadLo(h) ==
  /\ HandlerStep(h, "lo", [handler[h] EXCEPT !.at = "hi1", !.raw = WithLo(@)])
  /\ UNCHANGED <<bufferVars, sem>>

ReadHi1(h) ==
  /\ HandlerStep(h, "hi1", [handler[h] EXCEPT !.at = "stamped", !.raw = WithHi1(@)])
  /\ UNCHANGED <<bufferVars, sem>>

Idle == [at |-> "idle", raw |-> Unread, w |-> 0]

ReadHeads(h) ==
  /\ HandlerStep(h, "stamped",
       IF WriteReady(rb_r, rb_w) THEN [handler[h] EXCEPT !.at = "writing", !.w = rb_w]
       ELSE Idle)
  /\ UNCHANGED <<bufferVars, sem>>

\* The packet is complete when the write head moves.
Publish(h) ==
  /\ HandlerStep(h, "writing", [Idle EXCEPT !.at = "posting"])
  /\ rb' = [rb EXCEPT ![Idx(handler[h].w)].raw = handler[h].raw]
  /\ rb_w' = handler[h].w + 1
  /\ accepted' = accepted + 1
  /\ UNCHANGED <<arrived, sem>>

Post(h) ==
  /\ HandlerStep(h, "posting", Idle)
  /\ sem' = Given
  /\ UNCHANGED bufferVars

-----------------------------------------------------------------------------
(***************************************************************************)
(* ssm_tick.  The program schedules ahead of the instant it is in.         *)
(***************************************************************************)
Instant(t) ==
  /\ now' = t
  /\ \E next \in {e \in Times : e > t} \cup {Never} : event_time' = next
  /\ UNCHANGED error

SsmTick ==
  \/ now < event_time /\ Instant(event_time)
  \/ /\ event_time <= now
     /\ error' = "invalid_time"
     /\ UNCHANGED <<now, event_time>>

\* A step of the thread, which no interrupt is in the way of.
MainStep(from, to) ==
  /\ ~overflow /\ HandlersIdle
  /\ main = from
  /\ main' = to
  /\ UNCHANGED <<timerVars, handler, bufferVars>>

Start ==
  /\ MainStep("starting", "hi0")
  /\ Instant(now)
  /\ UNCHANGED <<alarmVars, rb_r, sem, localVars>>

(***************************************************************************)
(* tick_loop.  A new turn of the loop forgets the variables of its body.   *)
(***************************************************************************)
LoopFrom(from) ==
  /\ MainStep(from, "hi0")
  /\ wall_time' = 0 /\ next_time' = Never /\ r' = 0 /\ w' = 0
  /\ UNCHANGED <<raw, scaled>>

MainReadsHi0 ==
  /\ MainStep("hi0", "lo")
  /\ raw' = WithHi0(raw)
  /\ UNCHANGED <<alarmVars, rb_r, sem, loopVars, scaled, modelVars>>

MainReadsLo ==
  /\ MainStep("lo", "hi1")
  /\ raw' = WithLo(raw)
  /\ UNCHANGED <<alarmVars, rb_r, sem, loopVars, scaled, modelVars>>

MainReadsHi1 ==
  /\ MainStep("hi1", "polling")
  /\ raw' = WithHi1(raw)
  /\ wall_time' = Calc(raw')
  /\ next_time' = event_time
  /\ UNCHANGED <<alarmVars, rb_r, sem, r, w, scaled, modelVars>>

\* poll_input_queue: the times of packets it has not seen before are scaled.
Poll ==
  /\ ~overflow /\ HandlersIdle
  /\ main = "polling"
  /\ main' = "deciding"
  /\ r' = rb_r /\ w' = rb_w
  /\ rb' = [i \in DOMAIN rb |->
              IF \E j \in scaled..(rb_w - 1) : i = Idx(j)
              THEN [rb[i] EXCEPT !.time = Calc(rb[i].raw)] ELSE rb[i]]
  /\ scaled' = rb_w
  /\ raw' = Unread
  /\ UNCHANGED <<timerVars, alarmVars, handler, rb_w, arrived, accepted, rb_r, sem,
                 wall_time, next_time, modelVars>>

InputFirst == ReadReady(r, w) /\ InputGet(r).time <= next_time

\* Mutant: compares with the time it is now.
EventDueByNow == next_time <= time

EventDue == next_time <= wall_time

\* consume_input_queue: the inputs with the time of the first become events.
Consumed == {i \in r..(w - 1) : \A j \in r..i : InputGet(j).time = InputGet(r).time}

ConsumeInput ==
  /\ MainStep("deciding", "consumed")
  /\ InputFirst
  /\ IF InputGet(r).time < now
     THEN error' = "later_in_past" /\ UNCHANGED <<event_time, r>>
     ELSE /\ event_time' = InputGet(r).time
          /\ \E i \in Consumed : r' = i + 1 /\ \A j \in Consumed : j <= i
          /\ UNCHANGED error
  /\ UNCHANGED <<alarmVars, rb_r, sem, raw, wall_time, next_time, w, scaled, now>>

\* The read head moves, which gives the slots back.
Release ==
  /\ MainStep("consumed", "ticking")
  /\ rb_r' = r
  /\ UNCHANGED <<alarmVars, sem, localVars, modelVars>>

TickForInput ==
  /\ LoopFrom("ticking")
  /\ SsmTick
  /\ UNCHANGED <<alarmVars, rb_r, sem>>

TickForEvent ==
  /\ LoopFrom("deciding")
  /\ ~InputFirst /\ EventDue
  /\ SsmTick
  /\ UNCHANGED <<alarmVars, rb_r, sem>>

\* Nothing is scheduled: only an input ends the sleep.
SleepForever ==
  /\ MainStep("deciding", "idle")
  /\ ~InputFirst /\ ~EventDue
  /\ next_time = Never
  /\ UNCHANGED <<alarmVars, rb_r, sem, localVars, modelVars>>

WakeForever ==
  /\ LoopFrom("idle")
  /\ sem = 1 /\ sem' = 0
  /\ UNCHANGED <<alarmVars, rb_r, modelVars>>

\* Mutant: the semaphore is reset before the sleep.
SleepAfresh ==
  /\ MainStep("deciding", "sleeping")
  /\ ~InputFirst /\ ~EventDue
  /\ next_time # Never
  /\ SetAlarm(next_time)
  /\ sem' = 0
  /\ UNCHANGED <<rb_r, localVars, modelVars>>

Sleep ==
  /\ MainStep("deciding", "sleeping")
  /\ ~InputFirst /\ ~EventDue
  /\ next_time # Never
  /\ SetAlarm(next_time)
  /\ UNCHANGED <<rb_r, sem, localVars, modelVars>>

\* An alarm that cannot be set, as its time has come since, is thrown.
SleepFails ==
  /\ MainStep("deciding", "deciding")
  /\ ~InputFirst /\ ~EventDue
  /\ next_time # Never
  /\ AlarmFails(next_time)
  /\ error' = "internal_error"
  /\ UNCHANGED <<alarmVars, rb_r, sem, localVars, now, event_time>>

Wake ==
  /\ MainStep("sleeping", "cancelling")
  /\ sem = 1 /\ sem' = 0
  /\ UNCHANGED <<alarmVars, rb_r, localVars, modelVars>>

Cancel ==
  /\ MainStep("cancelling", "cancelled")
  /\ CancelChannel
  /\ UNCHANGED <<rb_r, sem, localVars, modelVars>>

Cancelled ==
  /\ MainStep("cancelled", "resetting")
  /\ ClearCallback
  /\ UNCHANGED <<rb_r, sem, localVars, modelVars>>

\* Whatever has posted since is forgotten, for the loop to find by itself.
SemReset ==
  /\ LoopFrom("resetting")
  /\ sem' = 0
  /\ UNCHANGED <<alarmVars, rb_r, modelVars>>

-----------------------------------------------------------------------------
Inserts(h) ==
  ReadHi0(h) \/ ReadLo(h) \/ ReadHi1(h) \/ ReadHeads(h) \/ Publish(h) \/ Post(h)

Reads  == MainReadsHi0 \/ MainReadsLo \/ MainReadsHi1
Ticks  == Start \/ ConsumeInput \/ Release \/ TickForInput \/ TickForEvent
Sleeps ==
  \/ SleepForever \/ WakeForever
  \/ Sleep \/ SleepFails \/ Wake \/ Cancel \/ Cancelled \/ SemReset

Interrupts == Overflow \/ Alarm \/ \E h \in Handlers : Inserts(h)
Main       == Reads \/ Poll \/ Ticks \/ Sleeps

Running == error = "none"

Next == Running /\ (TimePasses \/ Interrupt \/ Interrupts \/ Main)

Spec == Init /\ [][Next]_vars

\* Interrupts are served and the thread runs when they are; no input has to
\* come, and time may stand still.
FairSpec == Spec /\ WF_vars(Running /\ Interrupts) /\ WF_vars(Running /\ Main)

-----------------------------------------------------------------------------
(***************************************************************************)
(* Properties                                                              *)
(***************************************************************************)
Raws == [hi0 : 0..MaxTime, lo : 0..Top, hi1 : 0..MaxTime, at : Times]

TypeOK ==
  /\ time \in Times /\ hi \in 0..MaxTime /\ overflow \in BOOLEAN
  /\ alarm \in 0..NoAlarm /\ expired \in BOOLEAN /\ timer_cb \in BOOLEAN
  /\ handler \in [Handlers -> [at : {"idle", "hi0", "lo", "hi1", "stamped", "writing", "posting"},
                               raw : Raws, w : 0..NumInputs]]
  /\ rb \in [0..(SSM_INPUT_RB_SIZE - 1) -> [raw : Raws, time : Nat]]
  /\ rb_r \in 0..NumInputs /\ rb_w \in 0..NumInputs
  /\ sem \in {0, 1}
  /\ main \in {"starting", "hi0", "lo", "hi1", "polling", "deciding", "consumed", "ticking",
               "idle", "sleeping", "cancelling", "cancelled", "resetting"}
  /\ raw \in Raws /\ wall_time \in Nat /\ next_time \in Times \cup {Never}
  /\ r \in 0..NumInputs /\ w \in 0..NumInputs /\ scaled \in 0..NumInputs
  /\ now \in Times /\ event_time \in Times \cup {Never}
  /\ arrived \in 0..NumInputs /\ accepted \in 0..arrived
  /\ error \in {"none", "invalid_time", "later_in_past", "internal_error", "no_callback"}

Waiting == rb_r..(rb_w - 1)

\* A time put together from three reads is that of the second, whatever wraps in
\* between: of the inputs in the buffer and of the thread's own reading.
TimesExact ==
  /\ \A i \in Waiting : Calc(InputGet(i).raw) = InputGet(i).raw.at
  /\ main = "polling" => wall_time = raw.at

\* The program never runs ahead of the clock, nor of an input that has read its
\* time, so that ssm_sv_later_unsafe accepts it: the thread reads the clock before
\* it looks at the buffer, and an interrupt that has read it finishes before the
\* thread.
InputsNotPast ==
  /\ now <= time
  /\ main # "consumed" => \A i \in Waiting : InputGet(i).raw.at >= now
  /\ error # "later_in_past"

\* An input for which ssm_insert_input returned 0 is in the buffer until it is
\* consumed, inputs are there in the order of their times, and those that the
\* thread has looked at carry their scaled time.
InputsInOrder ==
  /\ accepted = rb_w
  /\ \A i, j \in Waiting : i < j => InputGet(i).raw.at <= InputGet(j).raw.at
  /\ \A i \in Waiting : i < scaled => InputGet(i).time = InputGet(i).raw.at

\* An alarm that may go off has its callback, and a loop that sets one finds
\* none set: neither a null call nor -EALREADY.
AlarmHasCallback ==
  /\ alarm # NoAlarm \/ expired => timer_cb
  /\ error # "no_callback"
  /\ main \in {"hi0", "lo", "hi1", "polling", "deciding"} => ~timer_cb

\* While the thread sleeps for an event, it is going to be woken when that is due
\* or before: by a post, or by an alarm that the counter comes to in time, however
\* far the event is and however often the counter wraps until then.
WokenForEvents ==
  main = "sleeping" =>
    \/ sem = 1 \/ expired
    \/ \E h \in Handlers : handler[h].at = "posting"
    \/ \E t \in (time + 1)..next_time : t % Range = alarm

\* While it sleeps with an input in the buffer, a post has come or is about to,
\* although posts are forgotten after every sleep: also when the input came between
\* the thread's look at the buffer and its sleep, and when the thread has left it
\* there for an event that was to come first.
WokenForInputs ==
  main \in {"idle", "sleeping"} /\ rb_r # rb_w =>
    sem = 1 \/ \E h \in Handlers : handler[h].at = "posting"

\* The thread sleeps through nothing.
SleepsEnd == WokenForEvents /\ WokenForInputs

\* An input that is accepted reaches the program, without time having to pass: the
\* thread does not sleep through it, although posts are forgotten after every sleep.
\* (Inputs come to an end, so the buffer is emptied.)
InputsConsumed == rb_r # rb_w ~> (rb_r = rb_w \/ ~Running)

\* ssm.h: SSM_INTERNAL_ERROR is "reserved for unforeseen, non-user-facing errors".
NoInternalError == error # "internal_error"
=============================================================================
