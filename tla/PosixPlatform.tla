---------------------------- MODULE PosixPlatform ----------------------------
(***************************************************************************)
(* The POSIX platform: the main loop of posix-main.c, which sleeps until   *)
(* the next event or input and calls ssm_tick, and the thread of           *)
(* posix-io.c that reads stdin, stamps what it reads with the time and     *)
(* hands it over in a ring buffer.  They share the buffer's two indices, a *)
(* lock and a pipe that serves as a semaphore.                             *)
(*                                                                         *)
(* Of the program only its next event is modelled: an instant may leave    *)
(* any later time as the next one, or none.  An instant also leaves the    *)
(* activation queue empty, so where the main loop asks ssm_active(), which *)
(* is act_queue_len > 0, the answer is no; its branch that sleeps until an *)
(* input comes is never taken.                                             *)
(***************************************************************************)
EXTENDS Naturals

CONSTANTS
  SSM_INPUT_RB_SIZE,
  PipeSize,    \* the bytes a pipe holds
  NumInputs,   \* the characters on stdin (a bound)
  MaxTime,     \* the last time that is read or scheduled (a bound)
  Never        \* SSM_NEVER

ASSUME PosixAssumption ==
  /\ SSM_INPUT_RB_SIZE \in Nat /\ SSM_INPUT_RB_SIZE >= 2
  /\ PipeSize \in Nat \ {0}
  /\ NumInputs \in Nat
  /\ MaxTime \in Nat
  /\ Never \in Nat /\ Never > MaxTime

VARIABLES
  clock,         \* CLOCK_MONOTONIC; readings may be equal
  rb,            \* the packets: which input, and its time
  rb_r, rb_w,    \* the read and the write head, never wrapped
  rb_lk,         \* does the stdin thread hold the lock?
  pipe,          \* the bytes in the pipe
  thread,        \* where the stdin thread is
  stamp,         \* the time it has read for its input
  main,          \* where the main loop is
  wall_time, next_time, r, w,  \* its variables
  now,           \* the model time
  event_time,    \* ssm_next_event_time()
  taken,         \* auxiliary: the inputs given to the program so far
  error

bufferVars == <<rb, rb_w, rb_lk>>
threadVars == <<thread, stamp>>
localVars  == <<wall_time, next_time, r, w>>
modelVars  == <<now, event_time, taken, error>>
vars == <<clock, bufferVars, rb_r, pipe, threadVars, main, localVars, modelVars>>

Times == 0..MaxTime

\* ssm_input_idx, ssm_input_get
Idx(i)     == i % SSM_INPUT_RB_SIZE
InputGet(i) == rb[Idx(i)]

\* ssm_input_read_ready, ssm_input_write_ready
ReadReady(rr, ww)  == Idx(rr) # Idx(ww)
WriteReady(rr, ww) == ReadReady(rr, ww + 1)

\* main has read the clock for ssm_set_now and spawned the thread; the main
\* routine and the stdout handler are activated and ssm_tick is next.
Init ==
  /\ clock = 0
  /\ rb = [i \in 0..(SSM_INPUT_RB_SIZE - 1) |-> [input |-> 0, time |-> 0]]
  /\ rb_r = 0 /\ rb_w = 0
  /\ rb_lk = FALSE
  /\ pipe = 0
  /\ thread = "reading" /\ stamp = 0
  /\ main = "starting"
  /\ wall_time = 0 /\ next_time = Never /\ r = 0 /\ w = 0
  /\ now = 0 /\ event_time = Never
  /\ taken = 0
  /\ error = "none"

TimePasses ==
  /\ clock < MaxTime
  /\ clock' = clock + 1
  /\ UNCHANGED <<bufferVars, rb_r, pipe, threadVars, main, localVars, modelVars>>

-----------------------------------------------------------------------------
(***************************************************************************)
(* ssm_stdin_handler.  A character that finds no room is dropped, which    *)
(* shows nowhere.                                                          *)
(***************************************************************************)
GetChar ==
  /\ thread = "reading"
  /\ rb_w < NumInputs
  /\ WriteReady(rb_r, rb_w)
  /\ thread' = "locking"
  /\ UNCHANGED <<clock, bufferVars, rb_r, pipe, stamp, main, localVars, modelVars>>

LockAndStamp ==
  /\ thread = "locking"
  /\ rb_lk' = TRUE
  /\ stamp' = clock
  /\ thread' = "stamped"
  /\ UNCHANGED <<clock, rb, rb_w, rb_r, pipe, main, localVars, modelVars>>

\* The packet is complete when the write head moves.
Publish ==
  /\ thread = "stamped"
  /\ rb' = [rb EXCEPT ![Idx(rb_w)] = [input |-> rb_w, time |-> stamp]]
  /\ rb_w' = rb_w + 1
  /\ rb_lk' = FALSE
  /\ stamp' = 0
  /\ thread' = "signalling"
  /\ UNCHANGED <<clock, rb_r, pipe, main, localVars, modelVars>>

\* Mutant: does not wake the main loop.
NoSignal ==
  /\ thread = "signalling"
  /\ thread' = "reading"
  /\ UNCHANGED <<clock, bufferVars, rb_r, pipe, stamp, main, localVars, modelVars>>

\* fd_sem_write, which blocks while the pipe is full
Signal ==
  /\ thread = "signalling"
  /\ pipe < PipeSize
  /\ pipe' = pipe + 1
  /\ thread' = "reading"
  /\ UNCHANGED <<clock, bufferVars, rb_r, stamp, main, localVars, modelVars>>

-----------------------------------------------------------------------------
(***************************************************************************)
(* ssm_tick.  The program schedules ahead of the instant it is in.         *)
(***************************************************************************)
Instant(t) ==
  /\ now' = t
  /\ \E next \in {e \in Times : e > t} \cup {Never} : event_time' = next
  /\ UNCHANGED <<taken, error>>

\* With no record activated it must advance the time, which it cannot do for an
\* input that carries the time it is already at.  The main loop only calls it
\* with an event pending.
SsmTick ==
  \/ now < event_time /\ Instant(event_time)
  \/ /\ event_time <= now
     /\ error' = "invalid_time"
     /\ UNCHANGED <<now, event_time, taken>>

\* The first instant, at the time the program was started.
Start ==
  /\ main = "starting"
  /\ Instant(now)
  /\ main' = "looping"
  /\ UNCHANGED <<clock, bufferVars, rb_r, pipe, threadVars, localVars>>

(***************************************************************************)
(* The main loop.                                                          *)
(***************************************************************************)
ReadTimes ==
  /\ main = "looping"
  /\ wall_time' = clock
  /\ next_time' = event_time
  /\ main' = "polling"
  /\ UNCHANGED <<clock, bufferVars, rb_r, pipe, threadVars, r, w, modelVars>>

\* Mutant: reads the indices without the lock.
PollUnlocked ==
  /\ main = "polling"
  /\ r' = rb_r
  /\ w' = rb_w
  /\ main' = "deciding"
  /\ UNCHANGED <<clock, bufferVars, rb_r, pipe, threadVars, wall_time, next_time, modelVars>>

\* poll_input_queue; the time scale of this platform is 1
Poll ==
  /\ main = "polling"
  /\ ~rb_lk
  /\ r' = rb_r
  /\ w' = rb_w
  /\ main' = "deciding"
  /\ UNCHANGED <<clock, bufferVars, rb_r, pipe, threadVars, wall_time, next_time, modelVars>>

InputFirst == ReadReady(r, w) /\ InputGet(r).time <= next_time

EventDue == next_time <= wall_time

\* ssm_input_consume: the inputs with the time of the first become events.
Consumed == {i \in r..(w - 1) : \A j \in r..i : InputGet(j).time = InputGet(r).time}

ConsumeInput ==
  /\ main = "deciding"
  /\ InputFirst
  /\ IF InputGet(r).time < now
     THEN error' = "later_in_past" /\ UNCHANGED <<event_time, taken, r, main>>
     ELSE /\ event_time' = InputGet(r).time
          /\ \E i \in Consumed :
               /\ \A j \in Consumed : j <= i
               /\ r' = i + 1
               /\ taken' = InputGet(i).input + 1
          /\ main' = "consumed"
          /\ UNCHANGED error
  /\ UNCHANGED <<clock, bufferVars, rb_r, pipe, threadVars, wall_time, next_time, w, now>>

\* Mutant: lets go of the whole buffer.
ReleaseAll ==
  /\ main = "consumed"
  /\ rb_r' = rb_w
  /\ main' = "ticking"
  /\ UNCHANGED <<clock, bufferVars, pipe, threadVars, localVars, modelVars>>

\* The read head moves, which gives the slots back to the thread.
Release ==
  /\ main = "consumed"
  /\ rb_r' = r
  /\ main' = "ticking"
  /\ UNCHANGED <<clock, bufferVars, pipe, threadVars, localVars, modelVars>>

TickForInput ==
  /\ main = "ticking"
  /\ SsmTick
  /\ main' = "looping"
  /\ UNCHANGED <<clock, bufferVars, rb_r, pipe, threadVars, localVars>>

TickForEvent ==
  /\ main = "deciding"
  /\ ~InputFirst
  /\ EventDue
  /\ SsmTick
  /\ main' = "looping"
  /\ UNCHANGED <<clock, bufferVars, rb_r, pipe, threadVars, localVars>>

\* pselect, until the next event
Sleep ==
  /\ main = "deciding"
  /\ ~InputFirst /\ ~EventDue
  /\ next_time # Never
  /\ main' = "sleeping"
  /\ UNCHANGED <<clock, bufferVars, rb_r, pipe, threadVars, localVars, modelVars>>

\* pselect returns a positive number: there is a byte in the pipe, or, byte or
\* none, one of the files that the uninitialised fd_set names by chance is ready.
Woken ==
  /\ main = "sleeping"
  /\ main' = "woken"
  /\ UNCHANGED <<clock, bufferVars, rb_r, pipe, threadVars, localVars, modelVars>>

\* Mutant: leaves its byte in the pipe.
NoRead ==
  /\ main = "woken"
  /\ main' = "looping"
  /\ UNCHANGED <<clock, bufferVars, rb_r, pipe, threadVars, localVars, modelVars>>

\* fd_sem_read, which blocks while the pipe is empty
FdSemRead ==
  /\ main = "woken"
  /\ pipe > 0
  /\ pipe' = pipe - 1
  /\ main' = "looping"
  /\ UNCHANGED <<clock, bufferVars, rb_r, threadVars, localVars, modelVars>>

\* pselect returns 0: not before next_time, as the sleep lasts for next_time -
\* wall_time and began after wall_time was read.
TimesOut ==
  /\ main = "sleeping"
  /\ pipe = 0
  /\ clock >= next_time
  /\ main' = "looping"
  /\ UNCHANGED <<clock, bufferVars, rb_r, pipe, threadVars, localVars, modelVars>>

\* No event is pending: the loop ends.  What follows cancels the thread.
Break ==
  /\ main = "deciding"
  /\ ~InputFirst /\ ~EventDue
  /\ next_time = Never
  /\ main' = "done"
  /\ UNCHANGED <<clock, bufferVars, rb_r, pipe, threadVars, localVars, modelVars>>

-----------------------------------------------------------------------------
Handler == LockAndStamp \/ Publish \/ Signal

Main ==
  \/ Start
  \/ ReadTimes
  \/ Poll
  \/ ConsumeInput
  \/ Release
  \/ TickForInput
  \/ TickForEvent
  \/ Sleep
  \/ Woken
  \/ FdSemRead
  \/ TimesOut
  \/ Break

Running == main # "done" /\ error = "none"

Next == Running /\ (TimePasses \/ GetChar \/ Handler \/ Main)

Spec == Init /\ [][Next]_vars

\* Both threads are scheduled; nobody has to type, and time may stand still.
FairSpec ==
  /\ Spec
  /\ WF_vars(Running /\ Handler)
  /\ WF_vars(Running /\ Main)

-----------------------------------------------------------------------------
(***************************************************************************)
(* Properties                                                              *)
(***************************************************************************)
TypeOK ==
  /\ clock \in Times
  /\ rb \in [0..(SSM_INPUT_RB_SIZE - 1) -> [input : 0..NumInputs, time : Times]]
  /\ rb_r \in 0..NumInputs /\ rb_w \in 0..NumInputs
  /\ rb_lk \in BOOLEAN
  /\ pipe \in 0..PipeSize
  /\ thread \in {"reading", "locking", "stamped", "signalling"}
  /\ stamp \in Times
  /\ main \in {"starting", "looping", "polling", "deciding", "consumed",
               "ticking", "sleeping", "woken", "done"}
  /\ wall_time \in Times /\ next_time \in Times \cup {Never}
  /\ r \in 0..NumInputs /\ w \in 0..NumInputs
  /\ now \in Times /\ event_time \in Times \cup {Never}
  /\ taken \in 0..NumInputs
  /\ error \in {"none", "invalid_time", "later_in_past"}

Unread == rb_r..(rb_w - 1)

\* The program never runs ahead of the clock, and never gets ahead of an input:
\* whatever has been stamped and not been consumed carries a time that
\* ssm_sv_later_unsafe still accepts.  The stamp and its publication are one step
\* to the main loop because of the lock, and the loop reads the clock before it
\* looks at the buffer.
InputsNotPast ==
  /\ now <= clock
  /\ main # "consumed" => \A i \in Unread : InputGet(i).time >= now
  /\ thread = "stamped" => stamp >= now
  /\ error # "later_in_past"

\* No input is overwritten before it is consumed, and none is consumed twice or
\* out of order, although the thread may use a read head that has moved since.
InputsInOrder ==
  /\ \A i \in Unread : InputGet(i).input = i
  /\ main = "consumed" => taken = r
  /\ main # "consumed" => taken = rb_r

\* The main loop does not sleep through an input: while there is one in the buffer,
\* a byte of its own or an older one wakes the loop, or the thread is about to write
\* it, also when the input came between the loop's look at the buffer and its sleep,
\* and when the loop has left it there for an event that was to come first.
NoInputSleptThrough ==
  main \in {"sleeping", "woken"} /\ rb_r # rb_w => pipe > 0 \/ thread = "signalling"

\* An input in the buffer reaches the program, unless it ends first.  No time has
\* to pass for that: it is the input that ends a sleep, not the event.  Bytes of
\* inputs that were consumed without a sleep may wake the main loop for nothing,
\* but never take another's place.
InputsConsumed ==
  \A i \in 1..NumInputs : rb_w >= i ~> (rb_r >= i \/ ~Running)

\* A thread that a full pipe holds goes on once the main loop sleeps.  (A program
\* that is never done with its events before the next is due never sleeps, and
\* never drains the pipe.)
HandlerReturns ==
  thread = "signalling" /\ main = "sleeping" ~> (thread = "reading" \/ ~Running)
=============================================================================
