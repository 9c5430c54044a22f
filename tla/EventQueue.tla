----------------------------- MODULE EventQueue -----------------------------
(***************************************************************************)
(* The event queue of ssm-scheduler.c: the heap of scheduled variables     *)
(* with a pending delayed assignment, the time `now`, and every function    *)
(* that changes them: ssm_sv_later_unsafe, ssm_unschedule, ssm_set_now,    *)
(* ssm_reset, and the update loop of ssm_tick with ssm_update.             *)
(*                                                                         *)
(* The actions of Call begin when no other call is under way.              *)
(* One step is one iteration of a percolate loop, or the code between two  *)
(* of them.  The runtime is single threaded, but two of its functions call *)
(* ssm_drop half way: ssm_sv_later_unsafe drops the value it replaces      *)
(* after it has changed the variable's time and before it has moved the    *)
(* variable in the heap, and ssm_update drops the old value before the     *)
(* tick loop pops the head.  Dropping the last reference to a scheduled    *)
(* variable calls ssm_unschedule (ssm-mem.c, ssm_drop_final), so a whole   *)
(* ssm_unschedule may run at these two places.                             *)
(*                                                                         *)
(* A throw stops the program; `error` names the throwing test.             *)
(***************************************************************************)
EXTENDS Naturals, FiniteSets, BinaryHeap

CONSTANTS
  SV,            \* the scheduled variables
  NULL,          \* an empty slot
  QueueSize,     \* SSM_EVENT_QUEUE_SIZE
  Never,         \* SSM_NEVER, the largest ssm_time_t
  MinDelay,      \* callers schedule at now + MinDelay or later (0 or 1)
  MaxWhen,       \* the last time a caller schedules at (Never - 1 or Never)
  DropInLater,   \* may a replaced later value own a pending variable?
  ResetPending   \* may ssm_reset be called with events pending?

\* The left child of every slot is to be a q_idx_t.  2048 is the size by default; the
\* macro that changes it is not checked.
ASSUME EventQueueAssumption ==
  /\ NULL \notin SV
  /\ QueueSize \in Nat \ {0}
  /\ IndexValues \in Nat /\ 2 * QueueSize < IndexValues
  /\ Never \in Nat \ {0}
  /\ MinDelay \in Nat
  /\ MaxWhen \in 0..Never
  /\ DropInLater \in BOOLEAN
  /\ ResetPending \in BOOLEAN

VARIABLES
  event_queue,      \* the heap array
  event_queue_len,  \* the number of elements in it
  later_time,       \* of every variable, Never when nothing is pending
  now,              \* the current model time
  pc,               \* where the code is, see Phases
  ret,              \* where the running percolate returns to
  hole,             \* the percolate functions' hole ...
  var,              \* ... and the entry they place
  target,           \* the variable being rescheduled or updated
  error             \* the test that threw, or "none"

queueVars == <<event_queue, event_queue_len, later_time>>
loopVars  == <<ret, hole, var>>
vars == <<queueVars, now, pc, loopVars, target, error>>

Slots == 1..QueueSize
Times == 0..Never

\* "idle": between calls.  "dropping": in ssm_sv_later_unsafe, dropping the
\* replaced value.  "ticking": at the head of ssm_tick's update loop.
\* "updating": in ssm_update, dropping the old value.  "up", "down": in a
\* percolate loop.
Callers == {"idle", "dropping", "ticking", "updating"}
Phases  == Callers \cup {"up", "down"}

Errors == {"none", "later_in_past", "event_queue_full", "event_not_found",
           "set_now_in_past", "set_now_skips", "tick_stale", "tick_in_past"}

-----------------------------------------------------------------------------
Throw(e) == error' = e /\ UNCHANGED <<queueVars, now, pc, loopVars, target>>

Percolate(dir, h, x, r) ==
  /\ pc' = dir
  /\ hole' = h
  /\ var' = x
  /\ ret' = r

\* ssm_next_event_time
NextEventTime ==
  IF event_queue_len # 0 THEN later_time[event_queue[SSM_QUEUE_HEAD]]
                         ELSE Never

\* find_queued_event: the first slot that holds v; the search fails an
\* assertion when there is none.
SlotsOf(v) == {i \in 1..event_queue_len : event_queue[i] = v}
Find(v)    == CHOOSE i \in SlotsOf(v) : \A j \in SlotsOf(v) : i <= j

Init ==
  /\ event_queue = [i \in Slots |-> NULL]
  /\ event_queue_len = 0
  /\ later_time = [v \in SV |-> Never]
  /\ now = 0
  /\ pc = "idle"
  /\ ret = "idle"
  /\ hole = SSM_QUEUE_HEAD
  /\ var = NULL
  /\ target = NULL
  /\ error = "none"

-----------------------------------------------------------------------------
(***************************************************************************)
(* ssm_sv_later_unsafe                                                     *)
(***************************************************************************)
LaterInPast(v, when) ==
  /\ when < now
  /\ Throw("later_in_past")

\* The variable is not pending: append it and percolate it up.
LaterNew(v, when) ==
  /\ when >= now
  /\ later_time[v] = Never
  /\ event_queue_len < QueueSize
  /\ later_time' = [later_time EXCEPT ![v] = when]
  /\ event_queue_len' = event_queue_len + 1
  /\ Percolate("up", event_queue_len', v, "idle")
  /\ UNCHANGED <<event_queue, now, target, error>>

\* No room: the time and the length are already changed when it throws.
LaterExhausted(v, when) ==
  /\ when >= now
  /\ later_time[v] = Never
  /\ event_queue_len = QueueSize
  /\ later_time' = [later_time EXCEPT ![v] = when]
  /\ event_queue_len' = event_queue_len + 1
  /\ error' = "event_queue_full"
  /\ UNCHANGED <<event_queue, now, pc, loopVars, target>>

\* The variable is pending: change its time in place, drop the old value ...
LaterPending(v, when) ==
  /\ when >= now
  /\ later_time[v] # Never
  /\ later_time' = [later_time EXCEPT ![v] = when]
  /\ target' = v
  /\ pc' = "dropping"
  /\ UNCHANGED <<event_queue, event_queue_len, now, loopVars, error>>

\* ... then find it in the queue and move it from there.
LaterReposition ==
  /\ pc = "dropping"
  /\ IF later_time[target] = Never \/ SlotsOf(target) = {}
     THEN Throw("event_not_found")
     ELSE /\ Percolate(IF SinksFrom(event_queue, later_time,
                                    Find(target), target)
                       THEN "down" ELSE "up",
                       Find(target), target, "idle")
          /\ target' = NULL
          /\ UNCHANGED <<queueVars, now, error>>

\* Mutant: takes the last but one entry for the last.
LeavesHoleBeforeLast(h, len) == h < len

\* The entry at h was not the last one: removing it leaves a hole in the len
\* slots that remain.
LeavesHole(h, len) == h <= len

(***************************************************************************)
(* ssm_unschedule, called at r by a routine or the platform ("idle") or    *)
(* by ssm_drop_final ("dropping", "updating").                             *)
(***************************************************************************)
Unschedule(v, r) ==
  /\ pc = r
  /\ later_time[v] # Never
  /\ IF SlotsOf(v) = {} THEN Throw("event_not_found")
     ELSE LET moved == event_queue[event_queue_len]
              h     == Find(v)
          IN  /\ later_time' = [later_time EXCEPT ![v] = Never]
              /\ event_queue_len' = event_queue_len - 1
              /\ IF LeavesHole(h, event_queue_len')
                 THEN Percolate(IF SinksFrom(event_queue, later_time', h, moved)
                                THEN "down" ELSE "up", h, moved, r)
                 ELSE UNCHANGED <<pc, loopVars>>
              /\ UNCHANGED <<event_queue, now, target, error>>

\* The last reference to another pending variable was in the dropped value.
DropFinal(o) ==
  /\ \/ pc = "dropping" /\ DropInLater
     \/ pc = "updating"
  /\ o # target
  /\ Unschedule(o, pc)

-----------------------------------------------------------------------------
(***************************************************************************)
(* The percolate functions, one iteration per step.                        *)
(***************************************************************************)
\* The percolate function returns, and its locals are gone.
Place ==
  /\ event_queue' = Filled(event_queue, hole, var)
  /\ Percolate(ret, SSM_QUEUE_HEAD, NULL, "idle")
  /\ UNCHANGED <<event_queue_len, later_time, now, target, error>>

\* Mutant: the hole stays where it is.
CopyFromStuck(i) ==
  /\ event_queue' = [event_queue EXCEPT ![hole] = event_queue[i]]
  /\ UNCHANGED <<event_queue_len, later_time, now, pc, loopVars, target, error>>

CopyFrom(i) ==
  /\ event_queue' = [event_queue EXCEPT ![hole] = event_queue[i]]
  /\ hole' = i
  /\ UNCHANGED <<event_queue_len, later_time, now, pc, ret, var, target, error>>

PercolateUp ==
  /\ pc = "up"
  /\ IF GoesUp(event_queue, later_time, hole, var)
     THEN CopyFrom(Parent(hole))
     ELSE Place

PercolateDown ==
  /\ pc = "down"
  /\ IF GoesDown(event_queue, event_queue_len, later_time, hole, var)
     THEN CopyFrom(EarlierChild(event_queue, event_queue_len, later_time, hole))
     ELSE Place

-----------------------------------------------------------------------------
(***************************************************************************)
(* ssm_set_now, ssm_reset, and ssm_tick's update loop.  `acts` says whether *)
(* the activation queue is non-empty when ssm_tick is entered.             *)
(***************************************************************************)
SetNow(next) ==
  /\ \/ next <= now /\ Throw("set_now_in_past")
     \/ /\ next > now
        /\ event_queue_len # 0 /\ next > NextEventTime
        /\ Throw("set_now_skips")
     \/ /\ next > now
        /\ event_queue_len # 0 => next <= NextEventTime
        /\ now' = next
        /\ UNCHANGED <<queueVars, pc, loopVars, target, error>>

\* pc goes to `at`; only ssm_tick's prologue also advances the time.
Goto(at) == pc' = at /\ UNCHANGED <<queueVars, loopVars, error>>

Tick(acts) ==
  /\ \/ /\ acts /\ NextEventTime # Never /\ now > NextEventTime
        /\ Throw("tick_stale")
     \/ /\ acts /\ (NextEventTime # Never => now <= NextEventTime)
        /\ Goto("ticking")
        /\ UNCHANGED <<now, target>>
     \/ /\ ~acts /\ event_queue_len = 0
        /\ Goto("ticking")
        /\ UNCHANGED <<now, target>>
     \/ /\ ~acts /\ event_queue_len > 0 /\ NextEventTime <= now
        /\ Throw("tick_in_past")
     \/ /\ ~acts /\ event_queue_len > 0 /\ NextEventTime > now
        /\ now' = NextEventTime
        /\ Goto("ticking")
        /\ UNCHANGED target

HeadIsDue == event_queue_len > 0 /\ NextEventTime = now

\* ssm_update up to its call of ssm_drop.  Its test that the variable is due
\* repeats the loop condition.
UpdateHead ==
  /\ pc = "ticking"
  /\ HeadIsDue
  /\ target' = event_queue[SSM_QUEUE_HEAD]
  /\ Goto("updating")
  /\ UNCHANGED now

\* The rest of ssm_update, and the removal of the head of the queue.
PopHead ==
  /\ pc = "updating"
  /\ later_time' = [later_time EXCEPT ![target] = Never]
  /\ event_queue_len' = event_queue_len - 1
  /\ IF event_queue_len' > 0
     THEN Percolate("down", SSM_QUEUE_HEAD, event_queue[event_queue_len],
                    "ticking")
     ELSE pc' = "ticking" /\ UNCHANGED loopVars
  /\ target' = NULL
  /\ UNCHANGED <<event_queue, now, error>>

\* Mutant: delivers one event at most (an if for the while).
TickDoneAfterOne ==
  /\ pc = "ticking"
  /\ Goto("idle")
  /\ UNCHANGED <<now, target>>

TickDone ==
  /\ pc = "ticking"
  /\ ~HeadIsDue
  /\ Goto("idle")
  /\ UNCHANGED <<now, target>>

\* The length and the time are cleared; the variables keep their later_time.
Reset ==
  /\ ResetPending \/ event_queue_len = 0
  /\ now' = 0
  /\ event_queue_len' = 0
  /\ UNCHANGED <<event_queue, later_time, pc, loopVars, target, error>>

-----------------------------------------------------------------------------
\* The times a caller asks for: past ones, and those from now + MinDelay on.
Whens == {t \in 0..MaxWhen : t < now \/ t >= now + MinDelay}

\* The platform moves the time by hand (posix-main.c does at start-up), but
\* leaves it to ssm_tick to land on the time of a queued event.
HandSetTimes == {t \in 1..(Never - 1) : event_queue_len # 0 => t # NextEventTime}

Call ==
  /\ pc = "idle"
  /\ \/ \E v \in SV, when \in Whens :
          \/ LaterInPast(v, when)
          \/ LaterNew(v, when)
          \/ LaterExhausted(v, when)
          \/ LaterPending(v, when)
     \/ \E v \in SV : Unschedule(v, "idle")
     \/ \E next \in HandSetTimes : SetNow(next)
     \/ \E acts \in BOOLEAN : Tick(acts)
     \/ Reset

\* What the code does by itself until the call returns.
Internal ==
  \/ LaterReposition
  \/ PercolateUp
  \/ PercolateDown
  \/ UpdateHead
  \/ PopHead
  \/ TickDone

Next == error = "none" /\ (Call \/ Internal \/ \E o \in SV : DropFinal(o))

Spec == Init /\ [][Next]_vars

\* A call that has begun runs on: nothing else runs in the meantime.
FairSpec == Spec /\ WF_vars(error = "none" /\ Internal)

-----------------------------------------------------------------------------
(***************************************************************************)
(* Properties                                                              *)
(***************************************************************************)
TypeOK ==
  /\ event_queue \in [Slots -> SV \cup {NULL}]
  /\ event_queue_len \in 0..(QueueSize + 1)
  /\ later_time \in [SV -> Times]
  /\ now \in Times
  /\ pc \in Phases
  /\ ret \in Callers
  /\ hole \in Slots
  /\ var \in SV \cup {NULL}
  /\ target \in SV \cup {NULL}
  /\ error \in Errors

\* The array as it would be with the percolated entry put where the hole is.
Queue ==
  IF pc \in {"up", "down"} THEN Filled(event_queue, hole, var) ELSE event_queue

\* At every moment a variable is in the queue exactly when its later_time is
\* not SSM_NEVER (the invariant of ssm_sv_t in ssm.h), and it is there once.
\* Every function but a throwing one keeps it, percolations included.
QueuedIffPending ==
  error = "none" =>
    /\ \A v \in SV : later_time[v] # Never <=>
                       \E i \in 1..event_queue_len : Queue[i] = v
    /\ \A i, j \in 1..event_queue_len : Queue[i] = Queue[j] => i = j

\* Whenever no percolation is under way, and no variable waits to be
\* repositioned, the queue passes event_queue_consistency_check: the loops of
\* percolate_up and percolate_down restore the heap order from every hole the
\* operations open, including an ssm_unschedule that runs inside ssm_update.
HeapOrderedBetweenCalls ==
  error = "none" /\ pc \in {"idle", "ticking", "updating"} =>
    HeapOrdered(event_queue, event_queue_len, later_time)

\* No event is passed over: whatever calls are made, a pending event is never
\* earlier than now.  ssm_tick's test for stale events relies on it.
PendingNotPast ==
  error = "none" => \A v \in SV : later_time[v] >= now

\* If no caller schedules for the current instant, nothing is left to happen
\* at now when ssm_tick's update loop has ended, so the next ssm_tick finds a
\* time to advance to.
NothingDueBetweenTicks ==
  error = "none" /\ pc = "idle" => \A v \in SV : later_time[v] # now

\* ssm_tick updates the variable at the head, lets its old value be dropped,
\* and then removes whatever is at the head.  It is still the same variable,
\* although the drop may have unscheduled others and reshaped the heap.
HeadIsTarget ==
  error = "none" /\ pc = "updating" =>
    /\ event_queue_len > 0
    /\ event_queue[SSM_QUEUE_HEAD] = target
    /\ later_time[target] = now

\* The tests that guard against the runtime's own mistakes never throw:
\* find_queued_event finds what it looks for, ssm_tick meets no stale event
\* and always advances the time.
NoInternalFault ==
  error \notin {"event_not_found", "tick_stale", "tick_in_past"}

\* Every call comes back: no percolation, and no update loop, goes on for ever.
CallsReturn == pc # "idle" ~> (pc = "idle" \/ error # "none")

\* A percolation happens between two states of the set: the phase is that of
\* the function the percolation will return to.
Events == INSTANCE EventSet WITH
            phase <- IF pc \in {"up", "down"} THEN ret ELSE pc

\* The heap, through all its intermediate states, behaves as a set of pending
\* times: ticks deliver what is due, all of it and once, in time order, and
\* the program stops only for its callers' mistakes or a full queue.
ImplementsEventSet == Events!Spec
=============================================================================
