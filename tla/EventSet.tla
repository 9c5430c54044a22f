------------------------------ MODULE EventSet ------------------------------
(***************************************************************************)
(* What the event queue promises to the rest of the runtime, with no heap: *)
(* every variable has at most one pending time, a tick advances to the     *)
(* earliest pending time, delivers everything that is pending at that time *)
(* exactly once and nothing else, and a pending time is lost only when the *)
(* variable is unscheduled.  The program may stop for what a caller did    *)
(* wrong, or for want of room, and for no other reason.                    *)
(***************************************************************************)
EXTENDS Naturals, FiniteSets

CONSTANTS SV, NULL, QueueSize, Never

VARIABLES
  later_time,  \* the pending time of every variable, Never for none
  now,
  phase,       \* "idle", "dropping", "ticking" or "updating"
  target,      \* the variable being rescheduled or delivered
  error

vars == <<later_time, now, phase, target, error>>

Pending == {v \in SV : later_time[v] # Never}
Due     == {v \in SV : later_time[v] = now}

Init ==
  /\ later_time = [v \in SV |-> Never]
  /\ now = 0
  /\ phase = "idle"
  /\ target = NULL
  /\ error = "none"

Schedule(v, when) ==
  /\ phase = "idle" /\ v \notin Pending
  /\ when >= now
  /\ Cardinality(Pending) < QueueSize
  /\ later_time' = [later_time EXCEPT ![v] = when]
  /\ UNCHANGED <<now, phase, target, error>>

\* The pending assignment is replaced, and its value dropped.
Reschedule(v, when) ==
  /\ phase = "idle" /\ v \in Pending
  /\ when >= now
  /\ later_time' = [later_time EXCEPT ![v] = when]
  /\ phase' = "dropping"
  /\ target' = v
  /\ UNCHANGED <<now, error>>

Rescheduled ==
  /\ phase = "dropping"
  /\ phase' = "idle"
  /\ target' = NULL
  /\ UNCHANGED <<later_time, now, error>>

Cancel(v) ==
  /\ \/ phase = "idle"
     \/ phase \in {"dropping", "updating"} /\ v # target
  /\ v \in Pending
  /\ later_time' = [later_time EXCEPT ![v] = Never]
  /\ UNCHANGED <<now, phase, target, error>>

\* The platform moves the time by hand, past no pending event.
MoveTime(t) ==
  /\ phase = "idle"
  /\ t > now
  /\ \A v \in Pending : t <= later_time[v]
  /\ now' = t
  /\ UNCHANGED <<later_time, phase, target, error>>

\* With activations queued the tick stays in the current instant; with none
\* it advances to the earliest pending time.
BeginTick(t) ==
  /\ phase = "idle"
  /\ \/ t = now
     \/ /\ t > now
        /\ t \in {later_time[v] : v \in Pending}
        /\ \A v \in Pending : t <= later_time[v]
  /\ now' = t
  /\ phase' = "ticking"
  /\ UNCHANGED <<later_time, target, error>>

Pick(v) ==
  /\ phase = "ticking"
  /\ v \in Due
  /\ phase' = "updating"
  /\ target' = v
  /\ UNCHANGED <<later_time, now, error>>

Deliver ==
  /\ phase = "updating"
  /\ target \in Due
  /\ later_time' = [later_time EXCEPT ![target] = Never]
  /\ phase' = "ticking"
  /\ target' = NULL
  /\ UNCHANGED <<now, error>>

EndTick ==
  /\ phase = "ticking"
  /\ Due = {}
  /\ phase' = "idle"
  /\ UNCHANGED <<later_time, now, target, error>>

Restart ==
  /\ phase = "idle"
  /\ Pending = {}
  /\ now' = 0
  /\ UNCHANGED <<later_time, phase, target, error>>

\* A caller schedules in the past, moves the time back or past an event, ticks
\* when an event it scheduled for now is still pending, or fills the queue.
Refuse ==
  /\ phase = "idle"
  /\ \/ error' \in {"later_in_past", "set_now_in_past"} /\ UNCHANGED later_time
     \/ /\ error' = "set_now_skips"
        /\ Pending # {}
        /\ UNCHANGED later_time
     \/ /\ error' = "tick_in_past"
        /\ Due # {}
        /\ UNCHANGED later_time
     \/ /\ error' = "event_queue_full"
        /\ Cardinality(Pending) = QueueSize
        /\ \E v \in SV \ Pending, t \in now..Never :
             later_time' = [later_time EXCEPT ![v] = t]
  /\ UNCHANGED <<now, phase, target>>

Next ==
  /\ error = "none"
  /\ \/ \E v \in SV, when \in 0..Never :
          Schedule(v, when) \/ Reschedule(v, when)
     \/ Rescheduled
     \/ \E v \in SV : Cancel(v) \/ Pick(v)
     \/ \E t \in 0..Never : MoveTime(t) \/ BeginTick(t)
     \/ Deliver
     \/ EndTick
     \/ Restart
     \/ Refuse

Spec == Init /\ [][Next]_vars
=============================================================================
