------------------------------- MODULE ActSet -------------------------------
(***************************************************************************)
(* What the activation queue promises to ssm_tick and to the step          *)
(* functions, with no heap: a set of records, each in it at most once,     *)
(* from which the run loop takes one of least priority at a time, until    *)
(* none is left.  A record that is activated is taken, also when a step    *)
(* function has activated it while the loop was running.  The program may  *)
(* stop for want of room.                                                  *)
(***************************************************************************)
EXTENDS Naturals, FiniteSets

CONSTANTS Act, NULL, QueueSize, Priorities

VARIABLES
  priority,  \* of every record
  queued,    \* the records that are to run
  phase,     \* "idle", "looping" or "running"
  running,   \* the record whose step function runs
  error

vars == <<priority, queued, phase, running, error>>

Init ==
  /\ priority \in [Act -> Priorities]
  /\ queued = {}
  /\ phase = "idle"
  /\ running = NULL
  /\ error = "none"

Enter(a, p) ==
  /\ phase \in {"idle", "running"}
  /\ a \notin queued /\ a # running
  /\ priority' = [priority EXCEPT ![a] = p]
  /\ UNCHANGED <<queued, phase, running, error>>

Activate(a) ==
  /\ phase \in {"idle", "running"}
  /\ a \notin queued /\ a # running
  /\ Cardinality(queued) < QueueSize
  /\ queued' = queued \cup {a}
  /\ UNCHANGED <<priority, phase, running, error>>

BeginRuns ==
  /\ phase = "idle"
  /\ phase' = "looping"
  /\ UNCHANGED <<priority, queued, running, error>>

Run(a) ==
  /\ phase = "looping"
  /\ a \in queued
  /\ \A b \in queued : priority[a] <= priority[b]
  /\ queued' = queued \ {a}
  /\ phase' = "running"
  /\ running' = a
  /\ UNCHANGED <<priority, error>>

StepReturns ==
  /\ phase = "running"
  /\ phase' = "looping"
  /\ running' = NULL
  /\ UNCHANGED <<priority, queued, error>>

EndRuns ==
  /\ phase = "looping"
  /\ queued = {}
  /\ phase' = "idle"
  /\ UNCHANGED <<priority, queued, running, error>>

Refuse ==
  /\ phase \in {"idle", "running"}
  /\ Cardinality(queued) = QueueSize
  /\ error' = "act_queue_full"
  /\ UNCHANGED <<priority, queued, phase, running>>

Next ==
  /\ error = "none"
  /\ \/ \E a \in Act :
          \/ \E p \in Priorities : Enter(a, p)
          \/ Activate(a)
          \/ Run(a)
     \/ BeginRuns
     \/ StepReturns
     \/ EndRuns
     \/ Refuse

Spec == Init /\ [][Next]_vars
=============================================================================
