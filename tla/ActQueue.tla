------------------------------ MODULE ActQueue ------------------------------
(***************************************************************************)
(* The activation queue of ssm-scheduler.c: the heap of activation records *)
(* to run in the current instant, sorted on priority, with ssm_activate,   *)
(* the run loop at the end of ssm_tick, ssm_reset, and the flag            *)
(* `scheduled` that keeps a record from being queued twice.                *)
(*                                                                         *)
(* As in EventQueue a step is one iteration of a percolate loop, or the    *)
(* code between two of them.  ssm_activate is called between ticks and     *)
(* from ssm_tick's update loop ("idle"), and from within a step function   *)
(* that the run loop has called ("running").  What a step function is, and *)
(* which records it may activate, is the subject of module Scheduler; here *)
(* it may activate any record but the running one.                         *)
(***************************************************************************)
EXTENDS Naturals, BinaryHeap

CONSTANTS
  Act,         \* the activation records
  NULL,        \* an empty slot
  QueueSize,   \* SSM_ACT_QUEUE_SIZE
  MaxPriority, \* the lowest priority, UINT32_MAX in the code
  ResetQueued  \* may ssm_reset be called with records queued?

\* The left child of every slot is to be a q_idx_t.  1024 is the size by default; the
\* macro that changes it is not checked.
ASSUME ActQueueAssumption ==
  /\ NULL \notin Act
  /\ QueueSize \in Nat \ {0}
  /\ IndexValues \in Nat /\ 2 * QueueSize < IndexValues
  /\ MaxPriority \in Nat
  /\ ResetQueued \in BOOLEAN

VARIABLES
  act_queue,      \* the heap array
  act_queue_len,  \* the number of elements in it
  priority,       \* of every record
  scheduled,      \* true when in the queue
  pc,             \* where the code is
  ret,            \* where the running percolate returns to
  hole,           \* the percolate functions' hole ...
  act,            \* ... and the record they place
  running,        \* the record whose step function runs
  error

queueVars == <<act_queue, act_queue_len>>
loopVars  == <<ret, hole, act>>
vars == <<queueVars, priority, scheduled, pc, loopVars, running, error>>

Slots      == 1..QueueSize
Priorities == 0..MaxPriority

\* "idle": no record runs.  "looping": at the head of ssm_tick's run loop.
\* "running": in a step function.
Callers == {"idle", "looping", "running"}
Phases  == Callers \cup {"up", "down"}

Percolate(dir, h, x, r) ==
  /\ pc' = dir
  /\ hole' = h
  /\ act' = x
  /\ ret' = r

Init ==
  /\ act_queue = [i \in Slots |-> NULL]
  /\ act_queue_len = 0
  /\ priority \in [Act -> Priorities]
  /\ scheduled = [a \in Act |-> FALSE]
  /\ pc = "idle"
  /\ ret = "idle"
  /\ hole = SSM_QUEUE_HEAD
  /\ act = NULL
  /\ running = NULL
  /\ error = "none"

-----------------------------------------------------------------------------
\* ssm_enter_int: a record is allocated, perhaps in the memory of one that
\* has left, and gets a priority of its own.
Enter(a, p) ==
  /\ pc \in {"idle", "running"}
  /\ ~scheduled[a]
  /\ a # running
  /\ priority' = [priority EXCEPT ![a] = p]
  /\ scheduled' = [scheduled EXCEPT ![a] = FALSE]
  /\ UNCHANGED <<queueVars, pc, loopVars, running, error>>

\* Mutant: one more than there is room for.
HasRoomForOneMore == act_queue_len <= QueueSize

HasRoom == act_queue_len < QueueSize

\* Mutant: does not look at the flag.
ActivateAgain(a) ==
  /\ pc \in {"idle", "running"}
  /\ a # running
  /\ HasRoom
  /\ act_queue_len' = act_queue_len + 1
  /\ Percolate("up", act_queue_len', a, pc)
  /\ UNCHANGED <<act_queue, priority, scheduled, running, error>>

\* ssm_activate; activating a scheduled record changes nothing.
Activate(a) ==
  /\ pc \in {"idle", "running"}
  /\ a # running
  /\ ~scheduled[a]
  /\ HasRoom
  /\ act_queue_len' = act_queue_len + 1
  /\ Percolate("up", act_queue_len', a, pc)
  /\ UNCHANGED <<act_queue, priority, scheduled, running, error>>

\* No room: the length is already changed when it throws.
ActivateExhausted(a) ==
  /\ pc \in {"idle", "running"}
  /\ a # running
  /\ ~scheduled[a]
  /\ ~HasRoom
  /\ act_queue_len' = act_queue_len + 1
  /\ error' = "act_queue_full"
  /\ UNCHANGED <<act_queue, priority, scheduled, pc, loopVars, running>>

\* The loops of act_queue_percolate_up and act_queue_percolate_down.  Only the
\* first sets the flag, and only when the record is in its place.
CopyFrom(i) ==
  /\ act_queue' = [act_queue EXCEPT ![hole] = act_queue[i]]
  /\ hole' = i
  /\ UNCHANGED <<act_queue_len, priority, scheduled, pc, ret, act, running, error>>

Place ==
  /\ act_queue' = Filled(act_queue, hole, act)
  /\ Percolate(ret, SSM_QUEUE_HEAD, NULL, "idle")
  /\ UNCHANGED <<act_queue_len, priority, running, error>>

PercolateUp ==
  /\ pc = "up"
  /\ IF GoesUp(act_queue, priority, hole, act)
     THEN CopyFrom(Parent(hole))
     ELSE Place /\ scheduled' = [scheduled EXCEPT ![act] = TRUE]

PercolateDown ==
  /\ pc = "down"
  /\ IF GoesDown(act_queue, act_queue_len, priority, hole, act)
     THEN CopyFrom(EarlierChild(act_queue, act_queue_len, priority, hole))
     ELSE Place /\ UNCHANGED scheduled

-----------------------------------------------------------------------------
\* ssm_tick, from the end of its update loop.
BeginRuns ==
  /\ pc = "idle"
  /\ pc' = "looping"
  /\ UNCHANGED <<queueVars, priority, scheduled, loopVars, running, error>>

\* The head is taken out of the queue, and then its step function called.
RunHead ==
  /\ pc = "looping"
  /\ act_queue_len > 0
  /\ running' = act_queue[SSM_QUEUE_HEAD]
  /\ scheduled' = [scheduled EXCEPT ![running'] = FALSE]
  /\ act_queue_len' = act_queue_len - 1
  /\ IF act_queue_len' > 0
     THEN Percolate("down", SSM_QUEUE_HEAD, act_queue[act_queue_len], "running")
     ELSE pc' = "running" /\ UNCHANGED loopVars
  /\ UNCHANGED <<act_queue, priority, error>>

StepReturns ==
  /\ pc = "running"
  /\ running' = NULL
  /\ pc' = "looping"
  /\ UNCHANGED <<queueVars, priority, scheduled, loopVars, error>>

EndRuns ==
  /\ pc = "looping"
  /\ act_queue_len = 0
  /\ pc' = "idle"
  /\ UNCHANGED <<queueVars, priority, scheduled, loopVars, running, error>>

\* ssm_reset clears the length; the records keep their flags.
Reset ==
  /\ pc = "idle"
  /\ ResetQueued \/ act_queue_len = 0
  /\ act_queue_len' = 0
  /\ UNCHANGED <<act_queue, priority, scheduled, pc, loopVars, running, error>>

Loops == PercolateUp \/ PercolateDown

Next ==
  /\ error = "none"
  /\ \/ \E a \in Act :
          \/ \E p \in Priorities : Enter(a, p)
          \/ Activate(a)
          \/ ActivateExhausted(a)
     \/ Loops
     \/ BeginRuns
     \/ RunHead
     \/ StepReturns
     \/ EndRuns
     \/ Reset

Spec == Init /\ [][Next]_vars

-----------------------------------------------------------------------------
(***************************************************************************)
(* Properties                                                              *)
(***************************************************************************)
TypeOK ==
  /\ act_queue \in [Slots -> Act \cup {NULL}]
  /\ act_queue_len \in 0..(QueueSize + 1)
  /\ priority \in [Act -> Priorities]
  /\ scheduled \in [Act -> BOOLEAN]
  /\ pc \in Phases
  /\ ret \in Callers
  /\ hole \in Slots
  /\ act \in Act \cup {NULL}
  /\ running \in Act \cup {NULL}
  /\ error \in {"none", "act_queue_full"}

\* The array as it would be with the percolated record put where the hole is.
Queue == IF pc \in {"up", "down"} THEN Filled(act_queue, hole, act) ELSE act_queue

\* The flag says what its declaration says: a record is in the queue, once,
\* exactly when it is scheduled.  While percolate_up looks for its place, the
\* record it places is in the queue and not yet marked.
ScheduledIffQueued ==
  error = "none" =>
    /\ \A a \in Act : scheduled[a] \/ (pc = "up" /\ a = act) <=>
                        \E i \in 1..act_queue_len : Queue[i] = a
    /\ \A i, j \in 1..act_queue_len : Queue[i] = Queue[j] => i = j

\* Whenever no percolation is under way the queue passes
\* act_queue_consistency_check.
HeapOrderedBetweenCalls ==
  error = "none" /\ pc \in Callers => HeapOrdered(act_queue, act_queue_len, priority)

\* The run loop takes records in order of priority: the one it is about to run
\* comes before, or together with, every other scheduled one, those that the
\* steps before it activated included.
LeastRunsFirst ==
  error = "none" /\ pc = "looping" =>
    \A a \in Act : scheduled[a] =>
      /\ act_queue_len > 0
      /\ priority[act_queue[SSM_QUEUE_HEAD]] <= priority[a]

Records == INSTANCE ActSet WITH
             queued <- {a \in Act : scheduled[a] \/ (pc = "up" /\ a = act)},
             phase  <- IF pc \in {"up", "down"} THEN ret ELSE pc

\* The heap, through all its intermediate states, behaves as a set of records: the
\* run loop takes all that are activated, those that its steps activate included,
\* each once and one of least priority at a time, and activations are refused only
\* when the queue is full.
ImplementsActSet == Records!Spec
=============================================================================
