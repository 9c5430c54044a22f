----------------------------- MODULE Scheduler -----------------------------
(***************************************************************************)
(* The synchronous scheduling of routines: activation records in a tree,   *)
(* scheduled variables with triggers, and ssm_tick, which updates the      *)
(* variables that are due and then runs the activated records in order of  *)
(* priority.  The two queues are sets here, of which ssm_tick takes a      *)
(* least element; EventQueue and ActQueue are about the heaps.             *)
(*                                                                         *)
(* A step function is user code.  While it runs it may make any sequence   *)
(* of calls of the runtime that the calling convention of the example      *)
(* programs allows: it forks its children, with priority ranges of their   *)
(* own, as the last thing before it returns; it does not wait for children *)
(* and for variables at once; and it leaves when it waits for nothing.     *)
(*                                                                         *)
(* stepped and wrote are auxiliary: they record what has happened since    *)
(* ssm_tick was entered, and no guard depends on them.                     *)
(***************************************************************************)
EXTENDS Integers, FiniteSets, FiniteSetsExt, Functions

CONSTANTS
  Act,             \* the activation records that memory has room for
  SV,              \* the scheduled variables
  ssm_top_parent,
  NULL,
  RootDepth,       \* SSM_ROOT_DEPTH, the number of bits of a priority
  LastTime,        \* nothing is scheduled for a later time (a bound)
  Never            \* SSM_NEVER

ASSUME SchedulerAssumption ==
  /\ IsFiniteSet(Act)
  /\ ssm_top_parent \notin Act
  /\ NULL \notin Act \cup {ssm_top_parent}
  /\ RootDepth \in Nat
  /\ LastTime \in Nat
  /\ Never \in Nat /\ Never > LastTime

VARIABLES
  caller,       \* of every record; NULL when it is not allocated
  priority,
  depth,        \* a record owns the 2^depth priorities from its own
  children,     \* the number of running children
  pc,           \* 0 until the record's first step
  scheduled,    \* the records in the activation queue
  triggers,     \* the records sensitive to every variable
  later_time,   \* the pending time of every variable, or Never
  last_updated,
  now,
  phase,        \* "init", "idle", "updating" or "running"
  running,      \* the record whose step function has control, or NULL
  stepped,      \* the records whose step function was called in this tick
  wrote         \* the records whose priority is at least wrote[v] come after
                \* the first write of v in this tick

recordVars == <<caller, priority, depth, children>>
timeVars   == <<later_time, last_updated, now>>
vars == <<recordVars, pc, scheduled, triggers, timeVars, phase, running,
          stepped, wrote>>

\* 1 << n
Pow2[n \in 0..RootDepth] == IF n = 0 THEN 1 ELSE 2 * Pow2[n - 1]

MaxPriority == Pow2[RootDepth] - 1
Unwritten   == MaxPriority + 1
Live        == {a \in Act : caller[a] # NULL}
Pending     == {v \in SV : later_time[v] # Never}
Due         == {v \in SV : later_time[v] = now}
Waits(a)    == \E v \in SV : a \in triggers[v]

Init ==
  /\ caller = [a \in Act |-> NULL]
  /\ priority = [a \in Act |-> 0]
  /\ depth = [a \in Act |-> 0]
  /\ children = [a \in Act \cup {ssm_top_parent} |-> 0]
  /\ pc = [a \in Act |-> 0]
  /\ scheduled = {}
  /\ triggers = [v \in SV |-> {}]
  /\ later_time = [v \in SV |-> Never]
  /\ last_updated = [v \in SV |-> Never]
  /\ now = 0
  /\ phase = "init"
  /\ running = NULL
  /\ stepped = {}
  /\ wrote = [v \in SV |-> Unwritten]

-----------------------------------------------------------------------------
(***************************************************************************)
(* Forking: the parent, which owns the 2^d priorities from p on, enters     *)
(* and activates k children and gives each the same share of them, in      *)
(* order; one child alone gets them all.                                   *)
(***************************************************************************)
\* The bits that tell k siblings apart.
Bits(k) == Min({b \in 0..RootDepth : k <= Pow2[b]})

\* Mutant: every child gets the first share.
ShareTheFirst(p, d, k, i) == p

Share(p, d, k, i) == p + (i - 1) * Pow2[d - Bits(k)]

\* Any sequence of distinct free records that the depth has bits for.
Families(d) ==
  LET free == Act \ Live
  IN  UNION {Injection(1..k, free) :
               k \in {n \in 1..Cardinality(free) : n <= Pow2[d]}}

\* ssm_enter_int and ssm_activate, of one child after the other.
Spawn(parent, p, d, kids) ==
  LET k   == Cardinality(DOMAIN kids)
      new == Range(kids)
      nth == AntiFunction(kids)
  IN  /\ caller' = [a \in Act |-> IF a \in new THEN parent ELSE caller[a]]
      /\ priority' = [a \in Act |-> IF a \in new THEN Share(p, d, k, nth[a])
                                                 ELSE priority[a]]
      /\ depth' = [a \in Act |-> IF a \in new THEN d - Bits(k) ELSE depth[a]]
      /\ pc' = [a \in Act |-> IF a \in new THEN 0 ELSE pc[a]]
      /\ children' = [a \in DOMAIN children |->
                        IF a \in new THEN 0
                        ELSE IF a = parent THEN children[a] + k
                        ELSE children[a]]
      /\ scheduled' = scheduled \cup new

-----------------------------------------------------------------------------
(***************************************************************************)
(* The platform: it starts the program, puts inputs in the event queue,    *)
(* and calls ssm_tick.                                                     *)
(***************************************************************************)
Start(kids) ==
  /\ phase = "init"
  /\ phase' = "idle"
  /\ Spawn(ssm_top_parent, 0, RootDepth, kids)
  /\ UNCHANGED <<triggers, timeVars, running, stepped, wrote>>

\* ssm_input_consume: an input that is not later than the next event.
Input(v, when) ==
  /\ phase = "idle"
  /\ when > now
  /\ \A u \in Pending : when <= later_time[u]
  /\ later_time' = [later_time EXCEPT ![v] = when]
  /\ UNCHANGED <<recordVars, pc, scheduled, triggers, last_updated, now, phase,
                 running, stepped, wrote>>

\* ssm_tick advances the time only when nothing is left to run.
Tick ==
  /\ phase = "idle"
  /\ scheduled # {} \/ Pending # {}
  /\ now' = IF scheduled = {} THEN Min({later_time[v] : v \in Pending}) ELSE now
  /\ phase' = "updating"
  /\ stepped' = {}
  /\ wrote' = [v \in SV |-> Unwritten]
  /\ UNCHANGED <<recordVars, pc, scheduled, triggers, later_time, last_updated,
                 running>>

\* ssm_update: everyone who is sensitive to the variable is woken.
Update(v) ==
  /\ phase = "updating"
  /\ v \in Due
  /\ later_time' = [later_time EXCEPT ![v] = Never]
  /\ last_updated' = [last_updated EXCEPT ![v] = now]
  /\ scheduled' = scheduled \cup triggers[v]
  /\ wrote' = [wrote EXCEPT ![v] = 0]
  /\ UNCHANGED <<recordVars, pc, triggers, now, phase, running, stepped>>

EndUpdates ==
  /\ phase = "updating"
  /\ Due = {}
  /\ phase' = "running"
  /\ UNCHANGED <<recordVars, pc, scheduled, triggers, timeVars, running, stepped,
                 wrote>>

\* Mutant: the queue is not in order.
LeastOrNot(a) == a \in scheduled

Least(a) == \A b \in scheduled : priority[a] <= priority[b]

RunNext(a) ==
  /\ phase = "running"
  /\ running = NULL
  /\ a \in scheduled
  /\ Least(a)
  /\ scheduled' = scheduled \ {a}
  /\ running' = a
  /\ pc' = [pc EXCEPT ![a] = 1]
  /\ stepped' = stepped \cup {a}
  /\ UNCHANGED <<recordVars, triggers, timeVars, phase, wrote>>

EndTick ==
  /\ phase = "running"
  /\ running = NULL
  /\ scheduled = {}
  /\ phase' = "idle"
  /\ UNCHANGED <<recordVars, pc, scheduled, triggers, timeVars, running, stepped,
                 wrote>>

-----------------------------------------------------------------------------
(***************************************************************************)
(* What the running record a may do.                                       *)
(***************************************************************************)
Sensitize(a, v) ==
  /\ a \notin triggers[v]
  /\ triggers' = [triggers EXCEPT ![v] = @ \cup {a}]
  /\ UNCHANGED <<recordVars, pc, scheduled, timeVars, phase, running, stepped, wrote>>

Desensitize(a, v) ==
  /\ a \in triggers[v]
  /\ triggers' = [triggers EXCEPT ![v] = @ \ {a}]
  /\ UNCHANGED <<recordVars, pc, scheduled, timeVars, phase, running, stepped, wrote>>

\* Mutant: wakes the writer too.
DownstreamOrSelf(v, prio) == {b \in triggers[v] : priority[b] >= prio}

\* Mutant: the comparison the other way round.
Upstream(v, prio) == {b \in triggers[v] : priority[b] < prio}

\* The records that an assignment by a record of priority prio wakes.
Downstream(v, prio) == {b \in triggers[v] : priority[b] > prio}

\* Mutant: the time of the update is not recorded.
AssignUnstamped(a, v) ==
  /\ scheduled' = scheduled \cup Downstream(v, priority[a])
  /\ wrote' = [wrote EXCEPT ![v] = Min({@, priority[a] + 1})]
  /\ UNCHANGED <<recordVars, pc, triggers, timeVars, phase, running, stepped>>

\* ssm_sv_assign_unsafe
Assign(a, v) ==
  /\ last_updated' = [last_updated EXCEPT ![v] = now]
  /\ scheduled' = scheduled \cup Downstream(v, priority[a])
  /\ wrote' = [wrote EXCEPT ![v] = Min({@, priority[a] + 1})]
  /\ UNCHANGED <<recordVars, pc, triggers, later_time, now, phase, running, stepped>>

\* ssm_sv_later_unsafe
Later(a, v, when) ==
  /\ when > now
  /\ later_time' = [later_time EXCEPT ![v] = when]
  /\ UNCHANGED <<recordVars, pc, scheduled, triggers, last_updated, now, phase,
                 running, stepped, wrote>>

\* The last reference to v is dropped, which cancels what is pending for it
\* (ssm_drop_final), and its memory serves for a new variable.
Recycle(a, v) ==
  /\ triggers[v] = {}
  /\ later_time' = [later_time EXCEPT ![v] = Never]
  /\ last_updated' = [last_updated EXCEPT ![v] = Never]
  /\ wrote' = [wrote EXCEPT ![v] = Unwritten]
  /\ UNCHANGED <<recordVars, pc, scheduled, triggers, now, phase, running, stepped>>

\* Return, to be woken by a variable.
Sleep(a) ==
  /\ Waits(a)
  /\ running' = NULL
  /\ UNCHANGED <<recordVars, pc, scheduled, triggers, timeVars, phase, stepped, wrote>>

\* Return, to be called by the last child that leaves.
Par(a, kids) ==
  /\ ~Waits(a)
  /\ Spawn(a, priority[a], depth[a], kids)
  /\ running' = NULL
  /\ UNCHANGED <<triggers, timeVars, phase, stepped, wrote>>

\* Mutant: any child that leaves resumes its parent.
IsAnyChild(parent) == children[parent] >= 1

IsLastChild(parent) == children[parent] = 1

\* ssm_leave.  The last child calls its parent's step function, which then
\* has control; ssm_top_parent's does nothing.  What a freed record holds is
\* not read before ssm_enter_int overwrites it.
Leave(a) ==
  /\ ~Waits(a)
  /\ LET parent == caller[a]
     IN  /\ caller' = [caller EXCEPT ![a] = NULL]
         /\ priority' = [priority EXCEPT ![a] = 0]
         /\ depth' = [depth EXCEPT ![a] = 0]
         /\ pc' = [pc EXCEPT ![a] = 0]
         /\ children' = [children EXCEPT ![parent] = @ - 1]
         /\ IF IsLastChild(parent) /\ parent # ssm_top_parent
            THEN running' = parent /\ stepped' = (stepped \ {a}) \cup {parent}
            ELSE running' = NULL /\ stepped' = stepped \ {a}
  /\ UNCHANGED <<scheduled, triggers, timeVars, phase, wrote>>

Step(a) ==
  /\ running = a
  /\ \/ \E v \in SV :
          \/ Sensitize(a, v)
          \/ Desensitize(a, v)
          \/ Assign(a, v)
          \/ \E when \in 1..LastTime : Later(a, v, when)
          \/ Recycle(a, v)
     \/ Sleep(a)
     \/ \E kids \in Families(depth[a]) : Par(a, kids)
     \/ Leave(a)

Next ==
  \/ \E kids \in Families(RootDepth) : Start(kids)
  \/ \E v \in SV, when \in 1..LastTime : Input(v, when)
  \/ Tick
  \/ \E v \in SV : Update(v)
  \/ EndUpdates
  \/ \E a \in Act : RunNext(a) \/ Step(a)
  \/ EndTick

Spec == Init /\ [][Next]_vars

-----------------------------------------------------------------------------
(***************************************************************************)
(* Properties                                                              *)
(***************************************************************************)
TypeOK ==
  /\ caller \in [Act -> Act \cup {ssm_top_parent, NULL}]
  /\ priority \in [Act -> 0..MaxPriority]
  /\ depth \in [Act -> 0..RootDepth]
  /\ children \in [Act \cup {ssm_top_parent} -> 0..Cardinality(Act)]
  /\ pc \in [Act -> {0, 1}]
  /\ scheduled \subseteq Act
  /\ triggers \in [SV -> SUBSET Act]
  /\ later_time \in [SV -> 0..LastTime \cup {Never}]
  /\ last_updated \in [SV -> 0..LastTime \cup {Never}]
  /\ now \in 0..LastTime
  /\ phase \in {"init", "idle", "updating", "running"}
  /\ running \in Act \cup {NULL}
  /\ stepped \subseteq Act
  /\ wrote \in [SV -> 0..Unwritten]

Children(a) == {c \in Live : caller[c] = a}

\* The records above a in the tree given by c: those in every set that has the
\* caller of a and of each of its members.
Above(c, a) ==
  {b \in Act : \A S \in SUBSET Act :
     (\A x \in S \cup {a} : c[x] \in Act => c[x] \in S) => b \in S}

Ancestors(a) == Above(caller, a)

\* A record that leaves is freed at once, and a trigger or a queue that still
\* held it would be followed into freed memory.  Nothing but the order of
\* priorities keeps a record that leaves, or a parent that resumes and leaves,
\* out of the queue.
NothingFreedIsReachable ==
  /\ scheduled \cup stepped \cup UNION {triggers[v] : v \in SV} \subseteq Live
  /\ running # NULL => running \in Live /\ running \notin scheduled
  /\ \A a \in Live : caller[a] \in Live \cup {ssm_top_parent}

\* A parent resumes when its last child has left and not before: no record with
\* a live child is queued, runs, or can be woken by a variable.
ParentsWait ==
  \A a \in Live :
    /\ children[a] = Cardinality(Children(a))
    /\ children[a] > 0 => a \notin scheduled /\ a # running /\ ~Waits(a)

\* The order in which ssm_tick runs the queued records does not depend on how
\* the heap breaks ties: there are none.
NoTies ==
  \A a, b \in scheduled : a # b => priority[a] # priority[b]

\* Within an instant control only passes down the order of priorities: what is
\* still to run comes strictly after everything that has run, but for the
\* ancestors of what is to run.  So no record runs twice, and none runs before
\* one whose assignments it should have seen.
RunsInOrder ==
  \A a \in scheduled : \A b \in stepped :
    priority[b] < priority[a] \/ b \in Ancestors(a)

\* A record sensitive to a variable that was written earlier in this instant by
\* a record before it, or by an event, has run since, or is going to.
NoLostWakeup ==
  phase # "updating" =>
    \A v \in SV : \A a \in triggers[v] :
      priority[a] >= wrote[v] => a \in scheduled \cup stepped

\* A record that is queued and is not new waits for a variable whose
\* last_updated is now.
NoSpuriousWakeup ==
  \A a \in scheduled :
    pc[a] # 0 => \E v \in SV : a \in triggers[v] /\ last_updated[v] = now
=============================================================================
