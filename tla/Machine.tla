------------------------------ MODULE Machine ------------------------------
(***************************************************************************)
(* The runtime as a program of src/examples sees it, to run that program   *)
(* as it stands: values, objects, activation records with their locals,    *)
(* wake-ups and time.  A machine is a record, and a call of the runtime an *)
(* operator on it; it is also a memory in the sense of Objects.  Queues    *)
(* are sets, as EventQueue and ActQueue are shown to implement, and        *)
(* trigger lists are sets, as TriggerList is.                              *)
(***************************************************************************)
EXTENDS AtomicDrop, TLC

CONSTANTS
  RootDepth,  \* SSM_ROOT_DEPTH, the bits of a priority
  Second      \* SSM_SECOND

Top == 0  \* ssm_top_parent, whose step function does nothing

EmptyMachine ==
  [obj |-> <<>>, fault |-> FALSE, act |-> <<>>, queue |-> {}, now |-> 0,
   global |-> <<>>, out |-> <<>>,
   call |-> Top]  \* the record that ssm_leave is about to call

Printed(m, x) == [m EXCEPT !.out = Append(@, x)]
SetGlobal(m, fields) == [m EXCEPT !.global = fields @@ @]

-----------------------------------------------------------------------------
(* Activation records.                                                     *)

Pc(m, a)          == m.act[a].pc
Local(m, a)       == m.act[a].local
Priority(m, a)    == m.act[a].priority
Depth(m, a)       == m.act[a].depth
HasChildren(m, a) == m.act[a].children # 0
Set(m, a, fields) == [m EXCEPT !.act[a].local = fields @@ @]

\* A step function stores its program counter and returns.
Return(m, a, pc)  == [m EXCEPT !.act[a].pc = pc]
Sleeps(m, a, pc, vars) ==
  IF \E var \in vars : ~Live(m, var) THEN Fault(m)
  ELSE Return([m EXCEPT !.obj = [o \in Allocated(m) |->
                IF Ref(o) \in vars THEN [@[o] EXCEPT !.triggers = @ \cup {a}] ELSE @[o]]],
              a, pc)

\* ssm_desensitize of the triggers of a on these variables.
Desensitize(m, a, vars) ==
  IF \E var \in vars : ~Live(m, var) \/ a \notin m.obj[var.n].triggers THEN Fault(m)
  ELSE [m EXCEPT !.obj = [o \in Allocated(m) |->
          IF Ref(o) \in vars THEN [@[o] EXCEPT !.triggers = @ \ {a}] ELSE @[o]]]

\* ssm_enter and ssm_activate.
Start(m, parent, step, local, priority, depth) ==
  LET a == Min(1..(Max(DOMAIN m.act \cup {0}) + 1) \ DOMAIN m.act)
      record == [step |-> step, caller |-> parent, pc |-> 0, children |-> 0,
                 priority |-> priority, depth |-> depth, local |-> local]
  IN [m EXCEPT
       !.act = [b \in DOMAIN m.act \cup {a} |->
                  IF b = a THEN record
                  ELSE IF b = parent THEN [m.act[b] EXCEPT !.children = @ + 1]
                  ELSE m.act[b]],
       !.queue = @ \cup {a}]

StartMain(m, local) == Start(m, Top, "main", local, 0, RootDepth)

\* A child that runs in its parent's place.
Call(m, a, step, local) == Start(m, a, step, local, Priority(m, a), Depth(m, a))

\* pinc, added once for each child before.
Share(i, depth) == (i - 1) * 2^depth

\* Children that share the priorities of their parent: child i is <<step
\* function, locals>>.
Fork(m, a, bits, children) ==
  LET depth == Depth(m, a) - bits
  IN FoldLeftDomain(
       LAMBDA n, i : Start(n, a, children[i][1], children[i][2],
                           Priority(m, a) + Share(i, depth), depth),
       m, children)

\* What is left of the records when a has been freed.
Without(m, a) ==
  [b \in DOMAIN m.act \ {a} |->
     IF b = m.act[a].caller THEN [m.act[b] EXCEPT !.children = @ - 1] ELSE m.act[b]]

\* ssm_leave: the last child's return is its parent's call.
Leave(m, a) ==
  LET parent == m.act[a].caller
      left   == Without(m, a)
  IN [m EXCEPT !.act = left,
               !.call = IF parent # Top /\ left[parent].children = 0 THEN parent ELSE Top]

-----------------------------------------------------------------------------
(* Scheduled variables.                                                    *)

Wakes(m, var, after) == {a \in m.obj[var.n].triggers : Priority(m, a) > after}

\* ssm_assign by record a.
Writes(m, a, var, val) ==
  LET m1 == Assign(m, var, val, m.now)
  IN [m1 EXCEPT !.queue = @ \cup Wakes(m1, var, Priority(m, a))]

\* ssm_later, delay from now.
After(m, delay, var, val) == Later(m, var, m.now + delay, val)

EventTimes(m) ==
  {m.obj[o].later_time : o \in {p \in Allocated(m) : m.obj[p].kind = "sv"}} \ {Never}

\* ssm_set_now of the next event's time, as by a tick that nobody waits for.
Advance(m) ==
  IF Min(EventTimes(m)) <= m.now THEN Fault(m)
  ELSE [m EXCEPT !.now = Min(EventTimes(m))]

\* ssm_update of a variable that is due: all who wait for it are woken.
Due(m) ==
  {Ref(o) : o \in {p \in Allocated(m) : m.obj[p].kind = "sv" /\ m.obj[p].later_time = m.now}}
UpdateDue(m, var) ==
  LET m1 == Update(m, var, m.now)
  IN [m1 EXCEPT !.queue = @ \cup m1.obj[var.n].triggers]

\* Mutant: the record with the greatest priority.
LastToRun(m) ==
  CHOOSE a \in m.queue : \A b \in m.queue : Priority(m, a) >= Priority(m, b)

\* The record with the least priority.
NextToRun(m) ==
  CHOOSE a \in m.queue : \A b \in m.queue : Priority(m, a) <= Priority(m, b)

-----------------------------------------------------------------------------
(* Results are stored where the caller says: in a local, or a global.      *)

At(a, name) == [act |-> a, name |-> name]
Nowhere     == At(Top, "")

Store(m, place, val) ==
  IF place = Nowhere THEN m
  ELSE IF place.act = Top THEN SetGlobal(m, place.name :> val)
  ELSE IF place.act \notin DOMAIN m.act THEN Fault(m)
  ELSE Set(m, place.act, place.name :> val)

\* A closure's function enters a record with the arguments and the place.
Reduce(m, a, c, args, ret, priority, depth) ==
  Start(m, a, m.obj[c.n].f, [argv |-> args, ret |-> ret], priority, depth)

ApplyAt(m, a, c, arg, ret, priority, depth) ==
  IF Completes(m, c)
  THEN Reduce(Apply(m, c, arg), a, c, Append(Args(m, c), arg), ret, priority, depth)
  ELSE Store(Apply(m, c, arg), ret, Ref(Address(m)))

ClosureApply(m, a, c, arg, ret) ==
  ApplyAt(m, a, c, arg, ret, Priority(m, a), Depth(m, a))
ClosureApplyAuto(m, a, c, arg, ret) == ClosureApply(Dup(m, arg), a, c, arg, ret)

ClosureApplyFinal(m, a, c, arg, ret) ==
  IF IsShared(m, c) THEN Fault(m)
  ELSE IF Completes(m, c)
  THEN ApplyFinal(Reduce(m, a, c, Append(Args(m, c), arg), ret,
                         Priority(m, a), Depth(m, a)), c, arg)
  ELSE Store(ApplyFinal(m, c, arg), ret, c)
=============================================================================
