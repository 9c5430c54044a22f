------------------------------ MODULE RefCount ------------------------------
(***************************************************************************)
(* Any program that follows the ownership rules of ssm.h, over the objects *)
(* of module Objects: it may drop what it holds, passes what it holds to a *)
(* constructor or a closure, and may duplicate what it can reach.          *)
(*                                                                         *)
(* A step is a call, or of a call that drops a value an iteration of one   *)
(* of the loops of ssm_drop_final.                                         *)
(***************************************************************************)
EXTENDS Objects, TLC

CONSTANTS
  Leaves,      \* the kinds of objects without references that are created
  Caps,        \* how many arguments closures take
  Cycles,      \* whether a variable may be given a value that refers to it
  MaxObjects,  \* objects allocated at once (a bound)
  MaxRefs,     \* references to one object (a bound)
  MaxHeld,     \* references that routines hold at once (a bound)
  MaxLost      \* references lost (a bound)

Soon == 1  \* when assignments are scheduled for

ASSUME RefCountAssumption ==
  /\ Leaves \subseteq {"time", "blob"}
  /\ Caps \subseteq Nat \ {0}
  /\ Cycles \in BOOLEAN
  /\ {MaxObjects, MaxRefs, MaxHeld, MaxLost} \subseteq Nat
  /\ MaxRefs + 1 < 2^CountBits  \* one more while a call has two of its own
  /\ Soon # Never

VARIABLES
  mem,     \* the memory, as in Objects
  held,    \* how many references to each object routines hold
  lost,    \* auxiliary: references that can no longer be dropped
  frames,  \* the calls of ssm_drop_final that run, each for an object, with the
           \* index of the value it drops next; each was made by the one before
  call,    \* what is done with a variable and a value when they have returned
  seen     \* auxiliary: what could be seen when last no call was running

refVars == <<mem, held, lost, frames, call, seen>>
Ids     == 1..MaxObjects

Nothing == Marshal(0)
NoCall  == [op |-> "none", var |-> Nothing, val |-> Nothing]
Idle    == frames = <<>> /\ call = NoCall

Plus(bag, vs)  == [o \in Ids |-> bag[o] + Count(o, vs)]
Minus(bag, vs) == [o \in Ids |-> bag[o] - Count(o, vs)]
Owns(vs)       == \A o \in Ids : held[o] >= Count(o, vs)

\* The values an object has, the pending one in place 0.
Places(m, o) == 0..Len(m.obj[o].vals)
At(m, o, i) ==
  IF i # 0 THEN m.obj[o].vals[i]
  ELSE IF Pending(m, Ref(o)) THEN LaterValue(m, Ref(o)) ELSE Nothing

\* What can be seen of a memory and of the references to it.
Name(v) == IF OnHeap(v) THEN v.n ELSE 0
Contents(m) == [o \in Allocated(m) |-> [i \in Places(m, o) |-> Name(At(m, o, i))]]
View == [store |-> Contents(mem), roots |-> [o \in Ids |-> held[o] + lost[o]]]

RefInit ==
  /\ mem = [obj |-> <<>>, fault |-> FALSE]
  /\ held = [o \in Ids |-> 0] /\ lost = [o \in Ids |-> 0]
  /\ frames = <<>> /\ call = NoCall
  /\ seen = View

Holding == {Ref(o) : o \in {p \in Ids : held[p] > 0}}
Vals    == {Nothing} \cup Holding
\* A value that is assigned need not be held, as in q <- deref d.
Borrowed == Vals \cup UNION {Range(mem.obj[v.n].vals) : v \in Holding}
Holds(v, kind) == v \in Holding /\ mem.obj[v.n].kind = kind

\* A call that drops nothing returns memory m, and routines hold references h.
Step(m, h) ==
  /\ Idle
  /\ mem' = m /\ held' = h
  /\ UNCHANGED <<lost, frames, call>>

-----------------------------------------------------------------------------
(* Constructors take over what they are given.                             *)

Room == Cardinality(Allocated(mem)) < MaxObjects
Creates(m, vs) == Step(m, Plus(Minus(held, vs), <<Ref(Address(mem))>>))

CreateLeaf(kind) == Room /\ Creates(NewLeaf(mem, kind), <<>>)
CreateSv(v) == Room /\ Creates(NewSv(mem, v), <<v>>)
CreateAdt(v) == Room /\ Creates(NewAdt(mem, 0, <<v>>), <<v>>)
CreateClosure(cap) == Room /\ Creates(NewClosure(mem, "f", cap), <<>>)

-----------------------------------------------------------------------------
(* References.                                                             *)

DupHeld(v) == v \in Holding /\ Step(Dup(mem, v), Plus(held, <<v>>))

\* A value is read from an object and kept.
DupField(v) ==
  /\ v \in Holding
  /\ \E i \in DOMAIN mem.obj[v.n].vals :
       LET w == Field(mem, v, i)
       IN OnHeap(w) /\ Step(Dup(mem, w), Plus(held, <<w>>))

\* ssm_drop(v) in memory m, on behalf of the frames fs: it takes v's last
\* reference, and then ssm_drop_final begins with v's event, or another one.
Drop(m, v, fs) ==
  LET m1 == Release(m, v)
  IN IF Dies(m, v)
     THEN /\ mem' = Unschedule(m1, v)
          /\ frames' = Append(fs, [o |-> v.n, i |-> 1])
          /\ lost' = IF Pending(m, v) THEN Plus(lost, <<LaterValue(m, v)>>) ELSE lost
     ELSE mem' = m1 /\ frames' = fs /\ lost' = lost

DropHeld(v) ==
  /\ Idle
  /\ v \in Holding
  /\ Drop(mem, v, <<>>)
  /\ held' = Minus(held, <<v>>)
  /\ UNCHANGED call

\* ssm_drop_final drops one value more, or when there is none frees the object.
DropNext ==
  /\ frames # <<>>
  /\ LET frame  == Last(frames)
         rest   == Front(frames)
         values == Payload(mem, Ref(frame.o))
     IN IF frame.i <= Len(values)
        THEN Drop(mem, values[frame.i], Append(rest, [frame EXCEPT !.i = @ + 1]))
        ELSE mem' = Free(mem, Ref(frame.o)) /\ frames' = rest /\ UNCHANGED lost
  /\ UNCHANGED <<held, call>>

-----------------------------------------------------------------------------
(* Variables: a value is dropped, and with what is left the variable written. *)

\* Which objects refer to which.
Edges == UNION {{<<p, At(mem, p, i).n>> : i \in {j \in Places(mem, p) : OnHeap(At(mem, p, j))}} :
                  p \in Allocated(mem)}

\* Does no way along the references from value val lead to object o?
Avoids(val, o) ==
  \E S \in SUBSET Ids :
    /\ o \notin S
    /\ OnHeap(val) => val.n \in S
    /\ \A e \in Edges : e[1] \in S => e[2] \in S

Fits(var, val) == Holds(var, "sv") /\ (~Cycles => Avoids(val, var.n))

Calls(op, var, val) == call' = [op |-> op, var |-> var, val |-> val]

\* Mutant: the new value is not duplicated.
AssignWithoutDup(var, val) ==
  /\ Idle
  /\ Fits(var, val)
  /\ Drop(mem, Deref(mem, var), <<>>)
  /\ Calls("assign", var, val)
  /\ UNCHANGED held

\* ssm_assign: duplicate the new value, drop the old, write.
AssignSv(var, val) ==
  /\ Idle
  /\ Fits(var, val)
  /\ Drop(Dup(mem, val), Deref(mem, var), <<>>)
  /\ Calls("assign", var, val)
  /\ UNCHANGED held

\* ssm_later, for a time that is not past.
LaterSv(var, val) ==
  /\ Idle
  /\ Fits(var, val)
  /\ Drop(Schedule(Dup(mem, val), var, Soon), At(mem, var.n, 0), <<>>)
  /\ Calls("later", var, val)
  /\ UNCHANGED held

\* ssm_update.  The event queue refers to a variable without holding it.
UpdateSv(o) ==
  /\ Idle
  /\ o \in Allocated(mem) /\ mem.obj[o].kind = "sv" /\ Pending(mem, Ref(o))
  /\ Drop(mem, Deref(mem, Ref(o)), <<>>)
  /\ Calls("update", Ref(o), Nothing)
  /\ UNCHANGED held

\* The memory when the call has returned.
Finished ==
  CASE call.op = "assign" -> WriteValue(mem, call.var, call.val, Never)
    [] call.op = "later"  -> WriteLater(mem, call.var, call.val)
    [] call.op = "update" -> WriteUpdate(mem, call.var, Never)
    [] call.op = "none"   -> mem

Finish ==
  /\ frames = <<>> /\ call # NoCall
  /\ mem' = Finished /\ call' = NoCall
  /\ UNCHANGED <<held, lost, frames>>

-----------------------------------------------------------------------------
(* Closures.  The child of a completed closure holds its arguments.        *)

ApplyHeld(c, arg) ==
  /\ Holds(c, "closure") /\ Owns(<<c, arg>>)
  /\ Completes(mem, c) \/ Room
  /\ Step(Apply(mem, c, arg),
          IF Completes(mem, c) THEN Plus(held, Args(mem, c))
          ELSE Plus(Minus(held, <<arg>>), <<Ref(Address(mem))>>))

ApplyFinalHeld(c, arg) ==
  /\ Holds(c, "closure") /\ Owns(<<c, arg>>)
  /\ ~IsShared(mem, c)
  /\ Step(ApplyFinal(mem, c, arg),
          IF Completes(mem, c) THEN Plus(Minus(held, <<c>>), Args(mem, c))
          ELSE Minus(held, <<arg>>))

-----------------------------------------------------------------------------
\* With frames fs and call c, has the value in place i of object o been dropped,
\* which is not yet overwritten or freed?
Dropped(fs, c, o, i) ==
  \/ \E k \in DOMAIN fs : fs[k].o = o /\ i < fs[k].i
  \/ c.op \in {"assign", "update"} /\ c.var = Ref(o) /\ i = 1
  \/ c.op = "later" /\ c.var = Ref(o) /\ i = 0

\* The places that have a reference to object o.
Referrers(m, fs, c, o) ==
  {s \in UNION {{p} \X Places(m, p) : p \in Allocated(m)} :
     At(m, s[1], s[2]) = Ref(o) /\ ~Dropped(fs, c, s[1], s[2])}

\* The references there are to object o.
References(o) ==
  held[o] + lost[o] + Cardinality(Referrers(mem, frames, call, o)) + Count(o, <<call.val>>)

RefNext ==
  /\ \/ \E kind \in Leaves : CreateLeaf(kind)
     \/ \E v \in Vals : CreateSv(v) \/ CreateAdt(v)
     \/ \E cap \in Caps : CreateClosure(cap)
     \/ \E v \in Holding : DupHeld(v) \/ DropHeld(v) \/ DupField(v)
     \/ \E var \in Holding, val \in Borrowed : AssignSv(var, val) \/ LaterSv(var, val)
     \/ \E o \in Ids : UpdateSv(o)
     \/ DropNext
     \/ Finish
     \/ \E c \in Holding, arg \in Vals : ApplyHeld(c, arg) \/ ApplyFinalHeld(c, arg)
  /\ seen' = IF Idle' THEN View' ELSE seen
  /\ \A o \in Ids : References(o)' <= MaxRefs
  /\ FoldFunction(+, 0, held') <= MaxHeld
  /\ FoldFunction(+, 0, lost') <= MaxLost

RefSpec == RefInit /\ [][RefNext]_refVars

-----------------------------------------------------------------------------
(***************************************************************************)
(* Properties                                                              *)
(***************************************************************************)
RefTypeOK ==
  /\ Allocated(mem) \subseteq Ids
  /\ \A o \in Allocated(mem) : mem.obj[o].count \in 0..MaxRefs
  /\ held \in [Ids -> 0..MaxRefs] /\ lost \in [Ids -> Nat]

\* The count of every object is the number of references to it: those of
\* routines, of values, of assignments that are pending, and those lost with
\* the variables that had one pending when they were freed.  This is so also
\* while values are dropped, of objects of which only some values have been.
CountsAreReferences == \A o \in Allocated(mem) : mem.obj[o].count = References(o)

\* Nothing is read, counted, written or freed that has been freed, in the middle
\* of a call or between calls.
NoFreedMemoryUsed == ~mem.fault

\* What is referred to, directly or not, stays as it was until it is written,
\* and what is not referred to is freed by the call that makes it so.  A call
\* is done when it begins, to who does not see what is left to be freed.
Promised == INSTANCE Collector WITH store <- seen.store, roots <- seen.roots
ImplementsCollector == Promised!Spec
=============================================================================
