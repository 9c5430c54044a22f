------------------------------ MODULE Objects ------------------------------
(***************************************************************************)
(* Values and heap objects of ssm.h and ssm-mem.c, as operators on a       *)
(* memory m.  m.obj has the objects that are allocated and m.fault says    *)
(* that freed memory has been used; a record with more fields than these   *)
(* two is a memory as well (see Machine).                                  *)
(*                                                                         *)
(* One thread calls these functions and nothing calls back into user code, *)
(* so a call is a function of the memory.  An address is the least one     *)
(* that is free: it is used again at once, as by the pools, whose lists    *)
(* are last in, first out.                                                 *)
(***************************************************************************)
EXTENDS Integers, Sequences, SequencesExt, FiniteSets, FiniteSetsExt

CONSTANTS
  WordBits,   \* the width of ssm_word_t
  CountBits,  \* the width of ref_count
  Never       \* SSM_NEVER

ASSUME ObjectsAssumption ==
  WordBits \in Nat \ {0} /\ CountBits \in Nat \ {0} /\ Never \in Nat

-----------------------------------------------------------------------------
(* Values: a number shifted left past a set bit, or an address.            *)

Marshal(n)   == [heap |-> FALSE, n |-> n % 2^(WordBits - 1)]
Unmarshal(v) == v.n
OnHeap(v)    == v.heap
Ref(o)       == [heap |-> TRUE, n |-> o]

Allocated(m)   == DOMAIN m.obj
Live(m, v)     == v.n \in Allocated(m)
IsShared(m, v) == ~(OnHeap(v) /\ m.obj[v.n].count = 1)
Fault(m)       == [m EXCEPT !.fault = TRUE]

-----------------------------------------------------------------------------
(* ssm_new_*: what they return is Ref(Address(m)) for the memory before.   *)
(* An object has the fields of every kind, those of other kinds being as   *)
(* they are set here.                                                      *)

Address(m) == Min(1..(Cardinality(Allocated(m)) + 1) \ Allocated(m))
Alloc(m, object) ==
  [m EXCEPT !.obj = [o \in Allocated(m) \cup {Address(m)} |->
                       IF o = Address(m) THEN object ELSE m.obj[o]]]

Object(kind, vals) ==
  [kind |-> kind, count |-> 1, vals |-> vals,
   tag |-> 0, f |-> "", cap |-> 0,
   later_time |-> Never, later_value |-> Marshal(0), last_updated |-> Never,
   triggers |-> {}]
NewLeaf(m, kind)      == Alloc(m, Object(kind, <<>>))
NewAdt(m, tag, vals)  == Alloc(m, [Object("adt", vals) EXCEPT !.tag = tag])
NewSv(m, val)         == Alloc(m, Object("sv", <<val>>))
NewClosure(m, f, cap) == Alloc(m, [Object("closure", <<>>) EXCEPT !.f = f, !.cap = cap])

Field(m, v, i)     == m.obj[v.n].vals[i]
Deref(m, var)      == Field(m, var, 1)
Pending(m, var)    == m.obj[var.n].later_time # Never
LaterValue(m, var) == m.obj[var.n].later_value

\* How many of the values are references to object o.
Count(o, vs) == Cardinality({i \in DOMAIN vs : vs[i] = Ref(o)})

\* Every reference among the values counts once more.
Dups(m, vs) ==
  IF \E i \in DOMAIN vs : OnHeap(vs[i]) /\ ~Live(m, vs[i]) THEN Fault(m)
  ELSE [m EXCEPT !.obj = [o \in Allocated(m) |->
          [m.obj[o] EXCEPT !.count = (@ + Count(o, vs)) % 2^CountBits]]]

Dup(m, v) == Dups(m, <<v>>)

-----------------------------------------------------------------------------
(* The parts of ssm_drop and ssm_drop_final, which call each other:        *)
(* AtomicDrop puts them together as one step, RefCount as many.            *)

Release(m, v) ==
  IF ~OnHeap(v) THEN m
  ELSE IF ~Live(m, v) THEN Fault(m)
  ELSE [m EXCEPT !.obj[v.n].count = (@ - 1) % 2^CountBits]

\* The last reference is dropped: what ssm_drop_final is called for.
Dies(m, v) == OnHeap(v) /\ Live(m, v) /\ (m.obj[v.n].count - 1) % 2^CountBits = 0

Unschedule(m, var) == [m EXCEPT !.obj[var.n].later_time = Never]

\* Mutant: what a closure has been applied to is forgotten.
PayloadButClosures(m, v) == IF m.obj[v.n].kind = "closure" THEN <<>> ELSE m.obj[v.n].vals

\* The references that ssm_drop_final gives up: not those of later_value, as
\* ssm_unschedule has just cleared the later_time that it looks at.
Payload(m, v) == m.obj[v.n].vals

Free(m, v) ==
  IF ~Live(m, v) THEN Fault(m)
  ELSE [m EXCEPT !.obj = [o \in Allocated(m) \ {v.n} |-> m.obj[o]]]

-----------------------------------------------------------------------------
(* What is written to a variable, when it is still allocated.              *)

WriteValue(m, var, val, time) ==
  IF ~Live(m, var) THEN Fault(m)
  ELSE [m EXCEPT !.obj[var.n].vals = <<val>>, !.obj[var.n].last_updated = time]

WriteLater(m, var, val) ==
  IF ~Live(m, var) THEN Fault(m) ELSE [m EXCEPT !.obj[var.n].later_value = val]

\* From when on, what is pending is not yet written.
Schedule(m, var, when) ==
  IF ~Live(m, var) THEN Fault(m) ELSE [m EXCEPT !.obj[var.n].later_time = when]

\* ssm_update's assignments.
WriteUpdate(m, var, time) ==
  IF ~Live(m, var) THEN Fault(m)
  ELSE Unschedule(WriteValue(m, var, LaterValue(m, var), time), var)

-----------------------------------------------------------------------------
(* Closures.  A closure that gets its last argument activates a child that *)
(* owns the arguments: the caller of these operators enters it.            *)

Push(m, closure, arg) == [m EXCEPT !.obj[closure.n].vals = Append(@, arg)]
Args(m, closure)      == m.obj[closure.n].vals
Completes(m, closure) == m.obj[closure.n].cap = Len(Args(m, closure)) + 1

\* ssm_closure_clone; the clone is Ref(Address(m)).
Clone(m, closure) ==
  LET m1 == NewClosure(m, m.obj[closure.n].f, m.obj[closure.n].cap)
      m2 == Dups(m1, Args(m1, closure))
  IN [m2 EXCEPT !.obj[Address(m)].vals = Args(m2, closure)]

\* Mutant: the child gets arguments that the closure still owns.
ApplyWithoutDups(m, closure, arg) ==
  IF Completes(m, closure) THEN m
  ELSE Push(Clone(m, closure), Ref(Address(m)), arg)

\* ssm_closure_apply.  The push before the call and the pop after it cancel.
Apply(m, closure, arg) ==
  IF Completes(m, closure) THEN Dups(m, Args(m, closure))
  ELSE Push(Clone(m, closure), Ref(Address(m)), arg)

\* ssm_closure_apply_final: the arguments move to the child, or the closure
\* itself is what is returned.
ApplyFinal(m, closure, arg) ==
  IF Completes(m, closure) THEN Free(m, closure) ELSE Push(m, closure, arg)
=============================================================================
