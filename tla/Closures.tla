------------------------------ MODULE Closures ------------------------------
(***************************************************************************)
(* src/examples/simulation/closures.c:                                     *)
(*                                                                         *)
(*   f = foo 1; g = f 2; a = foo 3 4 5; h = f a; b = g a; c = g b;         *)
(*   h (a + b + c)                                                         *)
(*                                                                         *)
(* as built by default, and as built with CLOSURES_UNOPTIMIZED.            *)
(***************************************************************************)
EXTENDS Machine

StepFoo(m, a) ==
  LET l == Local(m, a)
      x == [i \in 1..3 |-> Unmarshal(l.argv[i])]
  IN Leave(Drops(Store(m, l.ret, Marshal(x[1] + x[2] + x[3])), l.argv), a)

Sum(m, a) ==
  LET l == Local(m, a) IN Marshal(Unmarshal(l.a) + Unmarshal(l.b) + Unmarshal(l.c))

-----------------------------------------------------------------------------
(* CLOSURES_UNOPTIMIZED: every application may or may not have a child.    *)

\* The applications of cases 0 to 8: what is applied, to what, and for which
\* local ("": for main's result).
Applied == <<"foo", "f", "foo", "a2", "a1", "f", "g", "g", "h">>
Results == <<"f", "g", "a2", "a1", "a", "h", "b", "c", "">>
Argument(m, a, k) ==
  CASE k \in 1..5 -> Marshal(k)
    [] k \in 6..7 -> Local(m, a).a
    [] k = 8       -> Local(m, a).b
    [] k = 9       -> Sum(m, a)

\* From application k on, up to one that has a child.
RECURSIVE ApplyFrom(_, _, _)
ApplyFrom(m, a, k) ==
  LET l  == Local(m, a)
      m1 == ClosureApplyAuto(m, a, l[Applied[k]], Argument(m, a, k),
                             IF Results[k] = "" THEN l.ret ELSE At(a, Results[k]))
  IN IF k > 9
     THEN Leave(Drops(m, <<l.c, l.b, l.b, l.a, l.a1, l.a2, l.h, l.g, l.f, l.foo>>), a)
     ELSE IF HasChildren(m1, a) THEN Return(m1, a, k) ELSE ApplyFrom(m1, a, k + 1)

StepMainUnoptimized(m, a) ==
  IF Pc(m, a) = 0
  THEN ApplyFrom(Set(NewClosure(m, "foo", 3), a, [foo |-> Ref(Address(m))]), a, 1)
  ELSE ApplyFrom(m, a, Pc(m, a) + 1)

-----------------------------------------------------------------------------
(* The default: what is known of each closure is made use of.              *)

\* Cases 2, 6 and 8 are reached through a child or fall through from above.
ActivateFoo(m, a) ==
  Return(Call(m, a, "foo", [argv |-> <<Marshal(3), Marshal(4), Marshal(5)>>,
                            ret |-> At(a, "a")]),
         a, 3)

\* The closure is kept: its arguments are duplicated for the child.
ApplyG(m, a) ==
  LET l == Local(m, a)
  IN Return(Reduce(Dups(m, Args(m, l.g)), a, l.g, Append(Args(m, l.g), l.a), At(a, "b"),
                   Priority(m, a), Depth(m, a)),
            a, 7)

\* Mutant: the closure h is not freed when its arguments have moved.
ApplyHKeeps(m, a) ==
  LET l == Local(m, a)
  IN Return(Reduce(m, a, l.h, Append(Args(m, l.h), Sum(m, a)), l.ret,
                   Priority(m, a), Depth(m, a)),
            a, 9)

\* The closure is not used again: its arguments move to the child.
ApplyH(m, a) ==
  LET l == Local(m, a)
  IN Return(Free(Reduce(m, a, l.h, Append(Args(m, l.h), Sum(m, a)), l.ret,
                        Priority(m, a), Depth(m, a)), l.h),
            a, 9)

StepMain(m, a) ==
  LET l  == Local(m, a)
      f  == Ref(Address(m))
      m0 == Set(Push(NewClosure(m, "foo", 3), f, Marshal(1)), a, [f |-> f])
      Unless(n, pc, Next(_, _)) == IF HasChildren(n, a) THEN Return(n, a, pc) ELSE Next(n, a)
  IN CASE Pc(m, a) = 0 -> Unless(ClosureApply(m0, a, f, Marshal(2), At(a, "g")), 2, ActivateFoo)
       [] Pc(m, a) = 2 -> ActivateFoo(m, a)
       [] Pc(m, a) = 3 -> Unless(ClosureApplyFinal(m, a, l.f, l.a, At(a, "h")), 6, ApplyG)
       [] Pc(m, a) = 6 -> ApplyG(m, a)
       [] Pc(m, a) = 7 -> Unless(ClosureApplyFinal(m, a, l.g, l.b, At(a, "c")), 8, ApplyH)
       [] Pc(m, a) = 8 -> ApplyH(m, a)
       [] Pc(m, a) = 9 -> Leave(m, a)

\* Which of the two is built.
Step(m, a, optimized) ==
  CASE m.act[a].step = "foo"                -> StepFoo(m, a)
    [] m.act[a].step = "main" /\ optimized  -> StepMain(m, a)
    [] m.act[a].step = "main" /\ ~optimized -> StepMainUnoptimized(m, a)

\* The result is 6969, packed, before it is written.
ProgramInit ==
  StartMain(SetGlobal(EmptyMachine, [ret |-> Marshal(3484)]), [ret |-> At(Top, "ret")])

ProgramExit(m) == Drop(Printed(m, Unmarshal(m.global.ret)), m.global.ret)
=============================================================================
