-------------------------------- MODULE Fib --------------------------------
(***************************************************************************)
(* src/examples/simulation/fib.c: fib (n - 1), fib (n - 2) and the sum of  *)
(* their results run in parallel; each level writes its result a second    *)
(* after its inputs.                                                       *)
(***************************************************************************)
EXTENDS Machine

\* 0xdeadbeef, which no run's result reaches.
NoResult == Marshal(2^(WordBits - 1) - 1)

StepMywait(m, a) ==
  LET r == Local(m, a).r
  IN CASE Pc(m, a) = 0 -> Sleeps(m, a, 1, {r})
       [] Pc(m, a) = 1 -> Leave(Drop(Desensitize(m, a, {r}), r), a)

StepSum(m, a) ==
  LET l == Local(m, a)
  IN CASE Pc(m, a) = 0 ->
            Return(Fork(Dups(m, <<l.r1, l.r2>>), a, 1,
                        <<<<"mywait", [r |-> l.r1]>>, <<"mywait", [r |-> l.r2]>>>>),
                   a, 1)
       [] Pc(m, a) = 1 ->
            LET sum == Unmarshal(Deref(m, l.r1)) + Unmarshal(Deref(m, l.r2))
            IN Leave(Drops(After(m, Second, l.r, Marshal(sum)), <<l.r, l.r2, l.r1>>), a)

\* Mutant: the variables for the results are not shared with the children.
SharedNot(r1, r2, r) == <<r>>

\* What fib duplicates for its children.
Shared(r1, r2, r) == <<r1, r2, r>>

StepFib(m, a) ==
  LET r  == Local(m, a).r
      n  == Unmarshal(Local(m, a).n)
      r1 == Ref(Address(m))
      m1 == NewSv(m, Marshal(0))
      r2 == Ref(Address(m1))
      m2 == NewSv(m1, Marshal(0))
      End(k) == Leave(Drop(k, r), a)
  IN CASE Pc(m, a) = 0 /\ n < 2 -> End(After(m, Second, r, Marshal(1)))
       [] Pc(m, a) = 0 /\ n >= 2 ->
            Return(Fork(Dups(m2, Shared(r1, r2, r)), a, 2,
                        <<<<"fib", [n |-> Marshal(n - 1), r |-> r1]>>,
                          <<"fib", [n |-> Marshal(n - 2), r |-> r2]>>,
                          <<"sum", [r1 |-> r1, r2 |-> r2, r |-> r]>>>>),
                   a, 1)
       [] Pc(m, a) = 1 -> End(m)

Step(m, a) ==
  CASE m.act[a].step = "mywait" -> StepMywait(m, a)
    [] m.act[a].step = "sum"    -> StepSum(m, a)
    [] m.act[a].step = "fib"    -> StepFib(m, a)

ProgramInit(n) ==
  LET result == Ref(Address(EmptyMachine))
      m      == SetGlobal(NewSv(EmptyMachine, NoResult), [result |-> result])
  IN Start(Dup(m, result), Top, "fib", [n |-> Marshal(n), r |-> result], 0, RootDepth)

ProgramExit(m) ==
  Drop(Printed(m, Unmarshal(Deref(m, m.global.result))), m.global.result)
=============================================================================
