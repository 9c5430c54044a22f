------------------------------- MODULE OneTwo -------------------------------
(***************************************************************************)
(* src/examples/simulation/onetwo.c: two routines wait for the same        *)
(* assignment, and run in the order of their priorities.                   *)
(***************************************************************************)
EXTENDS Machine

Delay == 100

\* Each waits, then writes to the variable what it makes of its value.
Modify(m, a, new) ==
  LET var == Local(m, a).a
  IN CASE Pc(m, a) = 0 -> Sleeps(m, a, 1, {var})
       [] Pc(m, a) = 1 ->
            Leave(Drop(Writes(Desensitize(m, a, {var}), a, var, Marshal(new)), var), a)

Value(m, a)   == Unmarshal(Deref(m, Local(m, a).a))
StepOne(m, a) == Modify(m, a, Value(m, a) + 1)
StepTwo(m, a) == Modify(m, a, Value(m, a) * 2)

StepMain(m, a) ==
  LET new == Ref(Address(m))
      m1  == After(NewSv(m, Marshal(0)), Delay, new, Marshal(10))
      var == Local(m, a).a
  IN CASE Pc(m, a) = 0 ->
            Return(Fork(Dups(Set(m1, a, [a |-> new]), <<new, new>>), a, 1,
                        <<<<"one", [a |-> new]>>, <<"two", [a |-> new]>>>>),
                   a, 1)
       [] Pc(m, a) = 1 -> Leave(Drop(Printed(m, Unmarshal(Deref(m, var))), var), a)

Step(m, a) ==
  CASE m.act[a].step = "one"  -> StepOne(m, a)
    [] m.act[a].step = "two"  -> StepTwo(m, a)
    [] m.act[a].step = "main" -> StepMain(m, a)

ProgramInit == StartMain(EmptyMachine, <<>>)
=============================================================================
