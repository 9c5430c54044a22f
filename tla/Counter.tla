------------------------------ MODULE Counter ------------------------------
(***************************************************************************)
(* src/examples/simulation/counter.c: two flip-flops and two combinational *)
(* blocks between them, each a routine that never ends, under a clock.     *)
(***************************************************************************)
EXTENDS Machine

Number(m, var) == Unmarshal(Deref(m, var))

\* Case 2 desensitizes and goes round to what case 0 does.
StepClock(m, a) ==
  LET clk == Local(m, a).clk
      m1  == Printed(m, <<"clk", Number(m, clk)>>)
      m2  == IF Pc(m, a) = 0 THEN m1 ELSE Desensitize(m1, a, {clk})
      Half(level, pc) == Sleeps(After(m2, 2 * Second, clk, Marshal(level)), a, pc, {clk})
  IN IF Pc(m, a) = 1 THEN Half(0, 2) ELSE Half(1, 1)

\* dff1 and dff2: while the clock is high, q follows d.
Dff(m, a, q, d, names) ==
  LET clk == Local(m, a).clk
      m1  == Printed(m, <<names, Number(m, q), Number(m, d)>>)
      m2  == IF Pc(m, a) = 0 THEN m1 ELSE Desensitize(m1, a, {clk})
      m3  == IF Number(m, clk) # 0 THEN Writes(m2, a, q, Deref(m, d)) ELSE m2
  IN Sleeps(m3, a, 1, {clk})

StepDff1(m, a) == Dff(m, a, Local(m, a).q1, Local(m, a).d1, "q1 d1")
StepDff2(m, a) == Dff(m, a, Local(m, a).q2, Local(m, a).d2, "q2 d2")

StepIncr(m, a) ==
  LET l  == Local(m, a)
      m1 == IF Pc(m, a) = 0 THEN m ELSE Desensitize(m, a, {l.q2})
  IN Sleeps(Writes(m1, a, l.d2, Marshal(Number(m, l.q2) + 1)), a, 1, {l.q2})

StepAdder(m, a) ==
  LET l  == Local(m, a)
      m1 == IF Pc(m, a) = 0 THEN m ELSE Desensitize(m, a, {l.d2, l.q2})
  IN Sleeps(Writes(m1, a, l.d1, Marshal(Number(m, l.q1) + Number(m, l.d2))),
            a, 1, {l.q2, l.d2})

\* Mutant: the adder comes before the block whose result it adds.
PartsAdderFirst(v) ==
  <<<<"clock", [clk |-> v.clk]>>,
    <<"dff1", [clk |-> v.clk, q1 |-> v.q1, d1 |-> v.d1]>>,
    <<"dff2", [clk |-> v.clk, q2 |-> v.q2, d2 |-> v.d2]>>,
    <<"adder", [d1 |-> v.d1, q1 |-> v.d2, d2 |-> v.q1, q2 |-> v.q2]>>,
    <<"incr", [q2 |-> v.q2, d2 |-> v.d2]>>>>

\* The arguments of the adder are d1, d2, q1 and q2, for its parameters d1, q1,
\* d2 and q2.
Parts(v) ==
  <<<<"clock", [clk |-> v.clk]>>,
    <<"dff1", [clk |-> v.clk, q1 |-> v.q1, d1 |-> v.d1]>>,
    <<"dff2", [clk |-> v.clk, q2 |-> v.q2, d2 |-> v.d2]>>,
    <<"incr", [q2 |-> v.q2, d2 |-> v.d2]>>,
    <<"adder", [d1 |-> v.d1, q1 |-> v.d2, d2 |-> v.q1, q2 |-> v.q2]>>>>

\* The memory is empty before the five variables are made.
StepMain(m, a) ==
  LET new == [clk |-> Ref(1), q1 |-> Ref(2), q2 |-> Ref(3), d1 |-> Ref(4), d2 |-> Ref(5)]
      m1  == FoldLeft(LAMBDA n, i : NewSv(n, Marshal(0)), Set(m, a, new), <<1, 2, 3, 4, 5>>)
  IN CASE Pc(m, a) = 0 -> Return(Fork(m1, a, 3, Parts(new)), a, 1)
       [] Pc(m, a) = 1 -> Leave(m, a)

Step(m, a) ==
  CASE m.act[a].step = "clock" -> StepClock(m, a)
    [] m.act[a].step = "dff1"  -> StepDff1(m, a)
    [] m.act[a].step = "dff2"  -> StepDff2(m, a)
    [] m.act[a].step = "incr"  -> StepIncr(m, a)
    [] m.act[a].step = "adder" -> StepAdder(m, a)
    [] m.act[a].step = "main"  -> StepMain(m, a)

ProgramInit == StartMain(EmptyMachine, <<>>)
=============================================================================
