------------------------------- MODULE Blink -------------------------------
(***************************************************************************)
(* src/examples/zephyr/blinky/src/blink1.c, C that a compiler of SSM       *)
(* programs made.  Every function is a closure that is never freed, and    *)
(* every call applies one and then sees whether it has a child to wait     *)
(* for: case pc, which follows, is also what it falls through to.          *)
(***************************************************************************)
EXTENDS Machine

Blinks == 10
Ms50   == 50

\* The closures' addresses: they are there before the program starts.
Static == [ms |-> Ref(1), blink |-> Ref(2), putc |-> Ref(3), display |-> Ref(4)]

\* x > 0, for numbers of WordBits - 1 bits.
IsPositive(x) == x \in 1..2^(WordBits - 2) - 1

\* A closure is applied, and its result goes to a local.
Called(m, a, c, arg, place) == ClosureApply(m, a, c, arg, At(a, place))

\* Wait at pc for the child that was called, or go on as next has it.
Waits(m, a, pc, next) == IF HasChildren(m, a) THEN Return(m, a, pc) ELSE next

StepMs(m, a) ==
  LET l == Local(m, a)
  IN Leave(Store(m, l.ret, Marshal(1000000 * Unmarshal(l.argv[1]))), a)

\* The led is set after what ms 50 gave.
SetLed(m, a, delay, level, pc) ==
  LET led == Local(m, a).argv[2]
  IN Sleeps(After(m, Unmarshal(Local(m, a)[delay]), led, Marshal(level)), a, pc, {led})

\* printk of the led, once it has been set.
Blinked(m, a) ==
  LET led == Local(m, a).argv[2]
  IN Printed(Desensitize(m, a, {led}), Unmarshal(Deref(m, led)))

Loop(m, a) ==
  LET m1 == Called(m, a, Static.ms, Marshal(Ms50), "tmp7")
  IN IF IsPositive(Unmarshal(Deref(m, Local(m, a).n_)))
     THEN Waits(m1, a, 1, SetLed(m1, a, "tmp7", 1, 2))
     ELSE Leave(Store(m, Local(m, a).ret, Marshal(0)), a)

StepBlink(m, a) ==
  LET l     == Local(m, a)
      count == Marshal(Unmarshal(Deref(m, l.n_)) - 1)
      m1    == Called(Blinked(m, a), a, Static.ms, Marshal(Ms50), "tmp9")
  IN CASE Pc(m, a) = 0 -> Loop(Set(NewSv(m, l.argv[1]), a, [n_ |-> Ref(Address(m))]), a)
       [] Pc(m, a) = 1 -> SetLed(m, a, "tmp7", 1, 2)
       [] Pc(m, a) = 2 -> Waits(m1, a, 3, SetLed(m1, a, "tmp9", 0, 4))
       [] Pc(m, a) = 3 -> SetLed(m, a, "tmp9", 0, 4)
       [] Pc(m, a) = 4 -> Loop(Writes(Blinked(m, a), a, l.n_, count), a)

StepPutc(m, a) ==
  LET l    == Local(m, a)
      cout == l.argv[1]
  IN CASE Pc(m, a) = 0 -> Sleeps(After(m, 1, cout, l.argv[2]), a, 1, {cout})
       [] Pc(m, a) = 1 -> Leave(Store(Desensitize(m, a, {cout}), l.ret, Marshal(0)), a)

StepDisplay(m, a) ==
  LET putc   == Local(m, a).argv[1]
      led    == Local(m, a).argv[2]
      digit  == Marshal(Unmarshal(Deref(m, led)) + 48)
      Listen(n)  == Sleeps(n, a, 1, {led})
      NewLine(n) ==
        LET n1 == Called(n, a, putc, Marshal(10), "tmp2") IN Waits(n1, a, 3, Listen(n1))
      m1 == Called(Desensitize(m, a, {led}), a, putc, digit, "tmp1")
  IN CASE Pc(m, a) = 0 -> Listen(m)
       [] Pc(m, a) = 1 -> Waits(m1, a, 2, NewLine(m1))
       [] Pc(m, a) = 2 -> NewLine(m)
       [] Pc(m, a) = 3 -> Listen(m)

\* The two routines run side by side with half of main's priorities each.
Par(m, a) ==
  LET l     == Local(m, a)
      depth == Depth(m, a) - 1
      m1    == ApplyAt(m, a, l.tmp3, l.led, At(a, "tmp4"), Priority(m, a), depth)
  IN Return(ApplyAt(m1, a, l.display, l.led, At(a, "tmp5"), Priority(m, a) + 2^depth, depth),
            a, 4)

\* From case 2 on; SSM_THROW ends the program, as a fault does.
MakesLed(m, a) ==
  LET m1 == Set(NewSv(m, Marshal(0)), a,
                [display |-> Local(m, a).tmp1, led |-> Ref(Address(m))])
      m2 == Called(m1, a, Static.blink, Marshal(Blinks), "tmp3")
  IN IF Depth(m, a) < 1 THEN Fault(m1) ELSE Waits(m2, a, 3, Par(m2, a))

\* From case 1 on.
MakesDisplay(m, a) ==
  LET m1 == Set(m, a, [putc |-> Local(m, a).tmp0])
      m2 == Called(m1, a, Static.display, Local(m, a).tmp0, "tmp1")
  IN Waits(m2, a, 2, MakesLed(m2, a))

StepMain(m, a) ==
  LET m1 == Called(m, a, Static.putc, Local(m, a).argv[2], "tmp0")
  IN CASE Pc(m, a) = 0 -> Waits(m1, a, 1, MakesDisplay(m1, a))
       [] Pc(m, a) = 1 -> MakesDisplay(m, a)
       [] Pc(m, a) = 2 -> MakesLed(m, a)
       [] Pc(m, a) = 3 -> Par(m, a)
       [] Pc(m, a) = 4 -> Leave(Store(m, Local(m, a).ret, Marshal(0)), a)

Step(m, a) ==
  CASE m.act[a].step = "ms"      -> StepMs(m, a)
    [] m.act[a].step = "blink"   -> StepBlink(m, a)
    [] m.act[a].step = "putc"    -> StepPutc(m, a)
    [] m.act[a].step = "display" -> StepDisplay(m, a)
    [] m.act[a].step = "main"    -> StepMain(m, a)

\* The closures, and setup_entry_point of zephyr-tick.c.
ProgramInit ==
  LET Closure(m, f, cap) == NewClosure(m, f, cap)
      m1 == Closure(Closure(EmptyMachine, "ms", 1), "blink", 2)
      m2 == Closure(Closure(m1, "putc", 2), "display", 2)
      nothing0 == Ref(Address(m2))
      m3 == NewSv(m2, Marshal(0))
      nothing1 == Ref(Address(m3))
  IN StartMain(NewSv(m3, Marshal(0)), [argv |-> <<nothing0, nothing1>>, ret |-> Nowhere])
=============================================================================
