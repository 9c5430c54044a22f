----------------------------- MODULE MapClosure -----------------------------
(***************************************************************************)
(* src/examples/simulation/map-closure.c: as List, with the function that  *)
(* is mapped given by a closure, which the calls share.                    *)
(***************************************************************************)
EXTENDS Machine

NilTag  == 0
ConsTag == 1

Brackets == -1  \* stands for "[]" in what is printed

Tag(m, v) == IF OnHeap(v) THEN m.obj[v.n].tag ELSE Unmarshal(v)

StepIncOffset(m, a) ==
  LET l == Local(m, a)
  IN Leave(Store(m, l.ret, Marshal(Unmarshal(l.argv[2]) + Unmarshal(l.argv[1]))), a)

\* Case 1 is reached through the call below or falls through from it.
MapTail(m, a) ==
  LET l == Local(m, a)
  IN Return(Call(Dups(m, <<l.l_, l.inc>>), a, "map",
                 [l |-> l.l_, inc |-> l.inc, ret |-> At(a, "tmp1")]),
            a, 2)

StepMap(m, a) ==
  LET l    == Local(m, a)
      head == Field(m, l.l, 1)
      tail == Field(m, l.l, 2)
      m1   == ClosureApplyAuto(Dups(Set(m, a, [i_ |-> head, l_ |-> tail]), <<head, tail>>),
                               a, l.inc, head, At(a, "tmp0"))
      End(n) == Leave(Drops(n, <<l.inc, l.l>>), a)
      Built  == Drops(m, <<l.i_, l.l_>>)
  IN CASE Pc(m, a) = 0 /\ Tag(m, l.l) = NilTag -> End(Store(m, l.ret, Marshal(NilTag)))
       [] Pc(m, a) = 0 /\ Tag(m, l.l) = ConsTag ->
            IF HasChildren(m1, a) THEN Return(m1, a, 1) ELSE MapTail(m1, a)
       [] Pc(m, a) = 1 -> MapTail(m, a)
       [] Pc(m, a) = 2 ->
            End(Store(NewAdt(Built, ConsTag, <<l.tmp0, l.tmp1>>), l.ret, Ref(Address(Built))))

StepPrintList(m, a) ==
  LET l    == Local(m, a).l
      tail == Field(m, l, 2)
      head == Unmarshal(Field(m, l, 1))
      ret  == Local(m, a).ret
  IN CASE Pc(m, a) = 0 /\ Tag(m, l) = NilTag -> Leave(Printed(m, Brackets), a)
       [] Pc(m, a) = 0 /\ Tag(m, l) = ConsTag ->
            Return(Call(Printed(Drop(Dup(m, tail), l), head), a, "print_list",
                        [l |-> tail, ret |-> Nowhere]),
                   a, 1)
       [] Pc(m, a) = 1 -> Leave(Store(m, ret, Marshal(0)), a)

\* The offset that is added, pushed on a closure that nobody else has yet.
Offset == 69

StepMain(m, a) ==
  LET list == Local(m, a).list
      inc  == Ref(Address(m))
      Shows(n, l) == Call(n, a, "print_list", [l |-> l, ret |-> Nowhere])
  IN CASE Pc(m, a) = 0 -> Return(Shows(Dup(m, list), list), a, 1)
       [] Pc(m, a) = 1 ->
            Return(Call(Push(NewClosure(m, "inc_offset", 2), inc, Marshal(Offset)), a, "map",
                        [l |-> list, inc |-> inc, ret |-> At(a, "list_")]),
                   a, 2)
       [] Pc(m, a) = 2 -> Return(Shows(m, Local(m, a).list_), a, 3)
       [] Pc(m, a) = 3 -> Leave(Store(m, Local(m, a).ret, Marshal(0)), a)

Step(m, a) ==
  CASE m.act[a].step = "inc_offset" -> StepIncOffset(m, a)
    [] m.act[a].step = "map"        -> StepMap(m, a)
    [] m.act[a].step = "print_list" -> StepPrintList(m, a)
    [] m.act[a].step = "main"       -> StepMain(m, a)

GlobalList(n) ==
  LET Prepend(m, i) ==
        SetGlobal(NewAdt(m, ConsTag, <<Marshal(n + 1 - i), m.global.list>>),
                  [list |-> Ref(Address(m))])
  IN FoldLeftDomain(Prepend, SetGlobal(EmptyMachine, [list |-> Marshal(NilTag)]),
                    [i \in 1..n |-> i])

ProgramInit(n) ==
  LET m == GlobalList(n)
  IN StartMain(Dup(m, m.global.list), [list |-> m.global.list, ret |-> Nowhere])

ProgramExit(m) == Drop(m, m.global.list)
=============================================================================
