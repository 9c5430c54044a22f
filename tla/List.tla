-------------------------------- MODULE List --------------------------------
(***************************************************************************)
(* src/examples/simulation/list.c: a list of 1..n is printed, mapped and   *)
(* printed again, by routines that own their arguments and call themselves.*)
(***************************************************************************)
EXTENDS Machine

\* The tags: Nil is a number, Cons an object with two fields.
NilTag  == 0
ConsTag == 1

Brackets == -1  \* stands for "[]" in what is printed

\* ssm_tag.
Tag(m, v) == IF OnHeap(v) THEN m.obj[v.n].tag ELSE Unmarshal(v)

\* The tail of l in the place of l.
ToTail(m, l) == Drop(Dup(m, Field(m, l, 2)), l)

StepMapInc(m, a) ==
  LET l    == Local(m, a)
      tail == Field(m, l.l, 2)
      next == Marshal(Unmarshal(Field(m, l.l, 1)) + 1)
  IN CASE Pc(m, a) = 0 /\ Tag(m, l.l) = NilTag -> Leave(Store(m, l.ret, Marshal(NilTag)), a)
       [] Pc(m, a) = 0 /\ Tag(m, l.l) = ConsTag ->
            Return(Call(Set(ToTail(m, l.l), a, [tmp0 |-> next]), a, "map_inc",
                        [l |-> tail, ret |-> At(a, "tmp1")]),
                   a, 1)
       [] Pc(m, a) = 1 ->
            Leave(Store(NewAdt(m, ConsTag, <<l.tmp0, l.tmp1>>), l.ret, Ref(Address(m))), a)

StepPrintList(m, a) ==
  LET l    == Local(m, a).l
      tail == Field(m, l, 2)
      head == Unmarshal(Field(m, l, 1))
  IN CASE Pc(m, a) = 0 /\ Tag(m, l) = NilTag -> Leave(Printed(m, Brackets), a)
       [] Pc(m, a) = 0 /\ Tag(m, l) = ConsTag ->
            Return(Call(Printed(ToTail(m, l), head), a, "print_list",
                        [l |-> tail]),
                   a, 1)
       [] Pc(m, a) = 1 -> Leave(m, a)

StepMain(m, a) ==
  LET list == Local(m, a).list
      Shows(n, l) == Call(n, a, "print_list", [l |-> l])
  IN CASE Pc(m, a) = 0 -> Return(Shows(Dup(m, list), list), a, 1)
       [] Pc(m, a) = 1 ->
            Return(Call(m, a, "map_inc", [l |-> list, ret |-> At(a, "list_")]), a, 2)
       [] Pc(m, a) = 2 -> Return(Shows(m, Local(m, a).list_), a, 3)
       [] Pc(m, a) = 3 -> Leave(m, a)

Step(m, a) ==
  CASE m.act[a].step = "map_inc"    -> StepMapInc(m, a)
    [] m.act[a].step = "print_list" -> StepPrintList(m, a)
    [] m.act[a].step = "main"       -> StepMain(m, a)

\* The list of 1..n is made from its end.
GlobalList(n) ==
  LET Prepend(m, i) ==
        SetGlobal(NewAdt(m, ConsTag, <<Marshal(n + 1 - i), m.global.list>>),
                  [list |-> Ref(Address(m))])
  IN FoldLeftDomain(Prepend, SetGlobal(EmptyMachine, [list |-> Marshal(NilTag)]),
                    [i \in 1..n |-> i])

ProgramInit(n) ==
  LET m == GlobalList(n)
  IN StartMain(Dup(m, m.global.list), [list |-> m.global.list])

ProgramExit(m) == Drop(m, m.global.list)
=============================================================================
