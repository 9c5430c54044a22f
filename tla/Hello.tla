------------------------------- MODULE Hello -------------------------------
(***************************************************************************)
(* src/examples/simulation/hello.c: characters go through one scheduled    *)
(* variable from a routine that writes them to one that prints them, until *)
(* a null character.                                                       *)
(***************************************************************************)
EXTENDS Machine

CharDelay == 10

\* "Hello world!\r\n" and the null character.
Message == <<72, 101, 108, 108, 111, 32, 119, 111, 114, 108, 100, 33, 13, 10, 0>>

\* Case p waits for the character of print_yield(p, c), then comes the next.
StepHello(m, a) ==
  LET out == Local(m, a).stdout
      p   == Pc(m, a)
      m1  == IF p = 0 THEN m ELSE Desensitize(m, a, {out})
  IN IF p < Len(Message)
     THEN Sleeps(After(m1, CharDelay, out, Marshal(Message[p + 1])), a, p + 1, {out})
     ELSE Leave(Drop(m1, out), a)

StepPrint(m, a) ==
  LET out == Local(m, a).stdout
      c   == Unmarshal(Deref(m, out))
      m1  == Desensitize(m, a, {out})
  IN CASE Pc(m, a) = 0            -> Sleeps(m, a, 1, {out})
       [] Pc(m, a) = 1 /\ c # 0 -> Sleeps(Printed(m1, c), a, 1, {out})
       [] Pc(m, a) = 1 /\ c = 0  -> Leave(Drop(m1, out), a)

StepMain(m, a) ==
  LET out == Ref(Address(m))
  IN CASE Pc(m, a) = 0 ->
            Return(Fork(Dups(NewSv(m, Marshal(0)), <<out, out>>), a, 1,
                        <<<<"hello", [stdout |-> out]>>, <<"print", [stdout |-> out]>>>>),
                   a, 1)
       [] Pc(m, a) = 1 -> Leave(m, a)

Step(m, a) ==
  CASE m.act[a].step = "hello" -> StepHello(m, a)
    [] m.act[a].step = "print" -> StepPrint(m, a)
    [] m.act[a].step = "main"  -> StepMain(m, a)

ProgramInit == StartMain(EmptyMachine, <<>>)
=============================================================================
