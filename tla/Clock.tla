------------------------------- MODULE Clock -------------------------------
(***************************************************************************)
(* src/examples/simulation/clock.c: one routine makes an event every       *)
(* second, another counts them.                                            *)
(***************************************************************************)
EXTENDS Machine

EventValue == Marshal(0)

StepSecondClock(m, a) ==
  LET new  == Ref(Address(m))
      Loop(n, timer) ==
        Sleeps(After(Writes(n, a, Local(n, a).second_event, EventValue),
                     Second, timer, EventValue),
               a, 1, {timer})
  IN CASE Pc(m, a) = 0 -> Loop(Set(NewSv(m, EventValue), a, [timer |-> new]), new)
       [] Pc(m, a) = 1 ->
            Loop(Desensitize(m, a, {Local(m, a).timer}), Local(m, a).timer)

StepReportSeconds(m, a) ==
  LET event   == {Local(m, a).second_event}
      seconds == Local(m, a).seconds
      n       == Unmarshal(Deref(m, seconds)) + 1
      m1      == Writes(Desensitize(m, a, event), a, seconds, Marshal(n))
  IN CASE Pc(m, a) = 0 ->
            Sleeps(Set(NewSv(m, Marshal(0)), a, [seconds |-> Ref(Address(m))]), a, 1, event)
       [] Pc(m, a) = 1 -> Sleeps(Printed(m1, n), a, 1, event)

StepMain(m, a) ==
  LET second == Ref(Address(m))
  IN CASE Pc(m, a) = 0 ->
            Return(Fork(Dup(NewSv(m, EventValue), second), a, 1,
                        <<<<"second_clock",   [second_event |-> second]>>,
                          <<"report_seconds", [second_event |-> second]>>>>),
                   a, 1)
       [] Pc(m, a) = 1 -> Leave(m, a)

Step(m, a) ==
  CASE m.act[a].step = "second_clock"   -> StepSecondClock(m, a)
    [] m.act[a].step = "report_seconds" -> StepReportSeconds(m, a)
    [] m.act[a].step = "main"           -> StepMain(m, a)

ProgramInit == StartMain(EmptyMachine, <<>>)
=============================================================================
