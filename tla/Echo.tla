-------------------------------- MODULE Echo --------------------------------
(***************************************************************************)
(* src/examples/posix/echo.c: a character that comes in goes out, in upper *)
(* case, half a second later, and a line feed a millisecond after it.      *)
(* Characters that come in meanwhile are missed.                           *)
(***************************************************************************)
EXTENDS StdoutHandler

LineFeed == 10

\* Lower case letters are 97 to 122 and upper case ones begin at 65.
Upper(c) == IF c \in 97..122 THEN c - 32 ELSE c

\* Mutant: stdin is still listened to while a character is on its way out.
HearsOn(m, a, out) ==
  LET c == Unmarshal(Deref(m, Local(m, a).stdin))
  IN After(m, Second \div 2, out, Marshal(Upper(c)))

\* What has come in is to go out.
Answers(m, a, out) ==
  LET in == Local(m, a).stdin
      c  == Unmarshal(Deref(m, in))
  IN After(Desensitize(m, a, {in}), Second \div 2, out, Marshal(Upper(c)))

StepMain(m, a) ==
  LET in  == Local(m, a).stdin
      out == Local(m, a).stdout
  IN CASE Pc(m, a) = 0 -> Sleeps(m, a, 1, {in})
       [] Pc(m, a) = 1 -> Sleeps(Answers(m, a, out), a, 2, {out})
       [] Pc(m, a) = 2 -> Return(After(m, Second \div 1000, out, Marshal(LineFeed)), a, 3)
       [] Pc(m, a) = 3 -> Sleeps(Desensitize(m, a, {out}), a, 1, {in})

Step(m, a) ==
  CASE m.act[a].step = "stdout_handler" -> StepStdoutHandler(m, a)
    [] m.act[a].step = "main"           -> StepMain(m, a)

ProgramInit == PlatformInit

\* ssm_input_consume: an input's value becomes an event of stdin's, whatever is
\* pending for it.
Input(m, time, c) ==
  WriteLater(Schedule(m, m.global.stdin, time), m.global.stdin, Marshal(c))

\* After the main loop: the handler is made to end, and stdin is dropped.
ProgramExit(m) ==
  LET handler == CHOOSE a \in DOMAIN m.act : m.act[a].step = "stdout_handler"
  IN Drop(StepStdoutHandler(Return(m, handler, 2), handler), m.global.stdin)
=============================================================================
