--------------------------- MODULE StdoutHandler ---------------------------
(***************************************************************************)
(* The routine of posix-io.c that writes to the terminal what a program    *)
(* writes to the variable ssm_stdout, and how main of posix-main.c starts  *)
(* it beside the program and, when nothing is active, makes it end.        *)
(***************************************************************************)
EXTENDS Machine

\* It stays sensitized from one instant to the next.
StepStdoutHandler(m, a) ==
  LET out == Local(m, a).stdout
      c   == Unmarshal(Deref(m, out))
  IN CASE Pc(m, a) = 0            -> Sleeps(m, a, 1, {out})
       [] Pc(m, a) = 1 /\ c = 0  -> m
       [] Pc(m, a) = 1 /\ c # 0 -> Printed(m, c)
       [] Pc(m, a) = 2            -> Leave(Drop(Desensitize(m, a, {out}), out), a)

\* Before the first tick.  The second reference to stdin is the input thread's.
PlatformInit ==
  LET stdin  == Ref(Address(EmptyMachine))
      m1     == NewSv(EmptyMachine, Marshal(0))
      stdout == Ref(Address(m1))
      m2     == Dups(NewSv(m1, Marshal(0)), <<stdin, stdout>>)
      m3     == SetGlobal(m2, [stdin |-> stdin])
      depth  == RootDepth - 1
      m4     == Start(m3, Top, "stdout_handler", [stdout |-> stdout], 0, depth)
  IN Start(m4, Top, "main", [stdin |-> stdin, stdout |-> stdout], 2^depth, depth)
=============================================================================
