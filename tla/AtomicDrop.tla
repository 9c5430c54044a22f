----------------------------- MODULE AtomicDrop -----------------------------
(***************************************************************************)
(* ssm_drop and its callers as one step each, for programs of which only   *)
(* the states between calls are looked at.  One thread makes these calls,  *)
(* and nothing calls back into user code.                                  *)
(***************************************************************************)
EXTENDS Objects

RECURSIVE Drops(_, _)
Drops(m, vs) ==
  IF vs = <<>> THEN m
  ELSE LET v  == Head(vs)
           m1 == Release(m, v)
           m2 == Unschedule(m1, v)
       IN Drops(IF Dies(m, v) THEN Free(Drops(m2, Payload(m2, v)), v) ELSE m1, Tail(vs))

Drop(m, v) == Drops(m, <<v>>)

\* ssm_assign: duplicate the new value, drop the old, write.
Assign(m, var, val, time) ==
  LET m1 == Dup(m, val)
  IN WriteValue(Drop(m1, Deref(m1, var)), var, val, time)

\* ssm_later, for a time that is not past.
Later(m, var, when, val) ==
  LET m1 == Dup(m, val)
      m2 == Schedule(m1, var, when)
      m3 == IF Pending(m1, var) THEN Drop(m2, LaterValue(m2, var)) ELSE m2
  IN WriteLater(m3, var, val)

\* ssm_update.
Update(m, var, time) == WriteUpdate(Drop(m, Deref(m, var)), var, time)
=============================================================================
