------------------------------ MODULE TriggerSet ------------------------------
(***************************************************************************)
(* What the trigger lists promise: for every variable the set of triggers  *)
(* that are sensitized to it, and an assignment that activates each of     *)
(* them whose routine comes after the writer, once, and no other.          *)
(***************************************************************************)
EXTENDS Integers

CONSTANTS Vars, Triggers, Nil, priority, First

VARIABLES
  sensitive,  \* of each variable, the triggers sensitized to it
  written,    \* the variable whose triggers are being activated, or Nil
  todo        \* those still to be activated

vars == <<sensitive, written, todo>>

Init ==
  /\ sensitive = [v \in Vars |-> {}]
  /\ written = Nil
  /\ todo = {}

Sensitize(v, t) ==
  /\ written = Nil
  /\ \A u \in Vars : t \notin sensitive[u]
  /\ sensitive' = [sensitive EXCEPT ![v] = @ \cup {t}]
  /\ UNCHANGED <<written, todo>>

Desensitize(t) ==
  /\ written = Nil
  /\ \E v \in Vars : t \in sensitive[v]
  /\ sensitive' = [v \in Vars |-> sensitive[v] \ {t}]
  /\ UNCHANGED <<written, todo>>

Write(v, after) ==
  /\ written = Nil
  /\ written' = v
  /\ todo' = {t \in sensitive[v] : priority[t] > after}
  /\ UNCHANGED sensitive

Activate(t) ==
  /\ t \in todo
  /\ todo' = todo \ {t}
  /\ UNCHANGED <<sensitive, written>>

Written ==
  /\ written # Nil /\ todo = {}
  /\ written' = Nil
  /\ UNCHANGED <<sensitive, todo>>

Next ==
  \/ \E t \in Triggers : Desensitize(t) \/ Activate(t) \/ \E v \in Vars : Sensitize(v, t)
  \/ \E v \in Vars : Write(v, First) \/ \E t \in Triggers : Write(v, priority[t])
  \/ Written

Spec == Init /\ [][Next]_vars
=============================================================================
