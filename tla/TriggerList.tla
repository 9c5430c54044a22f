----------------------------- MODULE TriggerList -----------------------------
(***************************************************************************)
(* The list of triggers of a scheduled variable: doubly linked, in the     *)
(* triggers themselves, with a back pointer that is the address of the     *)
(* pointer to the trigger, be it the variable's or another trigger's.      *)
(* Triggers lie in activation records, which come and go.  A cell is a     *)
(* place that holds a pointer to a trigger, named by what it is part of.   *)
(***************************************************************************)
EXTENDS Integers

CONSTANTS
  Vars,      \* scheduled variables, whose cells are their "triggers"
  Triggers,  \* triggers, whose cells are their "next"
  Nil,       \* NULL
  priority,  \* of the routine of each trigger
  First      \* a priority before all routines, for what no routine writes

ASSUME TriggerAssumption ==
  /\ Vars \cap Triggers = {}
  /\ Nil \notin Vars \cup Triggers
  /\ priority \in [Triggers -> Int]
  /\ First \in Int /\ \A t \in Triggers : priority[t] > First

Cells == Vars \cup Triggers

VARIABLES
  next,       \* what each cell points to
  prev_ptr,   \* of each trigger, the cell that points to it
  on,         \* auxiliary: the variable each trigger is sensitized to, or Nil
  sv,         \* the variable whose list is being walked, or Nil
  prio,       \* the priority of who writes it
  trig,       \* how far the walk has come
  activated   \* auxiliary: what the walk has activated

listVars == <<next, prev_ptr, on>>
walkVars == <<sv, prio, trig, activated>>
vars     == <<listVars, walkVars>>

Init ==
  /\ next = [c \in Cells |-> Nil]
  /\ prev_ptr = [t \in Triggers |-> Nil]
  /\ on = [t \in Triggers |-> Nil]
  /\ sv = Nil /\ prio = First /\ trig = Nil /\ activated = {}

Walking == sv # Nil
Free(t) == on[t] = Nil

\* What is in the memory of a trigger that is in no list: anything, as the
\* record it was part of may have been freed and its memory used since.
Reused(t) ==
  /\ ~Walking /\ Free(t)
  /\ \E n \in Triggers \cup {Nil} : next' = [next EXCEPT ![t] = n]
  /\ \E p \in Cells \cup {Nil} : prev_ptr' = [prev_ptr EXCEPT ![t] = p]
  /\ UNCHANGED <<on, walkVars>>

-----------------------------------------------------------------------------
\* Mutant: the trigger that was first still has the variable before it.
FirstStays(v, t) == prev_ptr

\* The trigger that was first has the new one before it.
FirstMoves(v, t) == [u \in Triggers |-> IF u = next[v] THEN t ELSE prev_ptr[u]]

\* Mutant: a routine waits again without having desensitized.
MayWaitAgain(t) == TRUE

\* Routines desensitize a trigger before they sensitize it again.
MayWait(t) == Free(t)

\* ssm_sv_sensitize
Sensitize(v, t) ==
  /\ ~Walking /\ MayWait(t)
  /\ next' = [next EXCEPT ![t] = next[v], ![v] = t]
  /\ prev_ptr' = [FirstMoves(v, t) EXCEPT ![t] = v]
  /\ on' = [on EXCEPT ![t] = v]
  /\ UNCHANGED walkVars

\* What follows the trigger has before it what the trigger had.
SuccessorMoves(t) == [u \in Triggers |-> IF u = next[t] THEN prev_ptr[t] ELSE prev_ptr[u]]

\* ssm_sv_desensitize, of a trigger that is in a list; its own pointers stay
Desensitize(t) ==
  /\ ~Walking /\ ~Free(t)
  /\ next' = [next EXCEPT ![prev_ptr[t]] = next[t]]
  /\ prev_ptr' = SuccessorMoves(t)
  /\ on' = [on EXCEPT ![t] = Nil]
  /\ UNCHANGED walkVars

-----------------------------------------------------------------------------
(***************************************************************************)
(* The loop of ssm_sv_assign_unsafe and of ssm_update, over the list as it *)
(* is when the loop begins: ssm_activate changes none.                     *)
(***************************************************************************)
Walk(v, after) ==
  /\ ~Walking
  /\ sv' = v /\ prio' = after
  /\ trig' = next[v]
  /\ activated' = {}
  /\ UNCHANGED listVars

Assign(v) == \E t \in Triggers : Walk(v, priority[t])
Update(v) == Walk(v, First)

\* Mutant: the walk goes back instead of on.
Backwards(t) == IF prev_ptr[t] \in Triggers THEN prev_ptr[t] ELSE Nil

Onwards(t) == next[t]

Visit ==
  /\ Walking /\ trig # Nil
  /\ activated' = activated \cup {t \in {trig} : priority[t] > prio}
  /\ trig' = Onwards(trig)
  /\ UNCHANGED <<listVars, sv, prio>>

WalkEnds ==
  /\ Walking /\ trig = Nil
  /\ sv' = Nil /\ prio' = First /\ activated' = {}
  /\ UNCHANGED <<listVars, trig>>

-----------------------------------------------------------------------------
Next ==
  \/ \E t \in Triggers : Reused(t) \/ Desensitize(t) \/ \E v \in Vars : Sensitize(v, t)
  \/ \E v \in Vars : Assign(v) \/ Update(v)
  \/ Visit
  \/ WalkEnds

Spec == Init /\ [][Next]_vars

\* A loop that has begun is run.
FairSpec == Spec /\ WF_vars(Visit \/ WalkEnds)

-----------------------------------------------------------------------------
(***************************************************************************)
(* Properties                                                              *)
(***************************************************************************)
TypeOK ==
  /\ next \in [Cells -> Triggers \cup {Nil}]
  /\ prev_ptr \in [Triggers -> Cells \cup {Nil}]
  /\ on \in [Triggers -> Vars \cup {Nil}]
  /\ sv \in Vars \cup {Nil}
  /\ prio \in Int
  /\ trig \in Triggers \cup {Nil}
  /\ activated \subseteq Triggers

\* The variable in whose list a cell is, or Nil.
ListOf(c) == IF c \in Vars THEN c ELSE on[c]

\* The cells of a list and the back pointers of its triggers agree: a trigger in
\* a list is pointed to by exactly the cell it names, in the same list, and no
\* cell of a list points to a trigger that is in none or in another, whatever is
\* left in the memory of triggers that have been taken out.
BackPointersAgree ==
  /\ \A t \in Triggers : on[t] # Nil =>
       /\ prev_ptr[t] \in Cells
       /\ ListOf(prev_ptr[t]) = on[t]
       /\ next[prev_ptr[t]] = t
  /\ \A c \in Cells : ListOf(c) # Nil /\ next[c] # Nil =>
       /\ on[next[c]] = ListOf(c)
       /\ prev_ptr[next[c]] = c

\* A write activates only triggers of the variable that is written, of routines
\* after the writer, and its walk does not leave the variable's list.
OnlySensitiveActivated ==
  Walking =>
    /\ \A t \in activated : on[t] = sv /\ priority[t] > prio
    /\ trig # Nil => on[trig] = sv

\* The lists are the sets that the other modules take them for.
Sets == INSTANCE TriggerSet WITH
  sensitive <- [v \in Vars |-> {t \in Triggers : on[t] = v}],
  written <- sv,
  todo <- IF Walking THEN {t \in Triggers : on[t] = sv /\ priority[t] > prio} \ activated
          ELSE {}
ImplementsSets == Sets!Spec

\* Every walk comes to the end of its list.
WalksEnd == Walking ~> ~Walking
=============================================================================
