-------------------------- MODULE TriggerListProofs --------------------------
(***************************************************************************)
(* The safety of TriggerList, and that it implements TriggerSet, for any   *)
(* variables, triggers and priorities.                                     *)
(***************************************************************************)
EXTENDS TriggerList, WellFoundedInduction, TLAPS

\* Lists have no cycles: some ranking of the triggers grows along each.
Ranks(rank) ==
  \A t \in Triggers : on[t] # Nil /\ prev_ptr[t] \in Triggers => rank[prev_ptr[t]] < rank[t]

Acyclic == \E rank \in [Triggers -> Nat] : Ranks(rank)

\* The triggers that a walk has seen are the first ones of the list: what it has
\* not seen is where it stands or comes after something it has not seen.
SeenFirst(seen) ==
  /\ \A t \in seen : on[t] = sv /\ (priority[t] > prio => t \in activated)
  /\ \A t \in Triggers : on[t] = sv /\ t \notin seen =>
       t = trig \/ (prev_ptr[t] \in Triggers /\ prev_ptr[t] \notin seen)

WalkOrdered == Walking => \E seen \in SUBSET Triggers : SeenFirst(seen)

IInv ==
  /\ TypeOK
  /\ BackPointersAgree
  /\ OnlySensitiveActivated
  /\ Acyclic
  /\ WalkOrdered

-----------------------------------------------------------------------------
\* A set of numbers that is not empty has a least element.
LEMMA LeastNat ==
  ASSUME NEW T \in SUBSET Nat, T # {}
  PROVE  \E x \in T : \A y \in T : x <= y
<1> DEFINE R == OpToRel(<, Nat)
<1>1. IsWellFoundedOn(R, Nat)
  BY NatLessThanWellFounded
<1>2. \E x \in T : \A y \in T : ~ (<<y, x>> \in R)
  <2> HIDE DEF R
  <2> QED BY <1>1, WFMin
<1>3. \A x, y \in T : y < x => <<y, x>> \in R
  BY DEF OpToRel
<1>4. PICK x \in T : \A y \in T : ~ (<<y, x>> \in R)
  BY <1>2
<1>5. \A y \in T : ~ (y < x)
  <2> HIDE DEF R
  <2> QED BY <1>3, <1>4
<1> QED BY <1>5

\* What a walk has not activated at its end is not to be activated: of what it
\* has not seen the first would have to come after something else.
LEMMA WalkIsComplete ==
  ASSUME IInv, Walking, trig = Nil
  PROVE  \A t \in Triggers : on[t] = sv /\ priority[t] > prio => t \in activated
<1>1. PICK seen \in SUBSET Triggers : SeenFirst(seen)
  BY DEF IInv, WalkOrdered
<1>2. PICK rank \in [Triggers -> Nat] : Ranks(rank)
  BY DEF IInv, Acyclic
<1> DEFINE Unseen == {t \in Triggers : on[t] = sv /\ t \notin seen}
<1>3. Unseen = {}
  <2> SUFFICES ASSUME Unseen # {} PROVE FALSE
    OBVIOUS
  <2> DEFINE T == {rank[t] : t \in Unseen}
  <2>1. T \in SUBSET Nat /\ T # {}
    OBVIOUS
  <2>2. PICK x \in T : \A y \in T : x <= y
    <3> HIDE DEF T
    <3> QED BY <2>1, LeastNat
  <2>3. PICK t \in Unseen : x = rank[t]
    OBVIOUS
  <2>4. /\ on[t] # Nil
        /\ prev_ptr[t] \in Triggers /\ prev_ptr[t] \notin seen
    BY <1>1, TriggerAssumption DEF SeenFirst, Walking, IInv, TypeOK
  <2>5. on[prev_ptr[t]] = sv
    BY <2>4, TriggerAssumption DEF IInv, BackPointersAgree, ListOf
  <2>6. rank[prev_ptr[t]] < rank[t]
    BY <1>2, <2>4 DEF Ranks
  <2>7. rank[prev_ptr[t]] \in T
    BY <2>4, <2>5
  <2> QED BY <2>2, <2>3, <2>6, <2>7, <2>1
<1> QED BY <1>1, <1>3 DEF SeenFirst

-----------------------------------------------------------------------------
LEMMA InitSound == Init => IInv
<1> SUFFICES ASSUME Init PROVE IInv
  OBVIOUS
<1> USE TriggerAssumption DEF Init
<1>1. TypeOK
  BY DEF TypeOK, Cells
<1>2. BackPointersAgree
  BY DEF BackPointersAgree, Cells, ListOf
<1>3. OnlySensitiveActivated /\ WalkOrdered
  BY DEF OnlySensitiveActivated, WalkOrdered, Walking
<1>4. Acyclic
  <2> DEFINE rank == [t \in Triggers |-> 0]
  <2>1. rank \in [Triggers -> Nat] /\ Ranks(rank)
    BY DEF Ranks
  <2> QED BY <2>1 DEF Acyclic
<1> QED BY <1>1, <1>2, <1>3, <1>4 DEF IInv

\* The memory of a trigger in no list is nobody's concern.
LEMMA ReusedKeeps ==
  ASSUME IInv, NEW t \in Triggers, Reused(t)
  PROVE  IInv'
<1> USE TriggerAssumption
<1>1. /\ \A c \in Cells \ {t} : next'[c] = next[c]
      /\ \A u \in Triggers \ {t} : prev_ptr'[u] = prev_ptr[u]
      /\ on[t] = Nil
  BY DEF Reused, Free, IInv, TypeOK
<1>2. TypeOK'
  BY DEF Reused, walkVars, IInv, TypeOK, Cells
<1>3. BackPointersAgree'
  BY <1>1 DEF Reused, IInv, TypeOK, BackPointersAgree, ListOf, Cells
<1>4. OnlySensitiveActivated' /\ WalkOrdered'
  BY DEF Reused, walkVars, Walking, OnlySensitiveActivated, WalkOrdered
<1>5. Acyclic'
  BY <1>1 DEF Reused, IInv, Acyclic, Ranks
<1> QED BY <1>2, <1>3, <1>4, <1>5 DEF IInv

LEMMA SensitizeKeeps ==
  ASSUME IInv, NEW v \in Vars, NEW t \in Triggers, Sensitize(v, t)
  PROVE  IInv'
<1> USE TriggerAssumption
<1>1. /\ v # t /\ v \in Cells /\ t \in Cells
      /\ next'[t] = next[v] /\ next'[v] = t
      /\ \A c \in Cells \ {v, t} : next'[c] = next[c]
      /\ prev_ptr'[t] = v
      /\ \A u \in Triggers \ {t} : prev_ptr'[u] = IF u = next[v] THEN t ELSE prev_ptr[u]
      /\ on[t] = Nil /\ on'[t] = v
      /\ \A u \in Triggers \ {t} : on'[u] = on[u]
  BY DEF Sensitize, FirstMoves, MayWait, Free, IInv, TypeOK, Cells
<1>2. next[v] # t
  BY <1>1 DEF IInv, BackPointersAgree, ListOf
<1>3. TypeOK'
  BY <1>1 DEF Sensitize, FirstMoves, walkVars, IInv, TypeOK, Cells
<1>4. BackPointersAgree'
  <2>1. ASSUME NEW u \in Triggers, on'[u] # Nil
        PROVE  /\ prev_ptr'[u] \in Cells
               /\ ListOf(prev_ptr[u])' = on'[u]
               /\ next'[prev_ptr'[u]] = u
    BY <1>1, <1>2, <2>1 DEF IInv, TypeOK, BackPointersAgree, ListOf, Cells
  <2>2. ASSUME NEW c \in Cells, ListOf(c)' # Nil, next'[c] # Nil
        PROVE  /\ on'[next'[c]] = ListOf(c)'
               /\ prev_ptr'[next'[c]] = c
    BY <1>1, <1>2, <2>2 DEF IInv, TypeOK, BackPointersAgree, ListOf, Cells
  <2> QED BY <2>1, <2>2 DEF BackPointersAgree
<1>5. OnlySensitiveActivated' /\ WalkOrdered'
  BY DEF Sensitize, walkVars, Walking, OnlySensitiveActivated, WalkOrdered
<1>6. Acyclic'
  <2>1. PICK rank \in [Triggers -> Nat] : Ranks(rank)
    BY DEF IInv, Acyclic
  <2> DEFINE rank2 == [u \in Triggers |-> IF u = t THEN 0 ELSE rank[u] + 1]
  <2>2. rank2 \in [Triggers -> Nat]
    OBVIOUS
  <2>3. ASSUME NEW u \in Triggers, on'[u] # Nil, prev_ptr'[u] \in Triggers
        PROVE  rank2[prev_ptr'[u]] < rank2[u]
    <3>1. u # t
      BY <1>1, <2>3
    <3>2. CASE u = next[v]
      BY <1>1, <1>2, <3>2, <3>1
    <3>3. CASE u # next[v]
      <4>1. prev_ptr'[u] = prev_ptr[u] /\ on[u] # Nil
        BY <1>1, <3>1, <3>3, <2>3
      <4>2. prev_ptr[u] # t
        BY <1>1, <4>1 DEF IInv, BackPointersAgree, ListOf
      <4> QED BY <2>1, <2>3, <3>1, <4>1, <4>2 DEF Ranks
    <3> QED BY <3>2, <3>3
  <2>4. Ranks(rank2)'
    BY <2>3 DEF Ranks
  <2> HIDE DEF rank2
  <2> QED BY <2>2, <2>4 DEF Acyclic
<1> QED BY <1>3, <1>4, <1>5, <1>6 DEF IInv

LEMMA DesensitizeKeeps ==
  ASSUME IInv, NEW t \in Triggers, Desensitize(t)
  PROVE  IInv'
<1> USE TriggerAssumption
<1> DEFINE p == prev_ptr[t]
<1>1. /\ on[t] \in Vars /\ p \in Cells /\ next[p] = t /\ ListOf(p) = on[t]
      /\ next[t] \in Triggers \cup {Nil}
  BY DEF Desensitize, Free, IInv, TypeOK, BackPointersAgree, Cells
<1>2. next[t] # Nil => on[next[t]] = on[t] /\ prev_ptr[next[t]] = t
  BY <1>1 DEF IInv, BackPointersAgree, ListOf, Cells
<1>3. p # t /\ next[t] # t
  <2>1. PICK rank \in [Triggers -> Nat] : Ranks(rank)
    BY DEF IInv, Acyclic
  <2>2. p = t => rank[t] < rank[t]
    BY <1>1, <2>1 DEF Ranks
  <2> QED BY <1>2, <2>2
<1>4. /\ next'[p] = next[t]
      /\ \A c \in Cells \ {p} : next'[c] = next[c]
      /\ \A u \in Triggers : prev_ptr'[u] = IF u = next[t] THEN p ELSE prev_ptr[u]
      /\ on'[t] = Nil
      /\ \A u \in Triggers \ {t} : on'[u] = on[u]
  BY <1>1 DEF Desensitize, SuccessorMoves, IInv, TypeOK
<1>5. TypeOK'
  BY <1>1, <1>4 DEF Desensitize, SuccessorMoves, walkVars, IInv, TypeOK, Cells
<1>6. BackPointersAgree'
  <2>1. ASSUME NEW u \in Triggers, on'[u] # Nil
        PROVE  /\ prev_ptr'[u] \in Cells
               /\ ListOf(prev_ptr[u])' = on'[u]
               /\ next'[prev_ptr'[u]] = u
    <3>1. u # t /\ on[u] = on'[u] /\ on[u] # Nil
      BY <1>4, <2>1
    <3>2. CASE u = next[t]
      BY <1>1, <1>2, <1>3, <1>4, <3>1, <3>2 DEF ListOf, Cells
    <3>3. CASE u # next[t]
      <4>1. /\ prev_ptr[u] \in Cells /\ ListOf(prev_ptr[u]) = on[u]
            /\ next[prev_ptr[u]] = u /\ prev_ptr'[u] = prev_ptr[u]
        BY <1>4, <3>1, <3>3 DEF IInv, BackPointersAgree
      <4>2. prev_ptr[u] # p /\ prev_ptr[u] # t
        BY <1>1, <3>1, <3>3, <4>1
      <4> QED BY <1>4, <3>1, <4>1, <4>2 DEF ListOf, Cells
    <3> QED BY <3>2, <3>3
  <2>2. ASSUME NEW c \in Cells, ListOf(c)' # Nil, next'[c] # Nil
        PROVE  /\ on'[next'[c]] = ListOf(c)'
               /\ prev_ptr'[next'[c]] = c
    <3>1. c # t /\ ListOf(c)' = ListOf(c) /\ ListOf(c) # Nil
      BY <1>4, <2>2 DEF ListOf, Cells
    <3>2. CASE c = p
      BY <1>1, <1>2, <1>3, <1>4, <2>2, <3>1, <3>2 DEF Cells
    <3>3. CASE c # p
      <4>1. /\ next'[c] = next[c] /\ next[c] # Nil /\ next[c] \in Triggers
            /\ on[next[c]] = ListOf(c) /\ prev_ptr[next[c]] = c
        BY <1>4, <2>2, <3>1, <3>3 DEF IInv, TypeOK, BackPointersAgree
      <4>2. next[c] # t /\ next[c] # next[t]
        BY <1>2, <3>1, <3>3, <4>1
      <4> QED BY <1>4, <3>1, <4>1, <4>2
    <3> QED BY <3>2, <3>3
  <2> QED BY <2>1, <2>2 DEF BackPointersAgree
<1>7. OnlySensitiveActivated' /\ WalkOrdered'
  BY DEF Desensitize, walkVars, Walking, OnlySensitiveActivated, WalkOrdered
<1>8. Acyclic'
  <2>1. PICK rank \in [Triggers -> Nat] : Ranks(rank)
    BY DEF IInv, Acyclic
  <2>2. ASSUME NEW u \in Triggers, on'[u] # Nil, prev_ptr'[u] \in Triggers
        PROVE  rank[prev_ptr'[u]] < rank[u]
    <3>1. u # t /\ on[u] # Nil
      BY <1>4, <2>2
    <3>2. CASE u = next[t]
      <4>1. rank[p] < rank[t]
        BY <1>1, <1>4, <2>1, <2>2, <3>2 DEF Ranks
      <4>2. rank[t] < rank[u]
        BY <1>1, <1>2, <2>1, <3>1, <3>2 DEF Ranks
      <4>3. prev_ptr'[u] = p /\ rank[p] \in Nat /\ rank[t] \in Nat /\ rank[u] \in Nat
        BY <1>4, <2>2, <3>2
      <4> QED BY <4>1, <4>2, <4>3
    <3>3. CASE u # next[t]
      BY <1>4, <2>1, <2>2, <3>1, <3>3 DEF Ranks
    <3> QED BY <3>2, <3>3
  <2>3. Ranks(rank)'
    BY <2>2 DEF Ranks
  <2> QED BY <2>3 DEF Acyclic
<1> QED BY <1>5, <1>6, <1>7, <1>8 DEF IInv

-----------------------------------------------------------------------------
\* The lists are as they were.
LEMMA ListsKept ==
  ASSUME IInv, UNCHANGED listVars
  PROVE  BackPointersAgree' /\ Acyclic'
BY DEF listVars, IInv, BackPointersAgree, ListOf, Acyclic, Ranks

LEMMA WalkKeeps ==
  ASSUME IInv, NEW v \in Vars, NEW after \in Int, Walk(v, after)
  PROVE  IInv'
<1> USE TriggerAssumption
<1>1. TypeOK'
  BY DEF Walk, listVars, IInv, TypeOK, Cells
<1>2. OnlySensitiveActivated'
  BY DEF Walk, listVars, IInv, TypeOK, BackPointersAgree, ListOf, Cells,
         OnlySensitiveActivated
<1>3. WalkOrdered'
  <2>1. ASSUME NEW t \in Triggers, on[t] = v
        PROVE  t = next[v] \/ prev_ptr[t] \in Triggers
    BY <2>1 DEF IInv, BackPointersAgree, ListOf, Cells
  <2>2. SeenFirst({})'
    BY <2>1 DEF Walk, listVars, SeenFirst
  <2> QED BY <2>2 DEF WalkOrdered
<1> QED BY <1>1, <1>2, <1>3, ListsKept DEF IInv, Walk

LEMMA VisitKeeps ==
  ASSUME IInv, Visit
  PROVE  IInv'
<1> USE TriggerAssumption
<1>1. /\ trig \in Triggers /\ on[trig] = sv /\ sv \in Vars
      /\ trig' = next[trig] /\ trig \in Cells /\ trig # sv
  BY DEF Visit, Onwards, Walking, IInv, TypeOK, OnlySensitiveActivated, Cells
<1>2. TypeOK'
  BY <1>1 DEF Visit, listVars, IInv, TypeOK
<1>3. OnlySensitiveActivated'
  <2>1. trig' # Nil => on[trig'] = sv
    BY <1>1 DEF IInv, BackPointersAgree, ListOf, Walking
  <2> QED BY <1>1, <2>1 DEF Visit, listVars, IInv, OnlySensitiveActivated, Walking
<1>4. WalkOrdered'
  <2>1. PICK seen \in SUBSET Triggers : SeenFirst(seen)
    BY DEF Visit, IInv, WalkOrdered
  <2>2. PICK seen2 \in SUBSET Triggers : seen2 = seen \cup {trig}
    BY <1>1
  <2>3. ASSUME NEW t \in Triggers, on[t] = sv, t \notin seen2
        PROVE  t = next[trig] \/ (prev_ptr[t] \in Triggers /\ prev_ptr[t] \notin seen2)
    <3>1. prev_ptr[t] \in Triggers /\ prev_ptr[t] \notin seen
      BY <2>1, <2>3, <2>2 DEF SeenFirst
    <3>2. next[prev_ptr[t]] = t
      BY <1>1, <2>3 DEF IInv, BackPointersAgree
    <3> QED BY <2>2, <3>1, <3>2
  <2>4. \A t \in seen2 : on[t] = sv /\ (priority[t] > prio => t \in activated')
    BY <1>1, <2>1, <2>2 DEF SeenFirst, Visit
  <2>5. SeenFirst(seen2)'
    BY <1>1, <2>3, <2>4 DEF Visit, listVars, SeenFirst
  <2> QED BY <2>5 DEF WalkOrdered
<1> QED BY <1>2, <1>3, <1>4, ListsKept DEF IInv, Visit

LEMMA WalkEndsKeeps ==
  ASSUME IInv, WalkEnds
  PROVE  IInv'
<1> USE TriggerAssumption
<1>1. TypeOK' /\ OnlySensitiveActivated' /\ WalkOrdered'
  BY DEF WalkEnds, listVars, IInv, TypeOK, OnlySensitiveActivated, WalkOrdered, Walking
<1> QED BY <1>1, ListsKept DEF IInv, WalkEnds

LEMMA StepKeeps == IInv /\ [Next]_vars => IInv'
<1> SUFFICES ASSUME IInv, [Next]_vars PROVE IInv'
  OBVIOUS
<1>1. CASE \E t \in Triggers : Reused(t) \/ Desensitize(t) \/ \E v \in Vars : Sensitize(v, t)
  BY <1>1, ReusedKeeps, DesensitizeKeeps, SensitizeKeeps
<1>2. CASE \E v \in Vars : Assign(v) \/ Update(v)
  <2>1. First \in Int /\ \A t \in Triggers : priority[t] \in Int
    BY TriggerAssumption
  <2> QED BY <1>2, <2>1, WalkKeeps DEF Assign, Update
<1>3. CASE Visit \/ WalkEnds
  BY <1>3, VisitKeeps, WalkEndsKeeps
<1>4. CASE UNCHANGED vars
  BY <1>4 DEF vars, listVars, walkVars, IInv, TypeOK, BackPointersAgree, ListOf,
         OnlySensitiveActivated, Walking, Acyclic, Ranks, WalkOrdered, SeenFirst
<1> QED BY <1>1, <1>2, <1>3, <1>4 DEF Next

THEOREM Invariance == Spec => []IInv
<1> QED BY InitSound, StepKeeps, PTL DEF Spec

\* Type correctness.
THEOREM TypeCorrect == Spec => []TypeOK
<1>1. IInv => TypeOK
  BY DEF IInv
<1> QED BY <1>1, Invariance, PTL

\* ssm_sv_sensitize and ssm_sv_desensitize keep the pointers of all lists and
\* the back pointers of their triggers in agreement.
THEOREM PointersAgree == Spec => []BackPointersAgree
<1>1. IInv => BackPointersAgree
  BY DEF IInv
<1> QED BY <1>1, Invariance, PTL

\* A write activates nothing but triggers of its variable after the writer.
THEOREM NoneElseActivated == Spec => []OnlySensitiveActivated
<1>1. IInv => OnlySensitiveActivated
  BY DEF IInv
<1> QED BY <1>1, Invariance, PTL

-----------------------------------------------------------------------------
(***************************************************************************)
(* No walk goes round: what is still to be seen shrinks with every trigger *)
(* that is visited, and by that trigger.                                   *)
(***************************************************************************)
Closed(S) == \A t \in S : next[t] # Nil => next[t] \in S

\* The triggers that the loop will come to, by the pointers as they are.
ToSee ==
  IF Walking /\ trig # Nil
  THEN {t \in Triggers : \A S \in SUBSET Triggers : trig \in S /\ Closed(S) => t \in S}
  ELSE {}

SeesOnce == Walking /\ trig # Nil => trig \in ToSee /\ ToSee' \subseteq ToSee \ {trig}

\* What comes after a trigger of the list has a greater rank, so the trigger is
\* not come to again.
LEMMA VisitSeesOnce ==
  ASSUME IInv, Walking, trig # Nil, Next
  PROVE  SeesOnce
<1> USE TriggerAssumption
<1>1. /\ Visit
      /\ next' = next /\ sv' = sv /\ trig' = next[trig]
  BY DEF Next, Reused, Desensitize, Sensitize, Assign, Update, Walk, WalkEnds, Visit,
         Onwards, listVars
<1>2. /\ trig \in Triggers /\ on[trig] = sv /\ sv \in Vars /\ sv # Nil
      /\ trig' \in Triggers \cup {Nil}
  BY <1>1 DEF IInv, TypeOK, OnlySensitiveActivated, Walking, Cells
<1>3. trig \in ToSee
  BY <1>2 DEF ToSee
<1>4. CASE trig' = Nil
  <2>1. ToSee' = {}
    BY <1>4 DEF ToSee
  <2> QED BY <1>3, <2>1 DEF SeesOnce
<1>5. CASE trig' # Nil
  <2>1. ToSee' = {t \in Triggers :
                    \A S \in SUBSET Triggers : next[trig] \in S /\ Closed(S) => t \in S}
    BY <1>1, <1>5 DEF ToSee, Walking, Closed
  <2>2. ToSee' \subseteq ToSee
    <3> SUFFICES ASSUME NEW t \in ToSee', NEW S \in SUBSET Triggers, trig \in S, Closed(S)
                 PROVE  t \in Triggers /\ t \in S
      BY <2>1 DEF ToSee
    <3>1. next[trig] \in S
      BY <1>1, <1>5 DEF Closed
    <3> QED BY <2>1, <3>1
  <2>3. trig \notin ToSee'
    <3>1. PICK rank \in [Triggers -> Nat] : Ranks(rank)
      BY DEF IInv, Acyclic
    <3> DEFINE After == {t \in Triggers : on[t] = sv /\ rank[t] > rank[trig]}
    <3>2. ASSUME NEW t \in Triggers, on[t] = sv, next[t] # Nil
          PROVE  next[t] \in Triggers /\ on[next[t]] = sv /\ rank[next[t]] > rank[t]
      <4>1. t \in Cells /\ t \notin Vars /\ ListOf(t) = sv
        BY <3>2 DEF Cells, ListOf
      <4>2. next[t] \in Triggers
        BY <3>2, <4>1 DEF IInv, TypeOK
      <4>3. on[next[t]] = sv /\ prev_ptr[next[t]] = t
        BY <1>2, <3>2, <4>1 DEF IInv, BackPointersAgree
      <4>4. rank[prev_ptr[next[t]]] < rank[next[t]]
        BY <1>2, <3>1, <4>2, <4>3 DEF Ranks
      <4> QED BY <4>2, <4>3, <4>4
    <3>3. Closed(After)
      <4> SUFFICES ASSUME NEW t \in After, next[t] # Nil PROVE next[t] \in After
        BY DEF Closed
      <4>1. next[t] \in Triggers /\ on[next[t]] = sv /\ rank[next[t]] > rank[t]
        BY <3>2
      <4> QED BY <1>2, <4>1
    <3>4. next[trig] \in After
      BY <1>1, <1>2, <1>5, <3>2
    <3>5. trig \notin After
      BY <1>2
    <3> QED BY <2>1, <3>3, <3>4, <3>5
  <2> QED BY <1>3, <2>2, <2>3 DEF SeesOnce
<1> QED BY <1>4, <1>5

\* The loops of ssm_sv_assign_unsafe and ssm_update visit no trigger twice: each
\* iteration takes what it visits out of what is left to visit and adds nothing,
\* so a walk ends when it has seen the triggers of its variable.
THEOREM WalksSeeOnce == Spec => [][SeesOnce]_vars
<1>1. IInv /\ [Next]_vars => [SeesOnce]_vars
  BY VisitSeesOnce DEF SeesOnce
<1> QED BY <1>1, Invariance, PTL DEF Spec

-----------------------------------------------------------------------------
(***************************************************************************)
(* The refinement.                                                         *)
(***************************************************************************)
LEMMA InitImplements == Init => Sets!Init
BY TriggerAssumption DEF Init, Sets!Init, Walking

LEMMA SensitizeImplements ==
  ASSUME IInv, NEW v \in Vars, NEW t \in Triggers, Sensitize(v, t)
  PROVE  Sets!Sensitize(v, t)
<1> USE TriggerAssumption
<1>1. on' = [on EXCEPT ![t] = v] /\ on \in [Triggers -> Vars \cup {Nil}] /\ on[t] = Nil
  BY DEF Sensitize, MayWait, Free, IInv, TypeOK
<1>2. \A u \in Vars : t \notin {x \in Triggers : on[x] = u}
  BY <1>1
<1> DEFINE S  == [u \in Vars |-> {x \in Triggers : on[x] = u}]
           S2 == [u \in Vars |-> {x \in Triggers : on'[x] = u}]
<1>3. ASSUME NEW u \in Vars
      PROVE  S2[u] = IF u = v THEN S[u] \cup {t} ELSE S[u]
  BY <1>1
<1>4. S2 = [S EXCEPT ![v] = S[v] \cup {t}]
  <2>1. S2 = [u \in Vars |-> S2[u]] /\ S = [u \in Vars |-> S[u]]
    OBVIOUS
  <2> HIDE DEF S, S2
  <2>2. S2 = [u \in Vars |-> IF u = v THEN S[u] \cup {t} ELSE S[u]]
    BY <1>3, <2>1
  <2> QED BY <2>1, <2>2
<1>5. sv = Nil /\ sv' = sv /\ UNCHANGED <<prio, activated>>
  BY DEF Sensitize, walkVars, Walking
<1> QED BY <1>2, <1>4, <1>5 DEF Walking, Sets!Sensitize

LEMMA DesensitizeImplements ==
  ASSUME IInv, NEW t \in Triggers, Desensitize(t)
  PROVE  Sets!Desensitize(t)
<1> USE TriggerAssumption
<1>1. /\ on' = [on EXCEPT ![t] = Nil] /\ on \in [Triggers -> Vars \cup {Nil}]
      /\ on[t] \in Vars
  BY DEF Desensitize, Free, IInv, TypeOK
<1>2. \A u \in Vars : {x \in Triggers : on'[x] = u} = {x \in Triggers : on[x] = u} \ {t}
  BY <1>1
<1> QED BY <1>1, <1>2 DEF Desensitize, walkVars, Walking, Sets!Desensitize

LEMMA WalkImplements ==
  ASSUME IInv, NEW v \in Vars, NEW after \in Int, Walk(v, after)
  PROVE  Sets!Write(v, after)
BY TriggerAssumption DEF Walk, listVars, Walking, Sets!Write

\* The walk activates what is still to be activated, or passes over a trigger.
LEMMA VisitImplements ==
  ASSUME IInv, Visit
  PROVE  (\E t \in Triggers : Sets!Activate(t)) \/ UNCHANGED Sets!vars
<1>1. /\ Walking /\ Walking' /\ sv' = sv /\ prio' = prio /\ on' = on
      /\ activated' = activated \cup {t \in {trig} : priority[t] > prio}
      /\ trig \in Triggers /\ on[trig] = sv
  BY DEF Visit, listVars, Walking, IInv, TypeOK, OnlySensitiveActivated
<1>2. CASE priority[trig] > prio /\ trig \notin activated
  <2>1. PICK t \in Triggers : t = trig
    BY <1>1
  <2>2. Sets!Activate(t)
    BY <1>1, <1>2, <2>1 DEF Sets!Activate
  <2> QED BY <2>2
<1>3. CASE ~(priority[trig] > prio /\ trig \notin activated)
  <2>1. activated' = activated
    BY <1>1, <1>3
  <2> QED BY <1>1, <2>1 DEF Sets!vars
<1> QED BY <1>2, <1>3

LEMMA WalkEndsImplements ==
  ASSUME IInv, WalkEnds
  PROVE  Sets!Written
<1>1. \A t \in Triggers : on[t] = sv /\ priority[t] > prio => t \in activated
  BY WalkIsComplete DEF WalkEnds
<1> QED BY <1>1 DEF WalkEnds, listVars, Walking, Sets!Written

LEMMA StepImplements == IInv /\ [Next]_vars => [Sets!Next]_(Sets!vars)
<1> SUFFICES ASSUME IInv, [Next]_vars PROVE Sets!Next \/ UNCHANGED Sets!vars
  OBVIOUS
<1>1. ASSUME NEW t \in Triggers, Reused(t) PROVE UNCHANGED Sets!vars
  BY <1>1 DEF Reused, walkVars, Walking, Sets!vars
<1>2. CASE \E t \in Triggers : Reused(t) \/ Desensitize(t) \/ \E v \in Vars : Sensitize(v, t)
  BY <1>1, <1>2, DesensitizeImplements, SensitizeImplements DEF Sets!Next
<1>3. CASE \E v \in Vars : Assign(v) \/ Update(v)
  <2>1. First \in Int /\ \A t \in Triggers : priority[t] \in Int
    BY TriggerAssumption
  <2> QED BY <1>3, <2>1, WalkImplements DEF Assign, Update, Sets!Next
<1>4. CASE Visit
  BY <1>4, VisitImplements DEF Sets!Next
<1>5. CASE WalkEnds
  BY <1>5, WalkEndsImplements DEF Sets!Next
<1>6. CASE UNCHANGED vars
  BY <1>6 DEF vars, listVars, walkVars, Walking, Sets!vars
<1> QED BY <1>2, <1>3, <1>4, <1>5, <1>6 DEF Next

\* The lists implement sets: whoever is sensitized to a variable that is written,
\* and comes after the writer, is activated once, and nobody else.
THEOREM Implementation == Spec => ImplementsSets
<1> QED
  BY InitImplements, StepImplements, Invariance, PTL DEF Spec, ImplementsSets, Sets!Spec
=============================================================================
