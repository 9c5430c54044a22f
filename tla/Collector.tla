----------------------------- MODULE Collector -----------------------------
(***************************************************************************)
(* What reference counting promises: an object is there as long as the     *)
(* program can get at it, and no longer.  A step may create or change one  *)
(* object and take or give up any references; what is then out of reach    *)
(* is gone, and nothing else is.                                           *)
(***************************************************************************)
EXTENDS Integers

CONSTANT Ids  \* the names of objects

VARIABLES
  store,  \* the objects there are: the objects each refers to, by place
  roots   \* the number of references the program holds to each

Refs(s, o) == {s[o][i] : i \in DOMAIN s[o]} \cap Ids

\* The least set that has those of from and all that its members refer to.
ReachableIn(s, from) ==
  LET edges  == UNION {{o} \X Refs(s, o) : o \in DOMAIN s}
      closed == {S \in SUBSET Ids :
                   from \subseteq S /\ \A e \in edges : e[1] \in S => e[2] \in S}
  IN {o \in Ids : \A S \in closed : o \in S}

Held(r) == {o \in Ids : r[o] > 0}
Collected(s, r) == [o \in DOMAIN s \cap ReachableIn(s, Held(r)) |-> s[o]]

Init == store = <<>> /\ roots = [o \in Ids |-> 0]

\* References are taken and given up: from store s to t, with roots r in the end.
Collects(s, t, r) == Held(r) \subseteq DOMAIN s /\ t = Collected(s, r)

\* Object o is new, or changed, and refers to what there was.
Changes(o, s, t, r) ==
  /\ o \in DOMAIN t
  /\ \A p \in DOMAIN t \ {o} : p \in DOMAIN s /\ t[p] = s[p]
  /\ Refs(t, o) \subseteq DOMAIN s
  /\ Held(r) \subseteq DOMAIN s \cup {o}
  /\ t = Collected([p \in DOMAIN s \cup {o} |-> IF p = o THEN t[o] ELSE s[p]], r)

Next ==
  \E s \in {store}, t \in {store'}, r \in {roots'} :
    Collects(s, t, r) \/ \E o \in Ids : Changes(o, s, t, r)

Spec == Init /\ [][Next]_<<store, roots>>
=============================================================================
