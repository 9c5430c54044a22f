----------------------------- MODULE Allocator -----------------------------
(***************************************************************************)
(* What ssm_mem_alloc and ssm_mem_free promise to the rest of the runtime: *)
(* an object gets memory that no other live object has any part of, keeps  *)
(* it until it is freed, and the program may stop for want of memory.      *)
(***************************************************************************)
EXTENDS Naturals

CONSTANTS Kinds, Size, Addresses

VARIABLES
  live,   \* the live objects, each with its address and its kind
  error

vars == <<live, error>>

Apart(o, q) == o.at + Size[o.kind] <= q.at \/ q.at + Size[q.kind] <= o.at

Init == live = {} /\ error = "none"

Alloc(o) ==
  /\ \A q \in live : Apart(o, q)
  /\ live' = live \cup {o}
  /\ UNCHANGED error

Free(o) ==
  /\ o \in live
  /\ live' = live \ {o}
  /\ UNCHANGED error

Exhausted == error' = "exhausted_memory" /\ UNCHANGED live

Next ==
  /\ error = "none"
  /\ \/ \E o \in [at : Addresses, kind : Kinds] : Alloc(o) \/ Free(o)
     \/ Exhausted

Spec == Init /\ [][Next]_vars
=============================================================================
