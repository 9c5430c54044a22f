----------------------------- MODULE BinaryHeap -----------------------------
(***************************************************************************)
(* The array-embedded binary heap of ssm-scheduler.c.  The runtime keeps    *)
(* two of them, event_queue (sorted on later_time) and act_queue (sorted   *)
(* on priority), with the same loops written out twice.  The operators     *)
(* below are the tests of those loops; the modules EventQueue and ActQueue *)
(* take one step per iteration.                                            *)
(*                                                                         *)
(* A heap is an array q of slots 1..len and a key for every entry.  Slot 0 *)
(* of the C arrays is never used (SSM_QUEUE_HEAD is 1).                     *)
(***************************************************************************)
EXTENDS Naturals

CONSTANT IndexValues  \* how many values a q_idx_t has, 2^16

SSM_QUEUE_HEAD == 1

\* hole >> 1
Parent(i) == i \div 2

\* hole << 1, kept in a q_idx_t
LeftOf(hole) == (2 * hole) % IndexValues

\* Mutant: takes the left child without looking at the right one.
LeftChild(q, len, key, hole) == LeftOf(hole)

\* The child of the hole that comes first; the left one on a tie.  Only
\* evaluated when the hole has a left child.
EarlierChild(q, len, key, hole) ==
  LET left  == LeftOf(hole)
      right == left + 1
  IN  IF right <= len /\ key[q[right]] < key[q[left]] THEN right ELSE left

\* Mutant: also moves past a parent that is as early.
GoesUpPastEqual(q, key, hole, x) ==
  hole > SSM_QUEUE_HEAD /\ key[x] <= key[q[Parent(hole)]]

\* Mutant: takes slot 2 for the root.
GoesUpToSlotTwo(q, key, hole, x) ==
  hole > SSM_QUEUE_HEAD + 1 /\ key[x] < key[q[Parent(hole)]]

\* The percolate-up loop copies the parent into the hole and goes on.
GoesUp(q, key, hole, x) ==
  hole > SSM_QUEUE_HEAD /\ key[x] < key[q[Parent(hole)]]

\* The percolate-down loop copies a child into the hole and goes on: there is
\* a child and x is not strictly before the earlier one.
GoesDown(q, len, key, hole, x) ==
  /\ LeftOf(hole) <= len
  /\ ~(key[x] < key[q[EarlierChild(q, len, key, hole)]])

\* Mutant: an entry put in a hole can only be too late for its place.
SinksFromAnywhere(q, key, hole, x) == TRUE

\* A hole left by a removal or a rescheduling is filled downwards when it is
\* the root or when its parent is strictly before the entry to place.
SinksFrom(q, key, hole, x) ==
  hole = SSM_QUEUE_HEAD \/ key[q[Parent(hole)]] < key[x]

\* The queue with the percolated entry put in the hole.
Filled(q, hole, x) == [q EXCEPT ![hole] = x]

-----------------------------------------------------------------------------
(***************************************************************************)
(* What the loops promise and what they maintain.  HeapOrdered is the      *)
(* condition of event_queue_consistency_check and act_queue_consistency_   *)
(* check.  UpReady and DownReady are the loop invariants of the percolate  *)
(* functions, stated of the array with the entry already in the hole: all   *)
(* edges are in order but the ones on the hole's upper (lower) side, and   *)
(* the hole's children are not before the hole's parent.  HoleReady holds  *)
(* where an operation has opened a hole and not yet put an entry in it.    *)
(***************************************************************************)
HeapOrdered(q, len, key) ==
  \A i \in 2..len : key[q[Parent(i)]] <= key[q[i]]

Bridged(q, len, key, hole) ==
  hole > 1 => \A i \in 2..len :
                Parent(i) = hole => key[q[Parent(hole)]] <= key[q[i]]

UpReady(q, len, key, hole) ==
  /\ \A i \in 2..len : i # hole => key[q[Parent(i)]] <= key[q[i]]
  /\ Bridged(q, len, key, hole)

DownReady(q, len, key, hole) ==
  /\ \A i \in 2..len : Parent(i) # hole => key[q[Parent(i)]] <= key[q[i]]
  /\ Bridged(q, len, key, hole)

HoleReady(q, len, key, hole) ==
  /\ \A i \in 2..len :
       i # hole /\ Parent(i) # hole => key[q[Parent(i)]] <= key[q[i]]
  /\ Bridged(q, len, key, hole)
=============================================================================
