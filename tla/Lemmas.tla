------------------------------- MODULE Lemmas -------------------------------
(***************************************************************************)
(* What the proofs of several components need: numbers, remainders, and    *)
(* the heap operators of BinaryHeap.                                       *)
(***************************************************************************)
EXTENDS Integers, BinaryHeap, WellFoundedInduction, TLAPS

\* A non-empty set of natural numbers has a least element.  It takes the
\* place of induction in the proofs of this project.
LEMMA NatMin ==
  ASSUME NEW T \in SUBSET Nat, T # {}
  PROVE  \E x \in T : \A y \in T : x <= y
<1> DEFINE R == {ss \in Nat \X Nat : ss[1] < ss[2]}
<1>1. IsWellFoundedOn(R, Nat)
  BY NatLessThanWellFounded, Zenon DEF OpToRel
<1> HIDE DEF R
<1>2. PICK x \in T : \A y \in T : ~(<<y, x>> \in R)
  BY <1>1, WFMin
<1>3. \A y \in T : ~(y < x)
  BY <1>2 DEF R
<1> QED BY <1>3

-----------------------------------------------------------------------------
(***************************************************************************)
(* Powers of two, for the priorities of routines and the sizes of blocks.  *)
(***************************************************************************)
\* f gives the powers of two up to the m-th.
IsPowers(f, m) == f = [n \in 0..m |-> IF n = 0 THEN 1 ELSE 2 * f[n - 1]]

\* There is a function that the recursive definition describes.
LEMMA PowersExist == ASSUME NEW bound \in Nat PROVE \E f : IsPowers(f, bound)
<1> DEFINE T == {m \in Nat : ~\E f : IsPowers(f, m)}
<1>1. \E f : IsPowers(f, 0)
  <2>1. [n \in {0} |-> 1] = [n \in 0..0 |-> IF n = 0 THEN 1 ELSE 2 * [k \in {0} |-> 1][n - 1]]
    OBVIOUS
  <2> QED BY <2>1 DEF IsPowers
<1>2. ASSUME NEW m \in Nat \ {0}, NEW f, IsPowers(f, m - 1)
      PROVE  \E g : IsPowers(g, m)
  <2> DEFINE g == [n \in 0..m |-> IF n < m THEN f[n] ELSE 2 * f[m - 1]]
  <2>1. ASSUME NEW n \in 0..m PROVE g[n] = IF n = 0 THEN 1 ELSE 2 * g[n - 1]
    <3>1. CASE n = 0
      BY <3>1, <1>2 DEF IsPowers
    <3>2. CASE n # 0 /\ n < m
      <4>1. n \in 0..(m - 1) /\ n - 1 \in 0..m /\ n - 1 < m
        BY <3>2
      <4>2. f[n] = 2 * f[n - 1]
        BY <4>1, <3>2, <1>2 DEF IsPowers
      <4> QED BY <3>2, <4>1, <4>2
    <3>3. CASE n # 0 /\ n = m
      BY <3>3
    <3> QED BY <3>1, <3>2, <3>3
  <2> QED BY <2>1 DEF IsPowers
<1>3. T = {}
  <2> SUFFICES ASSUME T # {} PROVE FALSE
    OBVIOUS
  <2>1. PICK m \in T : \A y \in T : m <= y
    BY NatMin
  <2>2. m - 1 \in Nat /\ m - 1 \notin T
    BY <1>1, <2>1
  <2> QED BY <1>2, <2>1, <2>2
<1> QED BY <1>3

LEMMA PowersOfTwo ==
  ASSUME NEW bound \in Nat, NEW f, IsPowers(f, bound)
  PROVE  /\ f[0] = 1
         /\ \A n \in 1..bound : f[n] = 2 * f[n - 1]
         /\ \A n \in 0..bound : f[n] \in Nat \ {0}
<1>1. f[0] = 1 /\ \A n \in 1..bound : f[n] = 2 * f[n - 1]
  BY DEF IsPowers
<1> DEFINE T == {m \in 0..bound : f[m] \notin Nat \ {0}}
<1>2. T = {}
  <2> SUFFICES ASSUME T # {} PROVE FALSE
    OBVIOUS
  <2>1. T \in SUBSET Nat
    OBVIOUS
  <2>2. PICK m \in T : \A y \in T : m <= y
    BY <2>1, NatMin
  <2>3. m # 0
    BY <1>1, <2>2
  <2>4. m - 1 \in 0..bound /\ m - 1 \notin T /\ m \in 1..bound
    BY <2>2, <2>3
  <2>5. f[m - 1] \in Nat \ {0} /\ f[m] = 2 * f[m - 1]
    BY <1>1, <2>4
  <2> QED BY <2>2, <2>5
<1> QED BY <1>1, <1>2

\* Powers multiply.
LEMMA PowersMultiply ==
  ASSUME NEW bound \in Nat, NEW f, IsPowers(f, bound),
         NEW b \in 0..bound, NEW d \in b..bound
  PROVE  f[d] = f[b] * f[d - b]
<1> DEFINE T == {m \in 0..(bound - b) : f[b + m] # f[b] * f[m]}
<1>1. T = {}
  <2> SUFFICES ASSUME T # {} PROVE FALSE
    OBVIOUS
  <2>0. T \in SUBSET Nat
    OBVIOUS
  <2>1. PICK m \in T : \A y \in T : m <= y
    BY <2>0, NatMin
  <2>2. f[b] \in Nat
    BY PowersOfTwo
  <2>3. m # 0
    BY <2>1, <2>2, PowersOfTwo
  <2>4. m - 1 \in 0..(bound - b) /\ m - 1 \notin T
    BY <2>1, <2>3
  <2>5. f[b + (m - 1)] = f[b] * f[m - 1]
    BY <2>4
  <2>6. f[b + m] = 2 * f[b + (m - 1)] /\ f[m] = 2 * f[m - 1]
    BY <2>1, <2>3, PowersOfTwo
  <2>7. f[m - 1] \in Nat
    BY <2>4, PowersOfTwo
  <2> DEFINE x == f[b]
             y == f[m - 1]
  <2>8. 2 * (x * y) = x * (2 * y)
    <3> HIDE DEF x, y
    <3>1. x \in Nat /\ y \in Nat
      BY <2>2, <2>7 DEF x, y
    <3> QED BY <3>1
  <2> QED BY <2>1, <2>5, <2>6, <2>8
<1>2. d - b \in 0..(bound - b) /\ b + (d - b) = d
  OBVIOUS
<1> QED BY <1>1, <1>2

-----------------------------------------------------------------------------
(***************************************************************************)
(* Remainders, for the input buffers: heads that are never wrapped, of a   *)
(* buffer of n slots (ssm_input_idx).                                      *)
(***************************************************************************)
\* A head lies in some slot, after some number of turns of the buffer.
LEMMA Turns ==
  ASSUME NEW n \in Nat \ {0}, NEW i \in Nat
  PROVE  /\ i % n \in 0..(n - 1)
         /\ i \div n \in Int
         /\ i = (i \div n) * n + (i % n)
OBVIOUS

\* A multiple of n that is less than n is not positive.
LEMMA Small ==
  ASSUME NEW n \in Nat \ {0}, NEW q \in Int, q * n < n
  PROVE  q <= 0
<1>1. CASE q >= 1
  <2>1. (q - 1) * n >= 0
    BY <1>1
  <2>2. (q - 1) * n = q * n - n
    OBVIOUS
  <2> QED BY <2>1, <2>2
<1> QED BY <1>1

\* Heads less than a turn apart are in different slots.
LEMMA Apart ==
  ASSUME NEW n \in Nat \ {0}, NEW i \in Nat, NEW j \in Nat, i < j, j < i + n
  PROVE  i % n # j % n
<1> SUFFICES ASSUME i % n = j % n PROVE FALSE
  OBVIOUS
<1> DEFINE p == i \div n
           q == j \div n
           m == i % n
<1>1. p \in Int /\ q \in Int /\ m \in Int /\ i = p * n + m /\ j = q * n + m
  BY Turns
<1> HIDE DEF p, q, m
<1>2. (q - p) * n = j - i
  BY <1>1
<1>3. q - p <= 0
  BY <1>1, <1>2, Small
<1>4. (p - q) * n >= 0
  BY <1>1, <1>3
<1>5. (p - q) * n = -((q - p) * n)
  BY <1>1
<1> QED BY <1>2, <1>4, <1>5

\* Heads a turn apart are in the same slot.
LEMMA ATurn ==
  ASSUME NEW n \in Nat \ {0}, NEW i \in Nat
  PROVE  (i + n) % n = i % n
<1> DEFINE p == i \div n
           q == (i + n) \div n
           m == i % n
           k == (i + n) % n
<1>1. /\ p \in Int /\ q \in Int /\ m \in 0..(n - 1) /\ k \in 0..(n - 1)
      /\ i = p * n + m /\ i + n = q * n + k
  <2>1. i + n \in Nat
    OBVIOUS
  <2> QED BY <2>1, Turns
<1> HIDE DEF p, q, m, k
<1>2. ((q - p) - 1) * n = m - k /\ ((p - q) + 1) * n = k - m
  BY <1>1
<1>3. (q - p) - 1 <= 0 /\ (p - q) + 1 <= 0
  BY <1>1, <1>2, Small
<1>4. (q - p) - 1 = 0
  BY <1>1, <1>3
<1>5. m = k
  BY <1>1, <1>2, <1>4
<1> QED BY <1>5 DEF m, k

\* The remainder is the only one of n numbers that is whole turns away.
LEMMA Remainder ==
  ASSUME NEW n \in Nat \ {0}, NEW x \in Int, NEW q \in Int, NEW y \in 0..(n - 1),
         x = q * n + y
  PROVE  x % n = y
<1> DEFINE p == x \div n
           m == x % n
<1>1. p \in Int /\ m \in 0..(n - 1) /\ x = p * n + m
  OBVIOUS
<1> HIDE DEF p, m
<1>2. (q - p) * n = m - y /\ (p - q) * n = y - m
  BY <1>1
<1>3. q - p <= 0 /\ p - q <= 0
  BY <1>1, <1>2, Small
<1>4. q - p = 0
  BY <1>1, <1>3
<1>5. m = y
  BY <1>1, <1>2, <1>4
<1> QED BY <1>5 DEF m

-----------------------------------------------------------------------------
(***************************************************************************)
(* Heaps, for arrays of any size and any entries: the iterations of the    *)
(* percolate loops keep the loop invariants, the loops end in an ordered   *)
(* heap, and the root of an ordered heap is its least entry.               *)
(***************************************************************************)
\* Where parents are.
LEMMA ParentBelow ==
  ASSUME NEW i \in Nat, i >= 2
  PROVE  Parent(i) \in Nat /\ 1 <= Parent(i) /\ Parent(i) < i
BY DEF Parent

\* The children of a slot, and nothing else, have it as their parent.
LEMMA ChildrenOf ==
  ASSUME NEW i \in Nat, NEW h \in Nat, h >= 1
  PROVE  Parent(i) = h <=> i \in {2 * h, 2 * h + 1}
BY DEF Parent

\* The head of a heap in order comes before every other entry: this is why
\* ssm_next_event_time may look at the first slot only.
LEMMA HeadIsLeast ==
  ASSUME NEW q, NEW key, NEW len \in Nat,
         \A i \in 1..len : key[q[i]] \in Nat,
         HeapOrdered(q, len, key)
  PROVE  \A i \in 1..len : key[q[1]] <= key[q[i]]
<1> DEFINE T == {i \in 1..len : ~(key[q[1]] <= key[q[i]])}
<1>1. SUFFICES ASSUME T # {} PROVE FALSE
  OBVIOUS
<1>2. PICK x \in T : \A y \in T : x <= y
  <2>1. T \in SUBSET Nat
    OBVIOUS
  <2> QED BY <1>1, <2>1, NatMin
<1>3. x \in 2..len
  <2>1. 1 \in 1..len => key[q[1]] <= key[q[1]]
    OBVIOUS
  <2> QED BY <1>2, <2>1
<1>4. Parent(x) \in 1..len /\ Parent(x) \notin T
  BY <1>2, <1>3, ParentBelow
<1>5. key[q[1]] <= key[q[Parent(x)]]
  BY <1>4
<1>6. key[q[Parent(x)]] <= key[q[x]]
  BY <1>3 DEF HeapOrdered
<1>7. key[q[1]] \in Nat /\ key[q[x]] \in Nat /\ key[q[Parent(x)]] \in Nat
  BY <1>3, <1>4
<1>8. key[q[1]] <= key[q[x]]
  BY <1>5, <1>6, <1>7
<1> QED BY <1>2, <1>8

-----------------------------------------------------------------------------
(***************************************************************************)
(* The percolate loops.  q is the array, x the entry to place, and the      *)
(* loop invariants speak of F, the array with x in the hole.               *)
(***************************************************************************)
\* An iteration of the percolate-up loop keeps its invariant.
LEMMA UpStep ==
  ASSUME NEW Size \in Nat, NEW S, NEW q \in [1..Size -> S],
         NEW len \in 0..Size, NEW hole \in 1..len, NEW x \in S, NEW key,
         \A i \in 1..len : key[Filled(q, hole, x)[i]] \in Nat,
         UpReady(Filled(q, hole, x), len, key, hole),
         GoesUp(q, key, hole, x)
  PROVE  LET p == Parent(hole)
         IN  UpReady(Filled([q EXCEPT ![hole] = q[p]], p, x), len, key, p)
<1> DEFINE p == Parent(hole)
           F == Filled(q, hole, x)
           G == Filled([q EXCEPT ![hole] = q[p]], p, x)
<1>1. p \in 1..len /\ p < hole /\ hole >= 2
  BY ParentBelow DEF GoesUp, SSM_QUEUE_HEAD
<1>2. \A i \in 1..len : F[i] = IF i = hole THEN x ELSE q[i]
  BY DEF Filled
<1>3. \A i \in 1..len : G[i] = IF i = p THEN x ELSE IF i = hole THEN F[p] ELSE F[i]
  BY <1>1, <1>2 DEF Filled
<1>4. F[hole] = x /\ key[x] < key[F[p]]
  BY <1>1, <1>2 DEF GoesUp
<1> DEFINE f == [i \in 1..len |-> key[F[i]]]
           g == [i \in 1..len |-> key[G[i]]]
<1>5. f \in [1..len -> Nat]
  OBVIOUS
<1>6. \A i \in 1..len : g[i] = IF i = p THEN f[hole] ELSE IF i = hole THEN f[p] ELSE f[i]
  BY <1>1, <1>3, <1>4
<1>7. f[hole] < f[p]
  BY <1>1, <1>4
<1>8. \A i \in 2..len : Parent(i) \in 1..len
  BY ParentBelow
<1>9. /\ \A i \in 2..len : i # hole => f[Parent(i)] <= f[i]
      /\ \A i \in 2..len : Parent(i) = hole => f[p] <= f[i]
  BY <1>1, <1>8 DEF UpReady, Bridged
<1> HIDE DEF f, g, p, F, G
<1>10. \A i \in 2..len : i # p => g[Parent(i)] <= g[i]
  <2> TAKE i \in 2..len
  <2> HAVE i # p
  <2>1. CASE i = hole
    BY <1>1, <1>5, <1>6, <1>7, <2>1 DEF p
  <2>2. CASE i # hole /\ Parent(i) = hole
    BY <1>1, <1>5, <1>6, <1>7, <1>8, <1>9, <2>2
  <2>3. CASE i # hole /\ Parent(i) = p
    <3>1. f[p] <= f[i] /\ f[p] \in Nat /\ f[i] \in Nat /\ f[hole] \in Nat
      BY <1>1, <1>5, <1>9, <2>3
    <3>2. g[Parent(i)] = f[hole] /\ g[i] = f[i]
      BY <1>1, <1>6, <2>3
    <3> QED BY <3>1, <3>2, <1>7
  <2>4. CASE i # hole /\ Parent(i) # hole /\ Parent(i) # p
    BY <1>1, <1>5, <1>6, <1>8, <1>9, <2>4
  <2> QED BY <2>1, <2>2, <2>3, <2>4
<1>11. p > 1 => \A i \in 2..len : Parent(i) = p => g[Parent(p)] <= g[i]
  <2> SUFFICES ASSUME p > 1, NEW i \in 2..len, Parent(i) = p
               PROVE  g[Parent(p)] <= g[i]
    OBVIOUS
  <2>1. Parent(p) \in 1..len /\ Parent(p) # p /\ Parent(p) # hole
    BY <1>1, ParentBelow
  <2>2. g[Parent(p)] = f[Parent(p)] /\ f[Parent(p)] <= f[p] /\ f[Parent(p)] \in Nat
    BY <1>1, <1>5, <1>6, <1>9, <2>1
  <2>3. CASE i = hole
    BY <1>1, <1>6, <2>2, <2>3
  <2>4. CASE i # hole
    <3>1. i # p
      BY ParentBelow
    <3>2. f[i] \in Nat /\ f[p] \in Nat
      BY <1>1, <1>5
    <3>3. g[i] = f[i]
      BY <1>1, <1>6, <2>4, <3>1
    <3>4. f[p] <= f[i]
      BY <1>9, <2>4
    <3> QED BY <2>2, <3>2, <3>3, <3>4
  <2> QED BY <2>3, <2>4
<1>12. \A i \in 1..len : key[G[i]] = g[i]
  BY DEF g
<1>13. p > 1 => Parent(p) \in 1..len
  BY <1>1, ParentBelow
<1>14. UpReady(G, len, key, p)
  BY <1>1, <1>8, <1>10, <1>11, <1>12, <1>13 DEF UpReady, Bridged
<1> QED BY <1>14 DEF G, p

\* When the percolate-up loop stops and puts x in the hole, the heap is in
\* order.
LEMMA UpDone ==
  ASSUME NEW Size \in Nat, NEW S, NEW q \in [1..Size -> S],
         NEW len \in 0..Size, NEW hole \in 1..len, NEW x \in S, NEW key,
         \A i \in 1..len : key[Filled(q, hole, x)[i]] \in Nat,
         UpReady(Filled(q, hole, x), len, key, hole),
         ~GoesUp(q, key, hole, x)
  PROVE  HeapOrdered(Filled(q, hole, x), len, key)
<1> DEFINE F == Filled(q, hole, x)
<1>1. \A i \in 1..len : F[i] = IF i = hole THEN x ELSE q[i]
  BY DEF Filled
<1>2. \A i \in 2..len : Parent(i) \in 1..len /\ Parent(i) # i
  BY ParentBelow
<1> HIDE DEF F
<1>3. ASSUME NEW i \in 2..len
      PROVE  key[F[Parent(i)]] <= key[F[i]]
  <2>1. CASE i = hole
    <3>1. ~(key[x] < key[q[Parent(hole)]])
      BY <2>1 DEF GoesUp, SSM_QUEUE_HEAD
    <3>2. F[i] = x /\ F[Parent(i)] = q[Parent(hole)]
      BY <1>1, <1>2, <2>1
    <3>3. key[F[i]] \in Nat /\ key[F[Parent(i)]] \in Nat
      BY <1>2 DEF F
    <3> QED BY <3>1, <3>2, <3>3
  <2>2. CASE i # hole
    BY <2>2 DEF UpReady, F
  <2> QED BY <2>1, <2>2
<1> QED BY <1>3 DEF HeapOrdered, F

\* In a queue whose slots all have a left child that is a q_idx_t, hole << 1 does
\* not wrap.
LEMMA LeftOfIs ==
  ASSUME IndexValues \in Nat, NEW Size \in Nat, 2 * Size < IndexValues,
         NEW h \in 1..Size
  PROVE  LeftOf(h) = 2 * h
BY DEF LeftOf

\* An iteration of the percolate-down loop keeps its invariant.
LEMMA DownStep ==
  ASSUME IndexValues \in Nat, NEW Size \in Nat, 2 * Size < IndexValues,
         NEW S, NEW q \in [1..Size -> S],
         NEW len \in 0..Size, NEW hole \in 1..len, NEW x \in S, NEW key,
         \A i \in 1..len : key[Filled(q, hole, x)[i]] \in Nat,
         DownReady(Filled(q, hole, x), len, key, hole),
         GoesDown(q, len, key, hole, x)
  PROVE  LET c == EarlierChild(q, len, key, hole)
         IN  /\ c \in 1..len /\ Parent(c) = hole /\ c # hole
             /\ DownReady(Filled([q EXCEPT ![hole] = q[c]], c, x), len, key, c)
<1> DEFINE c == EarlierChild(q, len, key, hole)
           F == Filled(q, hole, x)
           G == Filled([q EXCEPT ![hole] = q[c]], c, x)
<1>0. LeftOf(hole) = 2 * hole
  BY LeftOfIs
<1>1. c \in 2..len /\ Parent(c) = hole /\ c # hole /\ 2 * hole \in 2..len
  <2>1. c \in {2 * hole, 2 * hole + 1} /\ c <= len
    BY <1>0 DEF GoesDown, EarlierChild
  <2> QED BY <1>0, <2>1, ChildrenOf DEF GoesDown
<1>2. \A i \in 1..len : F[i] = IF i = hole THEN x ELSE q[i]
  BY DEF Filled
<1>3. \A i \in 1..len : G[i] = IF i = c THEN x ELSE IF i = hole THEN F[c] ELSE F[i]
  BY <1>1, <1>2 DEF Filled
<1>4. F[hole] = x /\ F[c] = q[c]
  BY <1>1, <1>2
<1> DEFINE f == [i \in 1..len |-> key[F[i]]]
           g == [i \in 1..len |-> key[G[i]]]
<1>5. f \in [1..len -> Nat]
  OBVIOUS
<1>6. \A i \in 1..len : g[i] = IF i = c THEN f[hole] ELSE IF i = hole THEN f[c] ELSE f[i]
  <2>1. \A i \in 1..len : g[i] = key[G[i]] /\ f[i] = key[F[i]]
    OBVIOUS
  <2>2. c \in 1..len
    BY <1>1
  <2> HIDE DEF f, g, c, F, G
  <2> QED BY <1>3, <1>4, <2>1, <2>2
<1>7. f[c] <= f[hole]
  <2>1. ~(key[x] < key[q[c]])
    BY DEF GoesDown
  <2>2. f[hole] = key[x] /\ f[c] = key[q[c]] /\ f[hole] \in Nat /\ f[c] \in Nat
    BY <1>1, <1>4, <1>5
  <2> HIDE DEF c, f
  <2> QED BY <2>1, <2>2
<1>8. \A i \in 2..len : Parent(i) \in 1..len /\ Parent(i) < i
  BY ParentBelow
<1>9. \A i \in 2..len : Parent(i) = hole => f[c] <= f[i]
  <2> SUFFICES ASSUME NEW i \in 2..len, Parent(i) = hole
               PROVE  f[c] <= f[i]
    OBVIOUS
  <2>1. i \in {2 * hole, 2 * hole + 1}
    BY ChildrenOf
  <2>2. 2 * hole # hole /\ 2 * hole + 1 # hole
    OBVIOUS
  <2>3. f[i] = key[q[i]] /\ f[c] = key[q[c]] /\ f[i] \in Nat /\ f[c] \in Nat
    BY <1>1, <1>2, <1>5, <2>1, <2>2
  <2>4. f[2 * hole] = key[q[2 * hole]] /\ f[2 * hole] \in Nat
    BY <1>1, <1>2, <1>5, <2>2
  <2>5. key[q[c]] <= key[q[i]]
    <3>1. CASE 2 * hole + 1 <= len /\ key[q[2 * hole + 1]] < key[q[2 * hole]]
      <4>1. c = 2 * hole + 1
        BY <1>0, <3>1 DEF EarlierChild
      <4>2. CASE i = 2 * hole
        <5> HIDE DEF c, f
        <5> QED BY <2>3, <3>1, <4>1, <4>2
      <4>3. CASE i = 2 * hole + 1
        <5> HIDE DEF c, f
        <5> QED BY <2>3, <4>1, <4>3
      <4> QED BY <2>1, <4>2, <4>3
    <3>2. CASE ~(2 * hole + 1 <= len /\ key[q[2 * hole + 1]] < key[q[2 * hole]])
      <4>1. c = 2 * hole
        BY <1>0, <3>2 DEF EarlierChild
      <4>2. CASE i = 2 * hole
        <5> HIDE DEF c, f
        <5> QED BY <2>3, <4>1, <4>2
      <4>3. CASE i = 2 * hole + 1
        <5>1. ~(key[q[i]] < key[q[2 * hole]])
          BY <3>2, <4>3
        <5>2. key[q[i]] \in Nat /\ key[q[2 * hole]] \in Nat
          BY <2>3, <2>4
        <5> HIDE DEF c, f
        <5> QED BY <4>1, <5>1, <5>2
      <4> QED BY <2>1, <4>2, <4>3
    <3> QED BY <3>1, <3>2
  <2> QED BY <2>3, <2>5
<1>10. /\ \A i \in 2..len : Parent(i) # hole => f[Parent(i)] <= f[i]
       /\ hole > 1 => \A i \in 2..len : Parent(i) = hole => f[Parent(hole)] <= f[i]
  BY <1>8 DEF DownReady, Bridged
<1> HIDE DEF f, g, c, F, G
<1>11. \A i \in 2..len : Parent(i) # c => g[Parent(i)] <= g[i]
  <2> SUFFICES ASSUME NEW i \in 2..len, Parent(i) # c
               PROVE  g[Parent(i)] <= g[i]
    OBVIOUS
  <2>1. CASE i = c
    BY <1>1, <1>5, <1>6, <1>7, <2>1
  <2>2. CASE i # c /\ Parent(i) = hole
    <3>1. i # hole
      BY <1>8, <2>2
    <3> QED BY <1>1, <1>5, <1>6, <1>9, <2>2, <3>1
  <2>3. CASE i = hole
    <3>1. Parent(i) \in 1..len /\ Parent(i) # hole /\ Parent(i) # c /\ hole > 1
      BY <1>8, <2>3
    <3>2. f[Parent(hole)] <= f[c]
      BY <1>1, <1>10, <3>1
    <3>3. g[i] = f[c] /\ g[Parent(i)] = f[Parent(hole)]
      BY <1>1, <1>6, <2>3, <3>1
    <3> QED BY <3>2, <3>3
  <2>4. CASE i # c /\ i # hole /\ Parent(i) # hole
    <3>1. i \in 1..len /\ Parent(i) \in 1..len
      BY <1>8
    <3>2. g[i] = f[i] /\ g[Parent(i)] = f[Parent(i)]
      BY <1>6, <2>4, <3>1
    <3> QED BY <1>10, <2>4, <3>2
  <2> QED BY <2>1, <2>2, <2>3, <2>4
<1>12. \A i \in 2..len : Parent(i) = c => g[hole] <= g[i]
  <2> SUFFICES ASSUME NEW i \in 2..len, Parent(i) = c
               PROVE  g[hole] <= g[i]
    OBVIOUS
  <2>1. i # c /\ i # hole
    BY <1>1, <1>8
  <2>2. f[c] <= f[i]
    BY <1>1, <1>10
  <2> QED BY <1>1, <1>6, <2>1, <2>2
<1>13. \A i \in 1..len : key[G[i]] = g[i]
  BY DEF g
<1>14. DownReady(G, len, key, c)
  BY <1>1, <1>8, <1>11, <1>12, <1>13 DEF DownReady, Bridged
<1> QED BY <1>1, <1>14 DEF G, c

\* When the percolate-down loop stops and puts x in the hole, the heap is in
\* order.
LEMMA DownDone ==
  ASSUME IndexValues \in Nat, NEW Size \in Nat, 2 * Size < IndexValues,
         NEW S, NEW q \in [1..Size -> S],
         NEW len \in 0..Size, NEW hole \in 1..len, NEW x \in S, NEW key,
         \A i \in 1..len : key[Filled(q, hole, x)[i]] \in Nat,
         DownReady(Filled(q, hole, x), len, key, hole),
         ~GoesDown(q, len, key, hole, x)
  PROVE  HeapOrdered(Filled(q, hole, x), len, key)
<1> DEFINE F == Filled(q, hole, x)
<1>0. LeftOf(hole) = 2 * hole
  BY LeftOfIs
<1>1. \A i \in 1..len : F[i] = IF i = hole THEN x ELSE q[i]
  BY DEF Filled
<1>2. \A i \in 2..len : Parent(i) \in 1..len /\ Parent(i) # i
  BY ParentBelow
<1>3. ASSUME NEW i \in 2..len
      PROVE  key[F[Parent(i)]] <= key[F[i]]
  <2>1. CASE Parent(i) = hole
    <3>1. i \in {2 * hole, 2 * hole + 1} /\ i # hole /\ 2 * hole <= len /\ 2 * hole # hole
      BY <2>1, ChildrenOf
    <3>2. key[x] < key[q[EarlierChild(q, len, key, hole)]]
      BY <1>0, <3>1 DEF GoesDown
    <3>3. F[Parent(i)] = x /\ F[i] = q[i] /\ F[2 * hole] = q[2 * hole]
      BY <1>1, <2>1, <3>1
    <3>4. key[x] \in Nat /\ key[q[i]] \in Nat /\ key[q[2 * hole]] \in Nat
      BY <1>2, <3>1, <3>3
    <3>5. key[x] < key[q[i]]
      <4>1. CASE 2 * hole + 1 <= len /\ key[q[2 * hole + 1]] < key[q[2 * hole]]
        <5>1. key[x] < key[q[2 * hole + 1]]
          BY <1>0, <3>2, <4>1 DEF EarlierChild
        <5>2. F[2 * hole + 1] = q[2 * hole + 1] /\ key[q[2 * hole + 1]] \in Nat
          BY <1>1, <4>1
        <5>3. CASE i = 2 * hole
          <6> HIDE DEF F
          <6> QED BY <3>4, <4>1, <5>1, <5>2, <5>3
        <5>4. CASE i = 2 * hole + 1
          BY <5>1, <5>4
        <5> QED BY <3>1, <5>3, <5>4
      <4>2. CASE ~(2 * hole + 1 <= len /\ key[q[2 * hole + 1]] < key[q[2 * hole]])
        <5>1. key[x] < key[q[2 * hole]]
          BY <1>0, <3>2, <4>2 DEF EarlierChild
        <5>2. i = 2 * hole + 1 => /\ key[q[2 * hole + 1]] \in Nat
                                  /\ ~(key[q[2 * hole + 1]] < key[q[2 * hole]])
          BY <3>1, <3>4, <4>2
        <5>3. CASE i = 2 * hole
          BY <5>1, <5>3
        <5>4. CASE i = 2 * hole + 1
          <6>1. key[q[i]] \in Nat /\ ~(key[q[i]] < key[q[2 * hole]])
            BY <5>2, <5>4
          <6> HIDE DEF F
          <6> QED BY <3>4, <5>1, <6>1
        <5> QED BY <3>1, <5>3, <5>4
      <4> QED BY <4>1, <4>2
    <3> HIDE DEF F
    <3> QED BY <3>3, <3>4, <3>5
  <2>2. CASE Parent(i) # hole
    BY <2>2 DEF DownReady
  <2> QED BY <2>1, <2>2
<1> QED BY <1>3 DEF HeapOrdered

-----------------------------------------------------------------------------
(***************************************************************************)
(* Opening a hole.                                                         *)
(***************************************************************************)
\* Changing one entry of an ordered heap, or its key, leaves a hole that can
\* be filled: the hole's parent came before the hole's children.
LEMMA HoleOpens ==
  ASSUME NEW len \in Nat, NEW hole \in 1..len, NEW q, NEW key, NEW key2,
         HeapOrdered(q, len, key),
         \A i \in 1..len : key[q[i]] \in Nat,
         \A i \in 1..len : i # hole => key2[q[i]] = key[q[i]]
  PROVE  HoleReady(q, len, key2, hole)
<1>1. \A i \in 2..len : Parent(i) \in 1..len /\ Parent(i) # i
  BY ParentBelow
<1>2. \A i \in 2..len : key[q[Parent(i)]] <= key[q[i]]
  BY DEF HeapOrdered
<1>3. ASSUME NEW i \in 2..len, i # hole, Parent(i) # hole
      PROVE  key2[q[Parent(i)]] <= key2[q[i]]
  BY <1>1, <1>2, <1>3
<1>4. ASSUME hole > 1, NEW i \in 2..len, Parent(i) = hole
      PROVE  key2[q[Parent(hole)]] <= key2[q[i]]
  <2>1. Parent(hole) \in 1..len /\ Parent(hole) # hole /\ i # hole
    BY <1>1, <1>4
  <2>2. key[q[Parent(hole)]] <= key[q[hole]] /\ key[q[hole]] <= key[q[i]]
    BY <1>2, <1>4
  <2>3. key[q[Parent(hole)]] <= key[q[i]]
    BY <2>1, <2>2
  <2> QED BY <2>1, <2>3
<1> QED BY <1>3, <1>4 DEF HoleReady, Bridged

\* The test before percolating picks the direction whose loop invariant holds.
LEMMA HoleFills ==
  ASSUME NEW Size \in Nat, NEW S, NEW q \in [1..Size -> S],
         NEW len \in 0..Size, NEW hole \in 1..len, NEW x \in S, NEW key,
         \A i \in 1..len : key[Filled(q, hole, x)[i]] \in Nat,
         HoleReady(q, len, key, hole)
  PROVE  /\ SinksFrom(q, key, hole, x) =>
              DownReady(Filled(q, hole, x), len, key, hole)
         /\ ~SinksFrom(q, key, hole, x) =>
              UpReady(Filled(q, hole, x), len, key, hole)
<1> DEFINE F == Filled(q, hole, x)
<1>1. \A i \in 1..len : F[i] = IF i = hole THEN x ELSE q[i]
  BY DEF Filled
<1>2. \A i \in 2..len : Parent(i) \in 1..len /\ Parent(i) # i
  BY ParentBelow
<1>3. /\ \A i \in 2..len : i # hole /\ Parent(i) # hole =>
                             key[F[Parent(i)]] <= key[F[i]]
      /\ Bridged(F, len, key, hole)
  BY <1>1, <1>2 DEF HoleReady, Bridged
<1>4. key[x] \in Nat /\ (hole > 1 => key[F[Parent(hole)]] \in Nat
                                       /\ F[Parent(hole)] = q[Parent(hole)])
  BY <1>1, <1>2
<1>5. ASSUME SinksFrom(q, key, hole, x)
      PROVE  DownReady(F, len, key, hole)
  <2>1. hole > 1 => key[F[Parent(hole)]] <= key[F[hole]]
    BY <1>1, <1>4, <1>5 DEF SinksFrom, SSM_QUEUE_HEAD
  <2> QED BY <1>3, <2>1 DEF DownReady
<1>6. ASSUME ~SinksFrom(q, key, hole, x)
      PROVE  UpReady(F, len, key, hole)
  <2>1. hole > 1 /\ ~(key[F[Parent(hole)]] < key[x])
    BY <1>4, <1>6 DEF SinksFrom, SSM_QUEUE_HEAD
  <2>2. ASSUME NEW i \in 2..len, Parent(i) = hole
        PROVE  key[F[hole]] <= key[F[i]]
    <3>1. key[F[Parent(hole)]] <= key[F[i]]
      BY <1>3, <2>1, <2>2 DEF Bridged
    <3>2. key[F[i]] \in Nat /\ F[hole] = x
      BY <1>1
    <3> HIDE DEF F
    <3> QED BY <1>4, <2>1, <3>1, <3>2
  <2> HIDE DEF F
  <2>3. \A i \in 2..len : i # hole => key[F[Parent(i)]] <= key[F[i]]
    BY <1>3, <2>2
  <2> QED BY <1>3, <2>3 DEF UpReady
<1> QED BY <1>5, <1>6

\* A new last slot is a hole to percolate up from.
LEMMA LeafOpens ==
  ASSUME NEW Size \in Nat, NEW S, NEW q \in [1..Size -> S],
         NEW n \in Nat, n + 1 <= Size, NEW x \in S, NEW key, NEW key2,
         HeapOrdered(q, n, key),
         \A i \in 1..n : key2[q[i]] = key[q[i]]
  PROVE  UpReady(Filled(q, n + 1, x), n + 1, key2, n + 1)
<1> DEFINE F == Filled(q, n + 1, x)
<1>1. \A i \in 1..n : F[i] = q[i]
  BY DEF Filled
<1>2. \A i \in 2..(n + 1) : Parent(i) \in 1..n
  BY ParentBelow
<1>3. ASSUME NEW i \in 2..(n + 1), i # n + 1
      PROVE  key2[F[Parent(i)]] <= key2[F[i]]
  <2>1. i \in 2..n /\ i \in 1..n
    BY <1>3
  <2> QED BY <1>1, <1>2, <2>1 DEF HeapOrdered
<1>4. \A i \in 2..(n + 1) : Parent(i) # n + 1
  BY <1>2
<1> QED BY <1>3, <1>4 DEF UpReady, Bridged
=============================================================================
