---------------------------- MODULE MemoryProofs ----------------------------
(***************************************************************************)
(* The two halves of ssm-mem.c.                                            *)
(*                                                                         *)
(* MemPools: the pools implement Allocator, and every block of their pages *)
(* is live or in a free list, for any kinds, pools, pages and sizes.       *)
(*                                                                         *)
(* RefCount: the counts are the references and nothing freed is used, in   *)
(* the middle of calls too, for any number of objects and references, and  *)
(* calls implement Collector.  The names that both modules would have are  *)
(* prefixed with Ref in the second.                                        *)
(***************************************************************************)
EXTENDS MemPools, RefCount, Lemmas, FiniteSetTheorems, SequenceTheorems

-----------------------------------------------------------------------------
(***************************************************************************)
(* Sizes.                                                                  *)
(***************************************************************************)
\* Blocks have a size, it grows with the pool's number, and divides the page's.
LEMMA PoolSizes ==
  /\ \A p \in Pools : PoolSize(p) \in Nat \ {0}
  /\ \A p, q \in Pools : p <= q => PoolSize(p) <= PoolSize(q)
  /\ \A p \in Pools : /\ PageSize \div PoolSize(p) \in Nat \ {0}
                      /\ PageSize = (PageSize \div PoolSize(p)) * PoolSize(p)
<1> DEFINE top == Factor * PoolCount
<1>1. PoolCount \in Nat \ {0} /\ Factor \in Nat \ {0} /\ PageSize \in Nat \ {0}
  BY MemPoolsAssumption
<1>2. top \in Nat
  BY <1>1
<1>3. IsPowers(Pow2, top)
  <2>1. \E f : f = [n \in 0..top |-> IF n = 0 THEN 1 ELSE 2 * f[n - 1]]
    BY <1>2, PowersExist DEF IsPowers
  <2> QED BY <2>1, Zenon DEF Pow2, IsPowers
<1>4. ASSUME NEW p \in Pools PROVE Factor * p \in 0..top
  <2>1. p \in Nat /\ PoolCount - p \in Nat
    BY <1>1 DEF Pools
  <2>2. Factor * p >= 0 /\ Factor * (PoolCount - p) >= 0
    BY <1>1, <2>1
  <2>3. top = Factor * p + Factor * (PoolCount - p)
    BY <1>1, <2>1
  <2> QED BY <1>1, <1>2, <2>1, <2>2, <2>3
<1>5. ASSUME NEW p \in Pools PROVE PoolSize(p) \in Nat \ {0}
  BY <1>2, <1>3, <1>4, PowersOfTwo DEF PoolSize
<1>6. ASSUME NEW p \in Pools, NEW q \in Pools, p <= q
      PROVE  PoolSize(p) <= PoolSize(q)
  <2> DEFINE x == Factor * p
             y == Factor * q
  <2>1. x \in 0..top /\ y \in 0..top
    BY <1>4
  <2>2. x <= y
    <3>1. p \in Nat /\ q \in Nat /\ q - p \in Nat
      BY <1>1, <1>6 DEF Pools
    <3>2. Factor * (q - p) >= 0 /\ y = x + Factor * (q - p)
      BY <1>1, <3>1
    <3> QED BY <2>1, <3>1, <3>2, <1>1
  <2> DEFINE z == y - x
  <2>3. z \in 0..top /\ y \in x..top
    BY <1>2, <2>1, <2>2
  <2>4. Pow2[y] = Pow2[x] * Pow2[z]
    <3> HIDE DEF x, y, top
    <3> QED BY <1>2, <1>3, <2>1, <2>3, PowersMultiply
  <2>5. Pow2[x] \in Nat /\ Pow2[z] \in Nat \ {0}
    <3> HIDE DEF x, y, z, top
    <3> QED BY <1>2, <1>3, <2>1, <2>3, PowersOfTwo
  <2>6. ASSUME NEW i \in Nat, NEW j \in Nat \ {0} PROVE i <= i * j
    <3>1. i * (j - 1) >= 0 /\ i * j = i * (j - 1) + i
      OBVIOUS
    <3> QED BY <3>1
  <2> QED BY <2>4, <2>5, <2>6 DEF PoolSize
<1>7. ASSUME NEW p \in Pools
      PROVE  /\ PageSize \div PoolSize(p) \in Nat \ {0}
             /\ PageSize = (PageSize \div PoolSize(p)) * PoolSize(p)
  <2> DEFINE n == PoolSize(p)
  <2>1. n \in Nat \ {0} /\ PageSize % n = 0
    BY <1>5, MemPoolsAssumption DEF Pools
  <2> HIDE DEF n
  <2>2. PageSize \div n \in Int /\ PageSize = (PageSize \div n) * n
    BY <1>1, <2>1, Turns
  <2>3. ASSUME NEW q \in Int, PageSize = q * n, q <= 0 PROVE FALSE
    <3>1. (0 - q) * n >= 0 /\ q * n = 0 - ((0 - q) * n)
      BY <2>1, <2>3
    <3> QED BY <1>1, <2>1, <2>3, <3>1
  <2>4. PageSize \div n \in Nat \ {0}
    BY <2>2, <2>3
  <2> QED BY <2>2, <2>4 DEF n
<1> QED BY <1>5, <1>6, <1>7

\* find_pool_size finds a pool whose blocks are large enough, or that there is none.
LEMMA PoolFound ==
  ASSUME NEW size \in Nat
  PROVE  /\ FindPool(size) \in Pools \cup {PoolCount}
         /\ FindPool(size) \in Pools => size <= PoolSize(FindPool(size))
         /\ \A p \in Pools : size <= PoolSize(p) => FindPool(size) <= p
<1> DEFINE fits == {p \in Pools : size <= PoolSize(p)} \cup {PoolCount}
<1>1. PoolCount \in Nat \ {0}
  BY MemPoolsAssumption
<1>2. fits \in SUBSET Nat /\ fits # {}
  BY <1>1 DEF Pools
<1>3. \E m \in fits : \A y \in fits : m <= y
  BY <1>2, NatMin
<1>4. FindPool(size) \in fits /\ \A y \in fits : FindPool(size) <= y
  BY <1>3, Zenon DEF FindPool, Min
<1>5. PoolCount \notin Pools
  BY <1>1 DEF Pools
<1> QED BY <1>4, <1>5

-----------------------------------------------------------------------------
(***************************************************************************)
(* Free lists.                                                             *)
(***************************************************************************)
\* With these links, s is a list of n different blocks of p that begins at head.
IsList(links, head, p, n, s) ==
  /\ s[0] = head
  /\ s[n] = END_OF_FREELIST
  /\ \A i \in 0..(n - 1) : s[i] \in Units /\ s[i + 1] = NextBlock(links, s[i], p)
  /\ \A i, j \in 0..(n - 1) : s[i] = s[j] => i = j

\* The blocks of the list that begins at head are those of S.
Lists(links, head, p, S) ==
  \E n \in Nat : \E s :
    /\ IsList(links, head, p, n, s)
    /\ S = {s[i] : i \in 0..(n - 1)}

LEMMA ListBlocks ==
  ASSUME NEW links, NEW head, NEW p, NEW S, Lists(links, head, p, S)
  PROVE  /\ S \in SUBSET Units
         /\ head = END_OF_FREELIST <=> S = {}
         /\ head # END_OF_FREELIST => head \in S
<1>0. PICK n \in Nat : \E s : IsList(links, head, p, n, s) /\ S = {s[i] : i \in 0..(n - 1)}
  BY DEF Lists
<1>1. PICK s : IsList(links, head, p, n, s) /\ S = {s[i] : i \in 0..(n - 1)}
  BY <1>0
<1>2. END_OF_FREELIST \notin Units
  BY DEF END_OF_FREELIST, Units
<1>3. CASE n = 0
  BY <1>1, <1>3 DEF IsList
<1>4. CASE n # 0
  <2>1. 0 \in 0..(n - 1)
    BY <1>4
  <2> QED BY <1>1, <1>2, <2>1 DEF IsList
<1> QED BY <1>3, <1>4

\* Writes to other words leave a list as it is.
LEMMA ListKept ==
  ASSUME NEW links, NEW after, NEW head, NEW p, NEW S, Lists(links, head, p, S),
         \A b \in S : after[b] = links[b]
  PROVE  Lists(after, head, p, S)
<1>0. PICK n \in Nat : \E s : IsList(links, head, p, n, s) /\ S = {s[i] : i \in 0..(n - 1)}
  BY DEF Lists
<1>1. PICK s : IsList(links, head, p, n, s) /\ S = {s[i] : i \in 0..(n - 1)}
  BY <1>0
<1>2. IsList(after, head, p, n, s)
  BY <1>1 DEF IsList, NextBlock
<1> QED BY <1>1, <1>2 DEF Lists

\* Taking the first block.
LEMMA ListPops ==
  ASSUME NEW links, NEW head, NEW p, NEW S, Lists(links, head, p, S),
         head # END_OF_FREELIST
  PROVE  Lists(links, NextBlock(links, head, p), p, S \ {head})
<1>0. PICK n \in Nat : \E s : IsList(links, head, p, n, s) /\ S = {s[i] : i \in 0..(n - 1)}
  BY DEF Lists
<1>1. PICK s : IsList(links, head, p, n, s) /\ S = {s[i] : i \in 0..(n - 1)}
  BY <1>0
<1>2. n # 0
  BY <1>1 DEF IsList
<1> DEFINE t == [i \in 0..(n - 1) |-> s[i + 1]]
<1>3. n - 1 \in Nat /\ 0 \in 0..(n - 1)
  BY <1>2
<1>4. \A i \in 0..(n - 1) : t[i] = s[i + 1]
  OBVIOUS
<1>5. ASSUME NEW i \in 0..(n - 2)
      PROVE  i + 1 \in 0..(n - 1) /\ i \in 0..(n - 1) /\ t[i] = s[i + 1] /\ t[i + 1] = s[i + 2]
  BY <1>3
<1> HIDE DEF t
<1>6. IsList(links, NextBlock(links, head, p), p, n - 1, t)
  <2>1. t[0] = NextBlock(links, head, p) /\ t[n - 1] = END_OF_FREELIST
    BY <1>1, <1>3, <1>4 DEF IsList
  <2>2. \A i \in 0..(n - 2) : t[i] \in Units /\ t[i + 1] = NextBlock(links, t[i], p)
    BY <1>1, <1>5 DEF IsList
  <2>3. \A i, j \in 0..(n - 2) : t[i] = t[j] => i = j
    BY <1>1, <1>5 DEF IsList
  <2>4. (n - 1) - 1 = n - 2
    BY <1>3
  <2> QED BY <2>1, <2>2, <2>3, <2>4 DEF IsList
<1>7. S \ {head} = {t[i] : i \in 0..(n - 2)}
  <2>1. ASSUME NEW b \in S \ {head} PROVE \E i \in 0..(n - 2) : t[i] = b
    <3>1. PICK i \in 0..(n - 1) : s[i] = b
      BY <1>1
    <3>2. i # 0
      BY <1>1, <2>1, <3>1 DEF IsList
    <3>3. i - 1 \in 0..(n - 2) /\ (i - 1) + 1 = i
      BY <3>2
    <3> QED BY <1>5, <3>1, <3>3
  <2>2. ASSUME NEW i \in 0..(n - 2) PROVE t[i] \in S \ {head}
    <3>1. i + 1 # 0 /\ s[i + 1] \in S /\ t[i] = s[i + 1]
      BY <1>1, <1>5
    <3>2. s[i + 1] # s[0]
      BY <1>1, <1>3, <1>5, <3>1 DEF IsList
    <3> QED BY <1>1, <3>1, <3>2 DEF IsList
  <2> QED BY <2>1, <2>2
<1> QED BY <1>3, <1>6, <1>7 DEF Lists

\* A new first block, whose word is the link to the old one.
LEMMA ListPushes ==
  ASSUME NEW links, NEW after, NEW head, NEW p, NEW S, Lists(links, head, p, S),
         head \in Units \cup {END_OF_FREELIST},
         NEW b \in Units \ S, after[b] = head, \A c \in S : after[c] = links[c]
  PROVE  Lists(after, b, p, S \cup {b})
<1>0. PICK n \in Nat : \E s : IsList(links, head, p, n, s) /\ S = {s[i] : i \in 0..(n - 1)}
  BY DEF Lists
<1>1. PICK s : IsList(links, head, p, n, s) /\ S = {s[i] : i \in 0..(n - 1)}
  BY <1>0
<1> DEFINE t == [i \in 0..(n + 1) |-> IF i = 0 THEN b ELSE s[i - 1]]
<1>2. t[0] = b /\ t[n + 1] = END_OF_FREELIST /\ (n + 1) - 1 = n
  BY <1>1 DEF IsList
<1>3. ASSUME NEW i \in 1..n
      PROVE  i - 1 \in 0..(n - 1) /\ t[i] = s[i - 1] /\ t[i + 1] = s[i]
  OBVIOUS
<1>4. t[1] = head
  BY <1>1 DEF IsList
<1> HIDE DEF t
<1>5. NextBlock(after, b, p) = head
  BY DEF NextBlock, UNINITIALIZED_FREE_BLOCK, END_OF_FREELIST, Units
<1>6. ASSUME NEW i \in 0..n
      PROVE  t[i] \in Units /\ t[i + 1] = NextBlock(after, t[i], p)
  <2>1. CASE i = 0
    BY <1>2, <1>4, <1>5, <2>1
  <2>2. CASE i # 0
    <3>1. i \in 1..n
      BY <2>2
    <3>2. t[i] = s[i - 1] /\ t[i + 1] = s[i] /\ s[i - 1] \in S /\ (i - 1) + 1 = i
      BY <1>1, <1>3, <3>1
    <3>3. s[i - 1] \in Units /\ s[i] = NextBlock(links, s[i - 1], p)
      BY <1>1, <1>3, <3>1, <3>2 DEF IsList
    <3> QED BY <3>2, <3>3 DEF NextBlock
  <2> QED BY <2>1, <2>2
<1>7. ASSUME NEW i \in 0..n, NEW j \in 0..n, t[i] = t[j]
      PROVE  i = j
  <2>1. \A k \in 1..n : t[k] \in S /\ t[k] # b
    BY <1>1, <1>3
  <2>2. CASE i # 0 /\ j # 0
    <3>1. i \in 1..n /\ j \in 1..n
      BY <2>2
    <3>2. i - 1 = j - 1
      BY <1>1, <1>3, <1>7, <3>1 DEF IsList
    <3> QED BY <3>1, <3>2
  <2> QED BY <1>2, <1>7, <2>1, <2>2
<1>8. S \cup {b} = {t[i] : i \in 0..n}
  <2>1. ASSUME NEW c \in S PROVE \E i \in 0..n : t[i] = c
    <3>1. PICK i \in 0..(n - 1) : s[i] = c
      BY <1>1
    <3>2. i + 1 \in 1..n /\ i + 1 \in 0..n /\ (i + 1) - 1 = i
      OBVIOUS
    <3> QED BY <1>3, <3>1, <3>2
  <2>2. ASSUME NEW i \in 1..n PROVE t[i] \in S
    BY <1>1, <1>3
  <2>3. 0 \in 0..n /\ \A i \in 0..n : i = 0 \/ i \in 1..n
    OBVIOUS
  <2> QED BY <1>2, <2>1, <2>2, <2>3
<1>9. IsList(after, b, p, n + 1, t)
  BY <1>2, <1>6, <1>7 DEF IsList
<1>10. S \cup {b} = {t[i] : i \in 0..((n + 1) - 1)} /\ n + 1 \in Nat
  BY <1>2, <1>8
<1>11. \E u : /\ IsList(after, b, p, n + 1, u)
              /\ S \cup {b} = {u[i] : i \in 0..((n + 1) - 1)}
  BY <1>9, <1>10
<1> QED BY <1>10, <1>11, Zenon DEF Lists

\* The blocks of p that a page is divided into that begins after top.
PageBlocks(top, p) == {top + 1 + i * PoolSize(p) : i \in 0..(PageSize \div PoolSize(p) - 1)}

\* They do not overlap, and fill the page.
LEMMA BlocksOfPage ==
  ASSUME NEW top \in Nat, NEW p \in Pools
  PROVE  LET s  == PoolSize(p)
             k  == PageSize \div s
             at(i) == top + 1 + i * s
         IN  /\ \A i \in 0..(k - 1) : /\ at(i) \in Nat \ {0} /\ top < at(i)
                                      /\ at(i) + s <= top + PageSize + 1
                                      /\ at(i + 1) = at(i) + s
             /\ \A i, j \in 0..(k - 1) : i < j => at(i) + s <= at(j)
             /\ at(0) = top + 1
             /\ at(k - 1) = top + 1 + PageSize - s
<1> DEFINE s == PoolSize(p)
           k == PageSize \div s
<1>1. s \in Nat \ {0} /\ k \in Nat \ {0} /\ PageSize = k * s
  BY PoolSizes
<1> HIDE DEF s, k
<1>2. ASSUME NEW i \in 0..(k - 1)
      PROVE  /\ i * s \in Nat
             /\ i * s + s <= k * s
             /\ (i + 1) * s = i * s + s
  <2>1. (k - 1 - i) * s >= 0 /\ i * s >= 0 /\ i * s \in Int /\ (k - 1 - i) * s \in Int
    BY <1>1
  <2>2. k * s = (k - 1 - i) * s + i * s + s
    BY <1>1
  <2>3. (i + 1) * s = i * s + s
    BY <1>1
  <2> QED BY <1>1, <2>1, <2>2, <2>3
<1>3. ASSUME NEW i \in 0..(k - 1), NEW j \in 0..(k - 1), i < j
      PROVE  i * s + s <= j * s
  <2>1. (j - i - 1) * s >= 0 /\ (j - i - 1) * s \in Int
    BY <1>1, <1>3
  <2>2. j * s = (j - i - 1) * s + i * s + s
    BY <1>1
  <2> QED BY <1>1, <1>2, <2>1, <2>2
<1>4. 0 * s = 0 /\ (k - 1) * s = k * s - s
  BY <1>1
<1>5. k * s \in Nat
  BY <1>1
<1> QED BY <1>1, <1>2, <1>3, <1>4, <1>5 DEF s, k

\* A page of zeros, its last block linked to the old list.
LEMMA PagePushes ==
  ASSUME NEW links, NEW after, NEW head, NEW p \in Pools, NEW S, Lists(links, head, p, S),
         head \in Units \cup {END_OF_FREELIST},
         NEW top \in Nat, top + PageSize <= MaxPages * PageSize,
         \A b \in S : b <= top,
         \A u \in (top + 1)..(top + PageSize) : links[u] = UNINITIALIZED_FREE_BLOCK,
         NEW last, last = top + 1 + PageSize - PoolSize(p),
         after[last] = head, \A u \in Units \ {last} : after[u] = links[u]
  PROVE  Lists(after, top + 1, p, S \cup PageBlocks(top, p))
<1>0. PICK n \in Nat : \E s : IsList(links, head, p, n, s) /\ S = {s[i] : i \in 0..(n - 1)}
  BY DEF Lists
<1>1. PICK s : IsList(links, head, p, n, s) /\ S = {s[i] : i \in 0..(n - 1)}
  BY <1>0
<1> DEFINE size == PoolSize(p)
           k == PageSize \div size
           at(i) == top + 1 + i * size
           t == [i \in 0..(n + k) |-> IF i < k THEN at(i) ELSE s[i - k]]
<1>2. size \in Nat \ {0} /\ k \in Nat \ {0} /\ PageSize \in Nat \ {0} /\ MaxPages \in Nat
  BY PoolSizes, MemPoolsAssumption
<1>3. /\ \A i \in 0..(k - 1) : /\ at(i) \in Nat \ {0} /\ top < at(i)
                               /\ at(i) + size <= top + PageSize + 1
                               /\ at(i + 1) = at(i) + size
      /\ \A i, j \in 0..(k - 1) : i < j => at(i) + size <= at(j)
      /\ at(0) = top + 1
      /\ at(k - 1) = last
  BY BlocksOfPage
<1>4. PageBlocks(top, p) = {at(i) : i \in 0..(k - 1)}
  BY DEF PageBlocks
<1> HIDE DEF size, at
<1>5. ASSUME NEW i \in 0..(k - 1) PROVE i \in 0..(n + k) /\ i < k /\ t[i] = at(i)
  BY <1>2
<1>6. ASSUME NEW i \in k..(n + k) PROVE i \in 0..(n + k) /\ i - k \in 0..n /\ t[i] = s[i - k]
  BY <1>2
<1>7. t[0] = top + 1
  BY <1>2, <1>3, <1>5
<1>8. t[n + k] = END_OF_FREELIST
  <2>1. n + k \in k..(n + k) /\ (n + k) - k = n
    BY <1>2
  <2> QED BY <1>1, <1>6, <2>1 DEF IsList
<1>9. t[k] = head
  <2>1. k \in k..(n + k) /\ k - k = 0
    BY <1>2
  <2> QED BY <1>1, <1>6, <2>1 DEF IsList
<1> HIDE DEF t, k
<1>10. ASSUME NEW i \in 0..(k - 1)
       PROVE  /\ at(i) \in Units /\ at(i) \in (top + 1)..(top + PageSize)
              /\ t[i + 1] = NextBlock(after, at(i), p)
  <2>1. at(i) \in Nat /\ top < at(i) /\ at(i) + size <= top + PageSize + 1
    BY <1>3
  <2>2. at(i) \in (top + 1)..(top + PageSize)
    BY <1>2, <2>1
  <2>3. at(i) \in Units
    <3> DEFINE m == MaxPages * PageSize
    <3>1. m \in Nat
      BY <1>2
    <3> HIDE DEF m
    <3>2. top + PageSize <= m
      BY DEF m
    <3>3. at(i) \in 1..m
      BY <1>2, <2>2, <3>1, <3>2
    <3> QED BY <3>3 DEF Units, m
  <2>4. CASE i = k - 1
    <3>1. i + 1 = k /\ at(i) = last
      BY <1>2, <1>3, <2>4
    <3> QED BY <1>9, <2>2, <2>3, <3>1
            DEF NextBlock, UNINITIALIZED_FREE_BLOCK, END_OF_FREELIST, Units
  <2>5. CASE i # k - 1
    <3>1. i + 1 \in 0..(k - 1) /\ i < k - 1 /\ k - 1 \in 0..(k - 1)
      BY <1>2, <2>5
    <3>2. at(i) + size <= at(k - 1)
      BY <1>3, <3>1
    <3>3. at(i) # last
      BY <1>2, <1>3, <2>1, <3>1, <3>2
    <3>4. after[at(i)] = UNINITIALIZED_FREE_BLOCK
      BY <2>2, <2>3, <3>3
    <3>5. t[i + 1] = at(i) + size
      BY <1>3, <1>5, <3>1
    <3> QED BY <2>2, <2>3, <3>4, <3>5 DEF NextBlock, size
  <2> QED BY <2>2, <2>3, <2>4, <2>5
<1>11. ASSUME NEW i \in k..(n + k - 1)
       PROVE  /\ i - k \in 0..(n - 1) /\ t[i] = s[i - k] /\ t[i] \in S /\ t[i] \in Units
              /\ t[i + 1] = NextBlock(after, t[i], p)
  <2>1. /\ i \in k..(n + k) /\ i + 1 \in k..(n + k) /\ i - k \in 0..(n - 1)
        /\ (i + 1) - k = (i - k) + 1
    BY <1>2
  <2>2. t[i] = s[i - k] /\ t[i + 1] = s[(i - k) + 1]
    BY <1>6, <2>1
  <2>3. t[i] \in S /\ t[i] \in Units /\ t[i + 1] = NextBlock(links, t[i], p)
    BY <1>1, <2>1, <2>2 DEF IsList
  <2>4. t[i] <= top /\ t[i] # last
    <3>1. top < last /\ last \in Nat
      BY <1>2, <1>3
    <3>2. t[i] <= top /\ t[i] \in Nat
      BY <2>3, <1>2 DEF Units
    <3> QED BY <3>1, <3>2
  <2> QED BY <2>1, <2>2, <2>3, <2>4 DEF NextBlock
<1>12. \A i \in 0..(n + k - 1) : i \in 0..(k - 1) \/ i \in k..(n + k - 1)
  BY <1>2
<1>13. \A i \in 0..(n + k - 1) : t[i] \in Units /\ t[i + 1] = NextBlock(after, t[i], p)
  BY <1>5, <1>10, <1>11, <1>12
<1>14. ASSUME NEW i \in 0..(n + k - 1), NEW j \in 0..(n + k - 1), t[i] = t[j]
       PROVE  i = j
  <2>1. CASE i \in 0..(k - 1) /\ j \in 0..(k - 1)
    <3>1. at(i) = at(j)
      BY <1>5, <1>14, <2>1
    <3>2. ~(at(i) + size <= at(j)) /\ ~(at(j) + size <= at(i))
      BY <1>2, <1>3, <2>1, <3>1
    <3>3. ~(i < j) /\ ~(j < i)
      BY <1>3, <2>1, <3>2
    <3> QED BY <1>2, <2>1, <3>3
  <2>2. \A x \in 0..(k - 1), y \in k..(n + k - 1) : t[x] # t[y]
    <3>1. ASSUME NEW x \in 0..(k - 1), NEW y \in k..(n + k - 1), t[x] = t[y] PROVE FALSE
      <4>1. top < t[x] /\ t[x] \in Nat
        BY <1>3, <1>5
      <4>2. t[y] <= top
        BY <1>11
      <4> QED BY <3>1, <4>1, <4>2
    <3> QED BY <3>1
  <2>3. CASE i \in k..(n + k - 1) /\ j \in k..(n + k - 1)
    <3>1. i - k = j - k
      BY <1>1, <1>11, <1>14, <2>3 DEF IsList
    <3> QED BY <1>2, <2>3, <3>1
  <2> QED BY <1>12, <1>14, <2>1, <2>2, <2>3
<1>15. S \cup PageBlocks(top, p) = {t[i] : i \in 0..(n + k - 1)}
  <2>1. ASSUME NEW b \in S PROVE \E i \in 0..(n + k - 1) : t[i] = b
    <3>1. PICK i \in 0..(n - 1) : s[i] = b
      BY <1>1
    <3>2. i + k \in k..(n + k) /\ i + k \in 0..(n + k - 1) /\ (i + k) - k = i
      BY <1>2
    <3> QED BY <1>6, <3>1, <3>2
  <2>2. \A i \in 0..(k - 1) : i \in 0..(n + k - 1)
    BY <1>2
  <2> QED BY <1>4, <1>5, <1>11, <1>12, <2>1, <2>2
<1>16. n + k \in Nat /\ (n + k) - 1 = n + k - 1
  BY <1>2
<1>17. IsList(after, top + 1, p, n + k, t)
  BY <1>7, <1>8, <1>13, <1>14, <1>16 DEF IsList
<1> QED BY <1>15, <1>16, <1>17 DEF Lists

-----------------------------------------------------------------------------
(***************************************************************************)
(* Pieces of memory: the free blocks F[p] of each pool and those of the    *)
(* live objects L, in pages that end at top.  An object that has a block   *)
(* keeps all of it, as it may be freed into any smaller pool.              *)
(***************************************************************************)
InPool(k) == FindPool(AllocSize[k]) \in Pools

Extent(k) == IF InPool(k) THEN PoolSize(FindPool(AllocSize[k])) ELSE AllocSize[k]

Clear(a, m, b, n) == a + m <= b \/ b + n <= a

FreeInPages(F, top) ==
  \A p \in Pools : \A b \in F[p] : b \in Units /\ b + PoolSize(p) <= top + 1

LiveInPages(L, top) ==
  \A o \in L : IF InPool(o.kind) THEN o.at \in Units /\ o.at + Extent(o.kind) <= top + 1
                                 ELSE o.at \in Large

FreeClear(F) ==
  \A p, q \in Pools : \A b \in F[p], c \in F[q] :
    (p = q /\ b = c) \/ Clear(b, PoolSize(p), c, PoolSize(q))

LiveClear(L) ==
  \A o, q \in L : o = q \/ Clear(o.at, Extent(o.kind), q.at, Extent(q.kind))

FreeClearOfLive(F, L) ==
  \A o \in L, p \in Pools : \A b \in F[p] : Clear(o.at, Extent(o.kind), b, PoolSize(p))

Pieces(F, L, top) ==
  /\ F \in [Pools -> SUBSET Units]
  /\ L \subseteq [at : Units \cup Large, kind : Kinds]
  /\ FreeInPages(F, top) /\ LiveInPages(L, top)
  /\ FreeClear(F) /\ LiveClear(L) /\ FreeClearOfLive(F, L)

\* Sizes of objects and of what they hold.
LEMMA Extents ==
  ASSUME NEW k \in Kinds
  PROVE  /\ AllocSize[k] \in 1..LargeSize /\ AllocSize[k] <= Extent(k) /\ Extent(k) \in Nat \ {0}
         /\ FindPool(AllocSize[k]) \in Pools \cup {PoolCount}
         /\ ~InPool(k) => Extent(k) <= LargeSize /\ FindPool(FreeSize[k]) \notin Pools
         /\ FindPool(FreeSize[k]) \in Pools =>
              /\ InPool(k)
              /\ FindPool(FreeSize[k]) <= FindPool(AllocSize[k])
              /\ PoolSize(FindPool(FreeSize[k])) <= Extent(k)
         /\ FindPool(FreeSize[k]) = PoolCount => ~InPool(k)
<1>1. /\ AllocSize[k] \in 1..LargeSize /\ FreeSize[k] \in 1..LargeSize
      /\ LargeSize \in Nat /\ FreeSize[k] <= AllocSize[k] /\ PoolCount \in Nat \ {0}
      /\ AllocSize[k] > PoolSize(PoolCount - 1) => FreeSize[k] > PoolSize(PoolCount - 1)
  BY MemPoolsAssumption
<1> DEFINE p == FindPool(AllocSize[k])
           q == FindPool(FreeSize[k])
<1>2. /\ p \in Pools \cup {PoolCount}
      /\ p \in Pools => AllocSize[k] <= PoolSize(p)
      /\ \A r \in Pools : AllocSize[k] <= PoolSize(r) => p <= r
      /\ q \in Pools \cup {PoolCount}
      /\ q \in Pools => FreeSize[k] <= PoolSize(q)
      /\ \A r \in Pools : FreeSize[k] <= PoolSize(r) => q <= r
  BY <1>1, PoolFound
<1> HIDE DEF p, q
<1>3. PoolCount - 1 \in Pools /\ PoolCount \notin Pools /\ Pools \subseteq Nat
  BY <1>1 DEF Pools
<1>4. \A r \in Pools : PoolSize(r) \in Nat \ {0} /\ PoolSize(r) <= PoolSize(PoolCount - 1)
  BY <1>1, <1>3, PoolSizes DEF Pools
<1>5. p \notin Pools => q \notin Pools
  <2>1. p \notin Pools => AllocSize[k] > PoolSize(PoolCount - 1)
    BY <1>1, <1>2, <1>3, <1>4 DEF Pools
  <2>2. q \in Pools => FreeSize[k] <= PoolSize(PoolCount - 1)
    <3>1. SUFFICES ASSUME q \in Pools
                   PROVE  FreeSize[k] <= PoolSize(PoolCount - 1)
      OBVIOUS
    <3> DEFINE s == PoolSize(q)
               l == PoolSize(PoolCount - 1)
               f == FreeSize[k]
    <3>2. f \in Nat
      <4>1. FreeSize[k] \in 1..LargeSize /\ LargeSize \in Nat
        BY <1>1
      <4> QED BY ONLY <4>1
    <3>3. s \in Nat /\ l \in Nat /\ s <= l
      BY ONLY <1>3, <1>4, <3>1
    <3>4. f <= s
      BY ONLY <1>2, <3>1
    <3>5. f <= l
      <4> HIDE DEF s, l, f
      <4> QED BY ONLY <3>2, <3>3, <3>4
    <3> QED BY <3>5
  <2> QED BY <1>1, <1>3, <1>4, <2>1, <2>2
<1>6. p \in Pools => q <= p
  BY <1>1, <1>2, <1>4
<1>7. q \in Pools => p \in Pools /\ q <= p /\ PoolSize(q) <= PoolSize(p)
  BY <1>5, <1>6, PoolSizes
<1>8. /\ InPool(k) <=> p \in Pools
      /\ Extent(k) = IF p \in Pools THEN PoolSize(p) ELSE AllocSize[k]
  BY DEF Extent, InPool, p
<1>9. Extent(k) \in Nat \ {0} /\ AllocSize[k] <= Extent(k)
  BY <1>1, <1>2, <1>4, <1>8
<1>10. q = PoolCount => p \notin Pools
  BY <1>1, <1>6 DEF Pools
<1> QED BY <1>1, <1>2, <1>5, <1>7, <1>8, <1>9, <1>10 DEF p, q

\* What alloc_mem returns lies beyond the pages, and clear of what else it returned.
LEMMA LargeClear ==
  /\ \A a \in Large : a \in Nat /\ MaxPages * PageSize + 1 <= a
  /\ \A a, b \in Large : a # b => a + LargeSize <= b \/ b + LargeSize <= a
  /\ Large \cap Units = {}
<1> DEFINE m == MaxPages * PageSize
<1>1. m \in Nat /\ LargeSize \in Nat /\ MaxLive \in Nat
  <2>1. MaxPages \in Nat /\ PageSize \in Nat
    BY MemPoolsAssumption
  <2> QED BY <2>1, MemPoolsAssumption
<1> HIDE DEF m
<1>2. Large = {m + 1 + i * LargeSize : i \in 0..MaxLive} /\ Units = 1..m
  BY DEF m, Large, Units
<1>3. ASSUME NEW i \in Nat PROVE i * LargeSize \in Nat
  BY <1>1
<1>4. ASSUME NEW i \in Nat, NEW j \in Nat, i < j
      PROVE  i * LargeSize + LargeSize <= j * LargeSize
  <2>1. (j - i - 1) * LargeSize >= 0 /\ (j - i - 1) * LargeSize \in Int
    BY <1>1, <1>4
  <2>2. j * LargeSize = (j - i - 1) * LargeSize + i * LargeSize + LargeSize
    BY <1>1
  <2> QED BY <1>1, <1>3, <2>1, <2>2
<1>5. \A a \in Large : a \in Nat /\ m + 1 <= a
  BY <1>1, <1>2, <1>3
<1>6. \A a, b \in Large : a # b => a + LargeSize <= b \/ b + LargeSize <= a
  <2> SUFFICES ASSUME NEW a \in Large, NEW b \in Large, a # b
               PROVE  a + LargeSize <= b \/ b + LargeSize <= a
    OBVIOUS
  <2>1. PICK i \in 0..MaxLive, j \in 0..MaxLive :
          a = m + 1 + i * LargeSize /\ b = m + 1 + j * LargeSize
    BY <1>2
  <2>2. i \in Nat /\ j \in Nat /\ (i < j \/ j < i)
    BY <1>1, <2>1
  <2> QED BY <1>1, <1>3, <1>4, <2>1, <2>2
<1>7. Large \cap Units = {}
  BY <1>1, <1>2, <1>5
<1> QED BY <1>5, <1>6, <1>7 DEF m

\* A new page is clear of everything, and so are its blocks of each other.
LEMMA PageAdds ==
  ASSUME NEW F, NEW L, NEW top \in Nat, Pieces(F, L, top), NEW p \in Pools,
         top + PageSize <= MaxPages * PageSize,
         NEW G, G = [F EXCEPT ![p] = @ \cup PageBlocks(top, p)]
  PROVE  Pieces(G, L, top + PageSize)
<1> DEFINE new == PageBlocks(top, p)
           size == PoolSize(p)
           m == MaxPages * PageSize
<1>1. PageSize \in Nat \ {0} /\ m \in Nat /\ size \in Nat \ {0} /\ top + PageSize <= m
  <2>1. PageSize \in Nat \ {0} /\ MaxPages \in Nat
    BY MemPoolsAssumption
  <2> QED BY <2>1, PoolSizes
<1> HIDE DEF m, size
<1>2. Units = 1..m
  BY DEF Units, m
<1>3. \A b \in new : b \in Units /\ top + 1 <= b /\ b + size <= top + PageSize + 1
  <2> SUFFICES ASSUME NEW b \in new
               PROVE  b \in Units /\ top + 1 <= b /\ b + size <= top + PageSize + 1
    OBVIOUS
  <2>1. /\ b \in Nat \ {0} /\ top < b
        /\ b + size <= top + PageSize + 1
    BY BlocksOfPage DEF PageBlocks, size
  <2> QED BY <1>1, <1>2, <2>1
<1>4. \A b, c \in new : b = c \/ Clear(b, size, c, size)
  <2> SUFFICES ASSUME NEW b \in new, NEW c \in new, b # c
               PROVE  Clear(b, size, c, size)
    OBVIOUS
  <2> DEFINE at(i) == top + 1 + i * PoolSize(p)
             k == PageSize \div PoolSize(p)
  <2>1. PICK i \in 0..(k - 1), j \in 0..(k - 1) : b = at(i) /\ c = at(j)
    BY DEF PageBlocks
  <2>2. i < j \/ j < i
    BY <2>1, PoolSizes
  <2> HIDE DEF k
  <2>3. \A x, y \in 0..(k - 1) : x < y => at(x) + size <= at(y)
    BY BlocksOfPage DEF k, size
  <2> QED BY <2>1, <2>2, <2>3 DEF Clear
<1> HIDE DEF new
<1>5. F \in [Pools -> SUBSET Units] /\ G = [F EXCEPT ![p] = @ \cup new]
  BY DEF Pieces, new
<1>6. G \in [Pools -> SUBSET Units]
  BY <1>3, <1>5
<1>7. \A q \in Pools : \A b \in G[q] :
        \/ b \in F[q] /\ b \in Units /\ b + PoolSize(q) <= top + 1
        \/ q = p /\ b \in new
  BY <1>5 DEF Pieces, FreeInPages
<1>8. \A q \in Pools : PoolSize(q) \in Nat \ {0}
  BY PoolSizes
<1>9. FreeInPages(G, top + PageSize)
  BY <1>1, <1>2, <1>3, <1>7, <1>8 DEF FreeInPages, size
<1>10. L \subseteq [at : Units \cup Large, kind : Kinds]
  BY DEF Pieces
<1>11. \A o \in L : Extent(o.kind) \in Nat \ {0}
  BY <1>10, Extents
<1>12. LiveInPages(L, top + PageSize)
  BY <1>1, <1>2, <1>11 DEF Pieces, LiveInPages
<1>13. FreeClear(G)
  <2> SUFFICES ASSUME NEW q \in Pools, NEW r \in Pools, NEW b \in G[q], NEW c \in G[r]
               PROVE  (q = r /\ b = c) \/ Clear(b, PoolSize(q), c, PoolSize(r))
    BY DEF FreeClear
  <2>1. CASE b \in F[q] /\ c \in F[r]
    BY <2>1 DEF Pieces, FreeClear
  <2>2. CASE q = p /\ b \in new /\ r = p /\ c \in new
    BY <1>4, <2>2 DEF size
  <2>3. CASE b \in F[q] /\ b + PoolSize(q) <= top + 1 /\ r = p /\ c \in new
    BY <1>1, <1>2, <1>3, <1>7, <1>8, <2>3 DEF Clear
  <2>4. CASE q = p /\ b \in new /\ c \in F[r] /\ c + PoolSize(r) <= top + 1
    BY <1>1, <1>2, <1>3, <1>7, <1>8, <2>4 DEF Clear
  <2> QED BY <1>7, <2>1, <2>2, <2>3, <2>4
<1>14. FreeClearOfLive(G, L)
  <2> SUFFICES ASSUME NEW o \in L, NEW q \in Pools, NEW b \in G[q]
               PROVE  Clear(o.at, Extent(o.kind), b, PoolSize(q))
    BY DEF FreeClearOfLive
  <2>1. CASE b \in F[q]
    BY <2>1 DEF Pieces, FreeClearOfLive
  <2>2. CASE q = p /\ b \in new /\ InPool(o.kind)
    BY <1>1, <1>2, <1>3, <1>11, <2>2 DEF Pieces, LiveInPages, Clear
  <2>3. CASE q = p /\ b \in new /\ ~InPool(o.kind)
    <3>1. o.at \in Nat /\ m + 1 <= o.at
      BY <2>3, LargeClear DEF Pieces, LiveInPages, m
    <3>2. b \in Nat /\ b + size <= m + 1
      BY <1>1, <1>2, <1>3, <2>3
    <3> QED BY <1>1, <2>3, <3>1, <3>2 DEF Clear, size
  <2> QED BY <1>7, <2>1, <2>2, <2>3
<1> QED BY <1>6, <1>9, <1>10, <1>12, <1>13, <1>14 DEF Pieces

\* A free block that is handed out is clear of all others.
LEMMA BlockGiven ==
  ASSUME NEW F, NEW L, NEW top \in Nat, Pieces(F, L, top),
         NEW k \in Kinds, NEW p \in Pools, p = FindPool(AllocSize[k]), NEW b \in F[p],
         NEW o, o = [at |-> b, kind |-> k],
         NEW G, G = [F EXCEPT ![p] = @ \ {b}]
  PROVE  Pieces(G, L \cup {o}, top)
<1>1. F \in [Pools -> SUBSET Units] /\ L \subseteq [at : Units \cup Large, kind : Kinds]
  BY DEF Pieces
<1>2. o.at = b /\ o.kind = k /\ InPool(k) /\ Extent(k) = PoolSize(p)
  BY DEF InPool, Extent
<1>3. G \in [Pools -> SUBSET Units] /\ L \cup {o} \subseteq [at : Units \cup Large, kind : Kinds]
  BY <1>1
<1>4. \A q \in Pools : \A c \in G[q] : c \in F[q] /\ ~(q = p /\ c = b)
  BY <1>1
<1>5. FreeInPages(G, top) /\ LiveInPages(L \cup {o}, top)
  BY <1>2, <1>4 DEF Pieces, FreeInPages, LiveInPages
<1>6. FreeClear(G)
  BY <1>4 DEF Pieces, FreeClear
<1>7. \A q \in L : Clear(q.at, Extent(q.kind), b, PoolSize(p))
  BY DEF Pieces, FreeClearOfLive
<1>8. LiveClear(L \cup {o})
  BY <1>2, <1>7 DEF Pieces, LiveClear, Clear
<1>9. FreeClearOfLive(G, L \cup {o})
  BY <1>2, <1>4 DEF Pieces, FreeClearOfLive, FreeClear
<1> QED BY <1>3, <1>5, <1>6, <1>8, <1>9 DEF Pieces

\* So is what alloc_mem returns.
LEMMA LargeGiven ==
  ASSUME NEW F, NEW L, NEW top \in Nat, Pieces(F, L, top), top <= MaxPages * PageSize,
         NEW k \in Kinds, ~InPool(k), NEW b \in Large \ {q.at : q \in L},
         NEW o, o = [at |-> b, kind |-> k]
  PROVE  Pieces(F, L \cup {o}, top)
<1> DEFINE m == MaxPages * PageSize
<1>1. F \in [Pools -> SUBSET Units] /\ L \subseteq [at : Units \cup Large, kind : Kinds]
  BY DEF Pieces
<1>2. o.at = b /\ o.kind = k
  OBVIOUS
<1>3. m \in Nat /\ LargeSize \in Nat /\ top <= m
  <2>1. MaxPages \in Nat /\ PageSize \in Nat
    BY MemPoolsAssumption
  <2> QED BY <2>1, MemPoolsAssumption
<1> HIDE DEF m
<1>4. b \in Nat /\ m + 1 <= b
  BY LargeClear DEF m
<1>5. Extent(k) \in 1..LargeSize
  BY <1>3, Extents
<1>6. Units = 1..m
  BY DEF Units, m
<1>7. LiveInPages(L \cup {o}, top)
  BY <1>2 DEF Pieces, LiveInPages
<1>8. ASSUME NEW q \in L PROVE Clear(q.at, Extent(q.kind), b, Extent(k))
  <2>1. q.at # b /\ Extent(q.kind) \in Nat \ {0}
    BY <1>1, Extents
  <2>2. CASE InPool(q.kind)
    <3>1. q.at \in Units /\ q.at + Extent(q.kind) <= top + 1
      BY <2>2 DEF Pieces, LiveInPages
    <3> QED BY <1>3, <1>4, <1>6, <2>1, <3>1 DEF Clear
  <2>3. CASE ~InPool(q.kind)
    <3>1. q.at \in Large /\ Extent(q.kind) \in 1..LargeSize
      BY <1>1, <1>3, <2>1, <2>3, Extents DEF Pieces, LiveInPages
    <3>2. q.at + LargeSize <= b \/ b + LargeSize <= q.at
      BY <2>1, <3>1, LargeClear
    <3>3. q.at \in Nat
      BY <3>1, LargeClear
    <3> QED BY <1>3, <1>4, <1>5, <3>1, <3>2, <3>3 DEF Clear
  <2> QED BY <2>2, <2>3
<1>9. LiveClear(L \cup {o})
  BY <1>2, <1>8 DEF Pieces, LiveClear, Clear
<1>10. ASSUME NEW p \in Pools, NEW c \in F[p] PROVE Clear(b, Extent(k), c, PoolSize(p))
  <2>1. c \in Units /\ c + PoolSize(p) <= top + 1
    BY DEF Pieces, FreeInPages
  <2>2. PoolSize(p) \in Nat
    BY PoolSizes
  <2> QED BY <1>3, <1>4, <1>6, <2>1, <2>2 DEF Clear
<1>11. FreeClearOfLive(F, L \cup {o})
  BY <1>2, <1>10 DEF Pieces, FreeClearOfLive
<1>12. L \cup {o} \subseteq [at : Units \cup Large, kind : Kinds]
  BY <1>1
<1> QED BY <1>7, <1>9, <1>11, <1>12 DEF Pieces

\* What is freed is clear of all other blocks, in a pool of smaller blocks too.
LEMMA BlockBack ==
  ASSUME NEW F, NEW L, NEW top \in Nat, Pieces(F, L, top),
         NEW o \in L, NEW p \in Pools, p = FindPool(FreeSize[o.kind]),
         NEW G, G = [F EXCEPT ![p] = @ \cup {o.at}]
  PROVE  Pieces(G, L \ {o}, top) /\ o.at \in Units \ F[p]
<1>1. F \in [Pools -> SUBSET Units] /\ L \subseteq [at : Units \cup Large, kind : Kinds]
  BY DEF Pieces
<1>2. o.kind \in Kinds
  BY <1>1
<1> DEFINE e == Extent(o.kind)
           n == PoolSize(p)
<1>3. InPool(o.kind) /\ e \in Nat /\ n \in Nat \ {0} /\ n <= e
  BY <1>2, Extents, PoolSizes
<1>4. o.at \in Units /\ o.at + e <= top + 1
  BY <1>3 DEF Pieces, LiveInPages
<1>5. Units \subseteq Int /\ \A q \in Pools : PoolSize(q) \in Nat \ {0}
  BY PoolSizes DEF Units
<1> HIDE DEF e, n
<1>6. \A q \in Pools : \A c \in F[q] : Clear(o.at, n, c, PoolSize(q))
  <2> SUFFICES ASSUME NEW q \in Pools, NEW c \in F[q]
               PROVE  Clear(o.at, n, c, PoolSize(q))
    OBVIOUS
  <2>1. Clear(o.at, e, c, PoolSize(q))
    BY DEF Pieces, FreeClearOfLive, e
  <2>2. c \in Int /\ PoolSize(q) \in Int
    BY <1>1, <1>5
  <2> QED BY <1>3, <1>4, <1>5, <2>1, <2>2 DEF Clear
<1>7. o.at \notin F[p]
  <2>1. ~Clear(o.at, n, o.at, n)
    BY <1>3, <1>4, <1>5 DEF Clear
  <2> QED BY <1>6, <2>1 DEF n
<1>8. ASSUME NEW q \in L, q # o PROVE Clear(q.at, Extent(q.kind), o.at, n)
  <2>1. Clear(q.at, Extent(q.kind), o.at, e)
    BY <1>8 DEF Pieces, LiveClear, e
  <2>2. q.at \in Units \cup Large /\ q.kind \in Kinds
    BY <1>1
  <2>3. q.at \in Int
    BY <1>5, <2>2, LargeClear
  <2>4. Extent(q.kind) \in Int
    BY <2>2, Extents
  <2> QED BY <2>3, <2>4, <1>3, <1>4, <1>5, <2>1, <2>2 DEF Clear
<1>9. G \in [Pools -> SUBSET Units]
  BY <1>1, <1>4
<1>10. \A q \in Pools : \A c \in G[q] : c \in F[q] \/ (q = p /\ c = o.at)
  BY <1>1
<1>11. FreeInPages(G, top)
  <2>1. o.at + n <= top + 1
    BY <1>3, <1>4, <1>5
  <2> QED BY <1>4, <1>10, <2>1 DEF Pieces, FreeInPages, n
<1>12. LiveInPages(L \ {o}, top) /\ LiveClear(L \ {o})
  BY DEF Pieces, LiveInPages, LiveClear
<1>13. FreeClear(G)
  BY <1>6, <1>10 DEF Pieces, FreeClear, Clear, n
<1>14. FreeClearOfLive(G, L \ {o})
  BY <1>8, <1>10 DEF Pieces, FreeClearOfLive, n
<1>15. L \ {o} \subseteq [at : Units \cup Large, kind : Kinds]
  BY <1>1
<1> QED BY <1>4, <1>7, <1>9, <1>11, <1>12, <1>13, <1>14, <1>15 DEF Pieces

-----------------------------------------------------------------------------
(***************************************************************************)
(* The inductive invariant.                                                *)
(***************************************************************************)
Top == allocated_pages * PageSize

\* Blocks do not get lost, and change their pool for one of smaller blocks only.
Owned(F, L, B) ==
  /\ \A p \in Pools : \A b \in F[p] : \E q \in p..(PoolCount - 1) : b \in B[q]
  /\ \A o \in L : InPool(o.kind) =>
       \E q \in FindPool(AllocSize[o.kind])..(PoolCount - 1) : o.at \in B[q]
  /\ \A p \in Pools : \A b \in B[p] :
       \/ \E q \in Pools : b \in F[q]
       \/ \E o \in L : InPool(o.kind) /\ o.at = b

PoolBlocks == [p \in Pools |-> Blocks(p)]

Sound(F) ==
  /\ Pieces(F, live, Top)
  /\ \A p \in Pools : Lists(next, free_list_head[p], p, F[p])
  /\ Owned(F, live, PoolBlocks)

\* Pages that have not been taken are zero, and belong to no pool.
Fresh ==
  /\ \A u \in Units : u > Top => next[u] = UNINITIALIZED_FREE_BLOCK
  /\ \A n \in 1..MaxPages : page_pool[n] \in Pools <=> n <= allocated_pages

IInv == TypeOK /\ Fresh /\ \E F : Sound(F)

-----------------------------------------------------------------------------
(***************************************************************************)
(* Pages.                                                                  *)
(***************************************************************************)
LEMMA Numbers ==
  ASSUME TypeOK
  PROVE  /\ PageSize \in Nat \ {0} /\ MaxPages \in Nat /\ PoolCount \in Nat \ {0}
         /\ allocated_pages \in Nat /\ Top \in Nat /\ Top <= MaxPages * PageSize
         /\ MaxPages * PageSize \in Nat
         /\ NewPage = Top + 1
         /\ allocated_pages < MaxPages => Top + PageSize <= MaxPages * PageSize
         /\ (allocated_pages + 1) * PageSize = Top + PageSize
<1>1. PageSize \in Nat \ {0} /\ MaxPages \in Nat /\ PoolCount \in Nat \ {0}
  BY MemPoolsAssumption
<1>2. allocated_pages \in Nat /\ allocated_pages <= MaxPages
  BY <1>1 DEF TypeOK
<1> DEFINE a == allocated_pages
<1> HIDE DEF a
<1>3. a \in Nat /\ a <= MaxPages
  BY <1>2 DEF a
<1>4. a * PageSize \in Nat /\ MaxPages * PageSize \in Nat
  BY <1>1, <1>3
<1>5. MaxPages * PageSize = a * PageSize + (MaxPages - a) * PageSize
  BY <1>1, <1>3
<1>6. (MaxPages - a) * PageSize >= 0 /\ (MaxPages - a) * PageSize \in Int
  BY <1>1, <1>3
<1>7. ASSUME a < MaxPages PROVE (MaxPages - a) * PageSize >= PageSize
  <2>1. (MaxPages - a - 1) * PageSize >= 0
    BY <1>1, <1>3, <1>7
  <2>2. (MaxPages - a) * PageSize = (MaxPages - a - 1) * PageSize + PageSize
    BY <1>1, <1>3
  <2> QED BY <1>1, <1>3, <2>1, <2>2
<1>8. (a + 1) * PageSize = a * PageSize + PageSize
  BY <1>1, <1>3
<1>9. a < MaxPages => a * PageSize + PageSize <= MaxPages * PageSize
  BY <1>1, <1>4, <1>5, <1>6, <1>7
<1>10. a * PageSize <= MaxPages * PageSize
  BY <1>4, <1>5, <1>6
<1> QED BY <1>1, <1>3, <1>4, <1>8, <1>9, <1>10 DEF a, Top, NewPage

\* A pool's blocks are those of its pages.
LEMMA BlocksArePages ==
  ASSUME NEW p
  PROVE  Blocks(p) = UNION {PageBlocks((n - 1) * PageSize, p) :
                              n \in {m \in 1..MaxPages : page_pool[m] = p}}
BY DEF Blocks, PageBlocks

\* What taking a page does to everything but the lists.
LEMMA PageTaken ==
  ASSUME TypeOK, Fresh, NEW p \in Pools, TakePage(p)
  PROVE  /\ Top' = Top + PageSize
         /\ Top + PageSize <= MaxPages * PageSize
         /\ Blocks(p)' = Blocks(p) \cup PageBlocks(Top, p)
         /\ \A q \in Pools \ {p} : Blocks(q)' = Blocks(q)
         /\ next' \in [Units -> Links] /\ page_pool' \in [1..MaxPages -> Pools \cup {PoolCount}]
         /\ allocated_pages' \in 0..MaxPages
         /\ Fresh'
         /\ LastBlock(p) = Top + 1 + PageSize - PoolSize(p)
         /\ LastBlock(p) \in Nat /\ Top < LastBlock(p)
         /\ next'[LastBlock(p)] = free_list_head[p]
         /\ \A u \in Units \ {LastBlock(p)} : next'[u] = next[u]
         /\ \A u \in (Top + 1)..(Top + PageSize) : next[u] = UNINITIALIZED_FREE_BLOCK
<1> DEFINE a == allocated_pages
<1>1. /\ PageSize \in Nat \ {0} /\ MaxPages \in Nat /\ PoolCount \in Nat \ {0}
      /\ a \in Nat /\ Top \in Nat /\ MaxPages * PageSize \in Nat
      /\ NewPage = Top + 1 /\ a < MaxPages /\ Top + PageSize <= MaxPages * PageSize
      /\ allocated_pages' = a + 1
  BY Numbers DEF TakePage
<1>2. Top' = Top + PageSize
  BY <1>1, Numbers DEF Top
<1>3. Units = 1..(MaxPages * PageSize)
  BY DEF Units
<1>4. LastBlock(p) = Top + 1 + PageSize - PoolSize(p)
  BY <1>1 DEF LastBlock
<1>5. LastBlock(p) \in (Top + 1)..(Top + PageSize)
  <2>1. PoolSize(p) \in Nat \ {0} /\ Top < LastBlock(p)
    <3>1. PoolSize(p) \in Nat \ {0} /\ PageSize \div PoolSize(p) \in Nat \ {0}
      BY PoolSizes
    <3>2. (PageSize \div PoolSize(p)) - 1 \in 0..((PageSize \div PoolSize(p)) - 1)
      BY <3>1
    <3> QED BY <1>1, <1>4, <3>1, <3>2, BlocksOfPage
  <2> QED BY <1>1, <1>4, <2>1
<1>6. LastBlock(p) \in Units
  BY <1>1, <1>3, <1>5
<1>7. /\ next' = [next EXCEPT ![LastBlock(p)] = free_list_head[p]]
      /\ page_pool' = [page_pool EXCEPT ![a + 1] = p]
  BY <1>1 DEF TakePage, WithNewPage
<1>8. free_list_head[p] \in Links
  BY DEF TypeOK, Links
<1>9. /\ next' \in [Units -> Links] /\ page_pool' \in [1..MaxPages -> Pools \cup {PoolCount}]
      /\ allocated_pages' \in 0..MaxPages
  <2>1. next' \in [Units -> Links]
    BY <1>7, <1>8 DEF TypeOK
  <2>2. page_pool' \in [1..MaxPages -> Pools \cup {PoolCount}]
    BY <1>7 DEF TypeOK
  <2> QED BY <1>1, <2>1, <2>2
<1>10. /\ next'[LastBlock(p)] = free_list_head[p]
       /\ \A u \in Units \ {LastBlock(p)} : next'[u] = next[u]
  BY <1>6, <1>7 DEF TypeOK
<1>11. \A u \in (Top + 1)..(Top + PageSize) : next[u] = UNINITIALIZED_FREE_BLOCK
  BY <1>1, <1>3 DEF Fresh
<1>12. a + 1 \in 1..MaxPages /\ page_pool[a + 1] \notin Pools
  BY <1>1 DEF Fresh
<1>13. \A n \in 1..MaxPages : page_pool'[n] = IF n = a + 1 THEN p ELSE page_pool[n]
  BY <1>7, <1>12 DEF TypeOK
<1>14. Fresh'
  <2>1. \A u \in Units : u > Top + PageSize => next'[u] = UNINITIALIZED_FREE_BLOCK
    <3>1. ASSUME NEW u \in Units, u > Top + PageSize
          PROVE  next'[u] = UNINITIALIZED_FREE_BLOCK
      <4>1. u > Top /\ u # LastBlock(p)
        BY <1>1, <1>3, <1>5, <3>1
      <4> QED BY <1>10, <4>1 DEF Fresh
    <3> QED BY <3>1
  <2>2. \A n \in 1..MaxPages : page_pool'[n] \in Pools <=> n <= a + 1
    BY <1>1, <1>12, <1>13 DEF Fresh
  <2> QED BY <1>1, <1>2, <2>1, <2>2 DEF Fresh
<1>15. ((a + 1) - 1) * PageSize = Top
  BY <1>1 DEF Top
<1>16. Blocks(p)' = Blocks(p) \cup PageBlocks(Top, p)
  <2>1. {m \in 1..MaxPages : page_pool'[m] = p}
          = {m \in 1..MaxPages : page_pool[m] = p} \cup {a + 1}
    BY <1>12, <1>13
  <2>2. Blocks(p)' = UNION {PageBlocks((n - 1) * PageSize, p) :
                              n \in {m \in 1..MaxPages : page_pool'[m] = p}}
    BY DEF Blocks, PageBlocks
  <2> HIDE DEF a
  <2> QED BY <1>15, <2>1, <2>2, BlocksArePages
<1>17. ASSUME NEW q \in Pools \ {p} PROVE Blocks(q)' = Blocks(q)
  <2>1. {m \in 1..MaxPages : page_pool'[m] = q} = {m \in 1..MaxPages : page_pool[m] = q}
    BY <1>12, <1>13
  <2> QED BY <2>1 DEF Blocks
<1>18. LastBlock(p) \in Nat /\ Top < LastBlock(p)
  BY <1>1, <1>5
<1> QED BY <1>1, <1>2, <1>4, <1>9, <1>10, <1>11, <1>14, <1>16, <1>17, <1>18

\* What holds of the pieces G and of the lists when a page has been linked to the
\* list of p, and its first block is not yet the head.
PageLinked(p, G) ==
  /\ Pieces(G, live, Top')
  /\ Lists(next', NewPage, p, G[p])
  /\ \A q \in Pools \ {p} : Lists(next', free_list_head[q], q, G[q])
  /\ Owned(G, live, PoolBlocks')

LEMMA PageAdded ==
  ASSUME TypeOK, Fresh, NEW F, Sound(F), NEW p \in Pools, TakePage(p),
         NEW G, G = [F EXCEPT ![p] = @ \cup PageBlocks(Top, p)]
  PROVE  PageLinked(p, G)
<1>1. /\ Top' = Top + PageSize /\ Top + PageSize <= MaxPages * PageSize
      /\ Top \in Nat /\ PageSize \in Nat \ {0} /\ PoolCount \in Nat \ {0}
      /\ NewPage = Top + 1
  BY PageTaken, Numbers
<1>2. Pieces(F, live, Top) /\ F \in [Pools -> SUBSET Units]
  BY DEF Sound, Pieces
<1>3. Pieces(G, live, Top')
  BY <1>1, <1>2, PageAdds
<1>4. \A q \in Pools : G[q] = IF q = p THEN F[p] \cup PageBlocks(Top, p) ELSE F[q]
  BY <1>2
<1>5. \A q \in Pools : \A b \in F[q] : b \in Nat /\ b <= Top
  <2>1. \A q \in Pools : \A b \in F[q] : b \in Units /\ b + PoolSize(q) <= Top + 1
    BY <1>2 DEF Pieces, FreeInPages
  <2>2. \A q \in Pools : PoolSize(q) \in Nat \ {0}
    BY PoolSizes
  <2> QED BY <1>1, <2>1, <2>2 DEF Units
<1>6. free_list_head[p] \in Units \cup {END_OF_FREELIST}
  BY DEF TypeOK
<1>7. /\ next'[LastBlock(p)] = free_list_head[p]
      /\ \A u \in Units \ {LastBlock(p)} : next'[u] = next[u]
      /\ \A u \in (Top + 1)..(Top + PageSize) : next[u] = UNINITIALIZED_FREE_BLOCK
      /\ LastBlock(p) = Top + 1 + PageSize - PoolSize(p)
  BY PageTaken
<1>8. Lists(next', Top + 1, p, F[p] \cup PageBlocks(Top, p))
  <2>1. Lists(next, free_list_head[p], p, F[p])
    BY DEF Sound
  <2> QED BY <1>1, <1>5, <1>6, <1>7, <2>1, PagePushes
<1>9. ASSUME NEW q \in Pools \ {p} PROVE Lists(next', free_list_head[q], q, G[q])
  <2>1. Lists(next, free_list_head[q], q, F[q])
    BY DEF Sound
  <2>2. LastBlock(p) \in Nat /\ Top < LastBlock(p)
    BY PageTaken
  <2>3. \A b \in F[q] : next'[b] = next[b]
    BY <1>1, <1>2, <1>5, <1>7, <2>2
  <2>4. Lists(next', free_list_head[q], q, F[q])
    BY <2>1, <2>3, ListKept
  <2> QED BY <1>4, <2>4
<1> DEFINE B == PoolBlocks
           C == PoolBlocks'
<1>10. \A q \in Pools : C[q] = IF q = p THEN B[p] \cup PageBlocks(Top, p) ELSE B[q]
  BY PageTaken DEF PoolBlocks
<1>11. /\ Owned(F, live, B)
       /\ \A q \in Pools : q..(PoolCount - 1) \subseteq Pools /\ q \in q..(PoolCount - 1)
  BY <1>1 DEF Sound, Pools
<1> HIDE DEF B, C
<1>12. ASSUME NEW q \in Pools, NEW b \in G[q]
       PROVE  \E r \in q..(PoolCount - 1) : b \in C[r]
  <2>1. CASE b \in F[q]
    BY <1>10, <1>11, <2>1 DEF Owned
  <2>2. CASE q = p /\ b \in PageBlocks(Top, p)
    BY <1>10, <1>11, <2>2
  <2> QED BY <1>4, <2>1, <2>2
<1>13. ASSUME NEW o \in live, InPool(o.kind)
       PROVE  \E q \in FindPool(AllocSize[o.kind])..(PoolCount - 1) : o.at \in C[q]
  BY <1>10, <1>11, <1>13 DEF Owned, InPool
<1>14. ASSUME NEW q \in Pools, NEW b \in C[q]
       PROVE  \/ \E r \in Pools : b \in G[r]
              \/ \E o \in live : InPool(o.kind) /\ o.at = b
  <2>1. CASE b \in B[q]
    <3>1. CASE \E r \in Pools : b \in F[r]
      BY <1>4, <3>1
    <3>2. CASE \E o \in live : InPool(o.kind) /\ o.at = b
      BY <3>2
    <3> QED BY <1>11, <2>1, <3>1, <3>2 DEF Owned
  <2>2. CASE q = p /\ b \in PageBlocks(Top, p)
    BY <1>4, <2>2
  <2> QED BY <1>10, <2>1, <2>2
<1>15. Owned(G, live, C)
  BY <1>12, <1>13, <1>14 DEF Owned
<1> QED BY <1>1, <1>3, <1>4, <1>8, <1>9, <1>15 DEF PageLinked, C

-----------------------------------------------------------------------------
(***************************************************************************)
(* The steps.                                                              *)
(***************************************************************************)
LEMMA PreallocKeeps ==
  ASSUME TypeOK, Fresh, NEW F, Sound(F), NEW k \in Kinds, Prealloc(k)
  PROVE  IInv'
<1> DEFINE p == FindPool(AllocSize[k])
<1>0. PICK G : G = [F EXCEPT ![p] = @ \cup PageBlocks(Top, p)]
  OBVIOUS
<1>1. /\ p \in Pools /\ TakePage(p) /\ free_list_head' = [free_list_head EXCEPT ![p] = NewPage]
      /\ live' = live /\ error' = error
  BY DEF Prealloc
<1> HIDE DEF p
<1>2. PageLinked(p, G)
  BY <1>0, <1>1, PageAdded
<1>3. /\ next' \in [Units -> Links] /\ page_pool' \in [1..MaxPages -> Pools \cup {PoolCount}]
      /\ allocated_pages' \in 0..MaxPages /\ Fresh'
  BY <1>1, PageTaken
<1>4. NewPage \in Units
  <2>1. /\ NewPage = Top + 1 /\ Top \in Nat /\ PageSize \in Nat \ {0}
        /\ Top + PageSize <= MaxPages * PageSize /\ MaxPages * PageSize \in Nat
    BY <1>1, PageTaken, Numbers
  <2> QED BY <2>1 DEF Units
<1>5. \A q \in Pools : free_list_head'[q] = IF q = p THEN NewPage ELSE free_list_head[q]
  BY <1>1 DEF TypeOK
<1>6. TypeOK'
  <2>1. free_list_head' \in [Pools -> Units \cup {END_OF_FREELIST}]
    BY <1>1, <1>4 DEF TypeOK
  <2> QED BY <1>1, <1>3, <2>1 DEF TypeOK
<1>7. \A q \in Pools : Lists(next', free_list_head'[q], q, G[q])
  BY <1>2, <1>5 DEF PageLinked
<1>8. Sound(G)'
  BY <1>1, <1>2, <1>7 DEF Sound, PageLinked
<1> QED BY <1>3, <1>6, <1>8 DEF IInv

\* A block that is given goes from the free blocks of its pool to the live objects.
LEMMA GivenOwned ==
  ASSUME NEW F, NEW L, NEW B, Owned(F, L, B), F \in [Pools -> SUBSET Units],
         NEW k \in Kinds, NEW p \in Pools, p = FindPool(AllocSize[k]), NEW b \in F[p],
         NEW o, o = [at |-> b, kind |-> k],
         NEW G, G = [F EXCEPT ![p] = @ \ {b}]
  PROVE  Owned(G, L \cup {o}, B)
<1>1. o.at = b /\ o.kind = k /\ InPool(k)
  BY DEF InPool
<1>2. \A q \in Pools : \A c \in G[q] : c \in F[q]
  OBVIOUS
<1>3. \A q \in Pools : \A c \in F[q] : c = b \/ c \in G[q]
  OBVIOUS
<1>4. \A q \in L \cup {o} : InPool(q.kind) =>
        \E r \in FindPool(AllocSize[q.kind])..(PoolCount - 1) : q.at \in B[r]
  BY <1>1 DEF Owned
<1> QED BY <1>1, <1>2, <1>3, <1>4 DEF Owned

LEMMA AllocFromListKeeps ==
  ASSUME TypeOK, Fresh, NEW F, Sound(F), NEW k \in Kinds, AllocFromList(k)
  PROVE  IInv'
<1> DEFINE p == FindPool(AllocSize[k])
           b == free_list_head[p]
           o == [at |-> b, kind |-> k]
<1>1. PICK G : G = [F EXCEPT ![p] = @ \ {b}]
  OBVIOUS
<1>2. /\ p \in Pools /\ b # END_OF_FREELIST /\ live' = live \cup {o}
      /\ free_list_head' = [free_list_head EXCEPT ![p] = NextBlock(next, b, p)]
      /\ UNCHANGED <<next, allocated_pages, page_pool, error>>
  BY DEF AllocFromList, Given
<1> HIDE DEF p
<1>3. /\ Pieces(F, live, Top) /\ F \in [Pools -> SUBSET Units] /\ Top \in Nat
      /\ Owned(F, live, PoolBlocks) /\ \A q \in Pools : Lists(next, free_list_head[q], q, F[q])
  BY Numbers DEF Sound, Pieces
<1>4. b \in F[p] /\ b \in Units
  BY <1>2, <1>3, ListBlocks
<1>5. Lists(next, NextBlock(next, b, p), p, F[p] \ {b})
  BY <1>2, <1>3, ListPops
<1>6. \A q \in Pools : Lists(next', free_list_head'[q], q, G[q])
  BY <1>1, <1>2, <1>3, <1>5 DEF TypeOK
<1> HIDE DEF b, o
<1>7. Pieces(G, live', Top) /\ Owned(G, live', PoolBlocks)
  BY <1>1, <1>2, <1>3, <1>4, BlockGiven, GivenOwned DEF o, p
<1>8. Top' = Top /\ PoolBlocks' = PoolBlocks /\ Fresh'
  BY <1>2 DEF Top, PoolBlocks, Blocks, Fresh
<1>9. Sound(G)'
  BY <1>6, <1>7, <1>8 DEF Sound
<1>10. TypeOK'
  <2>1. NextBlock(next, b, p) \in Units \cup {END_OF_FREELIST}
    <3>1. \/ NextBlock(next, b, p) = END_OF_FREELIST
          \/ NextBlock(next, b, p) \in F[p] \ {b}
      BY <1>5, ListBlocks
    <3> QED BY <1>2, <1>3, <3>1
  <2>2. free_list_head' \in [Pools -> Units \cup {END_OF_FREELIST}]
    BY <1>2, <2>1 DEF TypeOK
  <2>3. live' \subseteq [at : Units \cup Large, kind : Kinds]
    BY <1>7 DEF Pieces
  <2> QED BY <1>2, <2>2, <2>3 DEF TypeOK
<1> QED BY <1>8, <1>9, <1>10 DEF IInv

LEMMA AllocFromNewPageKeeps ==
  ASSUME TypeOK, Fresh, NEW F, Sound(F), NEW k \in Kinds, AllocFromNewPage(k)
  PROVE  IInv'
<1> DEFINE p == FindPool(AllocSize[k])
           b == NewPage
           o == [at |-> b, kind |-> k]
<1>1. PICK H : H = [F EXCEPT ![p] = @ \cup PageBlocks(Top, p)]
  OBVIOUS
<1>2. PICK G : G = [H EXCEPT ![p] = @ \ {b}]
  OBVIOUS
<1>3. /\ p \in Pools /\ TakePage(p) /\ live' = live \cup {o}
      /\ free_list_head' = [free_list_head EXCEPT ![p] = NextBlock(next', b, p)]
      /\ error' = error
  BY DEF AllocFromNewPage, Given, TakePage
<1> HIDE DEF p
<1>4. PageLinked(p, H)
  BY <1>1, <1>3, PageAdded
<1>5. /\ Top' = Top + PageSize /\ Top \in Nat /\ PageSize \in Nat \ {0} /\ b = Top + 1
      /\ Top + PageSize <= MaxPages * PageSize /\ MaxPages * PageSize \in Nat
  BY <1>3, PageTaken, Numbers
<1>6. b \in Units
  BY <1>5 DEF Units
<1> HIDE DEF b, o
<1>7. b # END_OF_FREELIST
  BY <1>6 DEF Units, END_OF_FREELIST
<1>8. Lists(next', b, p, H[p]) /\ H \in [Pools -> SUBSET Units]
  BY <1>4 DEF PageLinked, Pieces, b
<1>9. b \in H[p]
  BY <1>7, <1>8, ListBlocks
<1>10. Lists(next', NextBlock(next', b, p), p, H[p] \ {b})
  BY <1>7, <1>8, ListPops
<1>11. \A q \in Pools : Lists(next', free_list_head'[q], q, G[q])
  BY <1>2, <1>3, <1>4, <1>8, <1>10 DEF PageLinked, TypeOK
<1>12. Pieces(G, live', Top') /\ Owned(G, live', PoolBlocks')
  <2>1. Pieces(H, live, Top') /\ Owned(H, live, PoolBlocks') /\ Top' \in Nat
    BY <1>4, <1>5 DEF PageLinked
  <2> QED BY <1>2, <1>3, <1>8, <1>9, <2>1, BlockGiven, GivenOwned DEF o, p
<1>13. Sound(G)'
  BY <1>11, <1>12 DEF Sound
<1>14. TypeOK' /\ Fresh'
  <2>1. NextBlock(next', b, p) \in Units \cup {END_OF_FREELIST}
    <3>1. \/ NextBlock(next', b, p) = END_OF_FREELIST
          \/ NextBlock(next', b, p) \in H[p] \ {b}
      BY <1>10, ListBlocks
    <3> QED BY <1>3, <1>8, <3>1
  <2>2. free_list_head' \in [Pools -> Units \cup {END_OF_FREELIST}]
    BY <1>3, <2>1 DEF TypeOK
  <2>3. live' \subseteq [at : Units \cup Large, kind : Kinds]
    BY <1>12 DEF Pieces
  <2>4. /\ next' \in [Units -> Links] /\ page_pool' \in [1..MaxPages -> Pools \cup {PoolCount}]
        /\ allocated_pages' \in 0..MaxPages /\ Fresh'
    BY <1>3, PageTaken
  <2> QED BY <1>3, <2>2, <2>3, <2>4 DEF TypeOK
<1> QED BY <1>13, <1>14 DEF IInv

LEMMA AllocLargeKeeps ==
  ASSUME TypeOK, Fresh, NEW F, Sound(F), NEW k \in Kinds, AllocLarge(k)
  PROVE  IInv'
<1>1. PICK b \in Large \ {q.at : q \in live} : Given(k, b)
  BY DEF AllocLarge
<1> DEFINE o == [at |-> b, kind |-> k]
<1>2. /\ ~InPool(k) /\ live' = live \cup {o}
      /\ UNCHANGED <<next, free_list_head, allocated_pages, page_pool, error>>
  <2>1. PoolCount \notin Pools
    BY MemPoolsAssumption DEF Pools
  <2> QED BY <1>1, <2>1 DEF AllocLarge, Given, InPool, poolVars
<1> HIDE DEF o
<1>3. Pieces(F, live', Top)
  <2>1. Pieces(F, live, Top) /\ Top \in Nat /\ Top <= MaxPages * PageSize
    BY Numbers DEF Sound
  <2> QED BY <1>1, <1>2, <2>1, LargeGiven DEF o
<1>4. Owned(F, live', PoolBlocks)
  <2>1. o.kind = k
    BY DEF o
  <2> QED BY <1>2, <2>1 DEF Sound, Owned
<1>5. Top' = Top /\ PoolBlocks' = PoolBlocks /\ Fresh'
  BY <1>2 DEF Top, PoolBlocks, Blocks, Fresh
<1>6. Sound(F)'
  BY <1>2, <1>3, <1>4, <1>5 DEF Sound
<1>7. TypeOK'
  BY <1>2, <1>3 DEF Pieces, TypeOK
<1> QED BY <1>5, <1>6, <1>7 DEF IInv

\* A block that is freed goes to the free blocks of some pool of no larger blocks.
LEMMA BackOwned ==
  ASSUME NEW F, NEW L, NEW B, Owned(F, L, B), F \in [Pools -> SUBSET Units],
         NEW o \in L, o.kind \in Kinds, NEW p \in Pools, p = FindPool(FreeSize[o.kind]),
         NEW G, G = [F EXCEPT ![p] = @ \cup {o.at}]
  PROVE  Owned(G, L \ {o}, B)
<1> DEFINE a == FindPool(AllocSize[o.kind])
<1>1. InPool(o.kind) /\ a \in Pools /\ p <= a /\ PoolCount \in Nat
  BY Extents, MemPoolsAssumption DEF InPool
<1>2. a..(PoolCount - 1) \subseteq p..(PoolCount - 1)
  BY <1>1 DEF Pools
<1>3. PICK r \in a..(PoolCount - 1) : o.at \in B[r]
  BY <1>1 DEF Owned
<1>4. \A q \in Pools : \A c \in G[q] : c \in F[q] \/ (q = p /\ c = o.at)
  OBVIOUS
<1>5. o.at \in G[p] /\ \A q \in Pools : F[q] \subseteq G[q]
  OBVIOUS
<1>6. \A q \in Pools : \A c \in G[q] : \E x \in q..(PoolCount - 1) : c \in B[x]
  BY <1>2, <1>3, <1>4 DEF Owned
<1>7. \A q \in Pools : \A c \in B[q] :
        \/ \E x \in Pools : c \in G[x]
        \/ \E x \in L \ {o} : InPool(x.kind) /\ x.at = c
  <2> SUFFICES ASSUME NEW q \in Pools, NEW c \in B[q], ~ \E x \in Pools : c \in G[x]
               PROVE  \E x \in L \ {o} : InPool(x.kind) /\ x.at = c
    OBVIOUS
  <2>1. PICK x \in L : InPool(x.kind) /\ x.at = c
    BY <1>5 DEF Owned
  <2>2. x # o
    BY <1>5, <2>1
  <2> QED BY <2>1, <2>2
<1> QED BY <1>6, <1>7 DEF Owned

LEMMA FreeToListKeeps ==
  ASSUME TypeOK, Fresh, NEW F, Sound(F), NEW o \in live, FreeToList(o)
  PROVE  IInv'
<1> DEFINE p == FindPool(FreeSize[o.kind])
<1>1. PICK G : G = [F EXCEPT ![p] = @ \cup {o.at}]
  OBVIOUS
<1>2. /\ p \in Pools /\ live' = live \ {o}
      /\ next' = [Used(o) EXCEPT ![o.at] = free_list_head[p]]
      /\ free_list_head' = [free_list_head EXCEPT ![p] = o.at]
      /\ UNCHANGED <<allocated_pages, page_pool, error>>
  BY DEF FreeToList
<1>3. /\ Pieces(F, live, Top) /\ F \in [Pools -> SUBSET Units] /\ Top \in Nat
      /\ Owned(F, live, PoolBlocks) /\ \A q \in Pools : Lists(next, free_list_head[q], q, F[q])
      /\ live \subseteq [at : Units \cup Large, kind : Kinds]
  BY Numbers DEF Sound, Pieces
<1>4. /\ o.kind \in Kinds /\ InPool(o.kind)
      /\ AllocSize[o.kind] \in Nat \ {0} /\ Extent(o.kind) \in Nat
      /\ AllocSize[o.kind] <= Extent(o.kind)
  <2>1. o.kind \in Kinds
    BY <1>3
  <2> QED BY <1>2, <2>1, Extents
<1> HIDE DEF p
<1>5. Pieces(G, live', Top) /\ o.at \in Units \ F[p]
  BY <1>1, <1>2, <1>3, BlockBack DEF p
<1>6. Owned(G, live', PoolBlocks)
  BY <1>1, <1>2, <1>3, <1>4, BackOwned DEF p
<1> DEFINE mine == o.at..(o.at + AllocSize[o.kind] - 1)
<1>7. /\ next'[o.at] = free_list_head[p]
      /\ \A u \in Units \ {o.at} : next'[u] = IF u \in mine THEN Data ELSE next[u]
  BY <1>2, <1>5 DEF Used
<1>8. \A q \in Pools : \A b \in F[q] : b \in Units /\ b \notin mine
  <2> SUFFICES ASSUME NEW q \in Pools, NEW b \in F[q] PROVE b \in Units /\ b \notin mine
    OBVIOUS
  <2>1. Clear(o.at, Extent(o.kind), b, PoolSize(q))
    BY <1>3 DEF Pieces, FreeClearOfLive
  <2>2. PoolSize(q) \in Nat \ {0} /\ b \in Int /\ o.at \in Int /\ b \in Units
    BY <1>3, <1>5, PoolSizes DEF Units
  <2> QED BY <1>4, <2>1, <2>2 DEF Clear
<1>9. o.at \in mine /\ \A q \in Pools : \A b \in F[q] : next'[b] = next[b]
  <2>1. o.at \in mine
    BY <1>4, <1>5 DEF Units
  <2> HIDE DEF mine
  <2> QED BY <1>7, <1>8, <2>1
<1>10. \A q \in Pools : Lists(next', free_list_head'[q], q, G[q])
  <2>1. free_list_head[p] \in Units \cup {END_OF_FREELIST}
    BY <1>2 DEF TypeOK
  <2>2. Lists(next', o.at, p, F[p] \cup {o.at})
    <3>1. Lists(next, free_list_head[p], p, F[p]) /\ o.at \in Units \ F[p]
      BY <1>2, <1>3, <1>5
    <3>2. next'[o.at] = free_list_head[p] /\ \A c \in F[p] : next'[c] = next[c]
      BY <1>2, <1>7, <1>9
    <3> QED BY <2>1, <3>1, <3>2, ListPushes
  <2>3. \A q \in Pools \ {p} : Lists(next', free_list_head[q], q, F[q])
    BY <1>3, <1>9, ListKept
  <2> QED BY <1>1, <1>2, <1>3, <2>2, <2>3 DEF TypeOK
<1>11. Top' = Top /\ PoolBlocks' = PoolBlocks
  BY <1>2 DEF Top, PoolBlocks, Blocks
<1>12. Fresh'
  <2>1. o.at + Extent(o.kind) <= Top + 1
    BY <1>3, <1>4 DEF Pieces, LiveInPages
  <2>2. \A u \in Units : u > Top => u \notin mine
    BY <1>3, <1>4, <1>5, <2>1 DEF Units
  <2> HIDE DEF mine
  <2>3. \A u \in Units : u > Top => next'[u] = next[u]
    BY <1>7, <1>9, <2>2
  <2> QED BY <1>2, <1>11, <2>3 DEF Fresh
<1>13. Sound(G)'
  BY <1>5, <1>6, <1>10, <1>11 DEF Sound
<1>14. TypeOK'
  <2>1. free_list_head[p] \in Links /\ Data \in Links
    BY <1>2 DEF TypeOK, Links
  <2>2. Used(o) \in [Units -> Links]
    BY <2>1 DEF Used, TypeOK
  <2>3. next' \in [Units -> Links]
    BY <1>2, <2>1, <2>2
  <2>4. free_list_head' \in [Pools -> Units \cup {END_OF_FREELIST}]
    BY <1>2, <1>5 DEF TypeOK
  <2> QED BY <1>2, <2>3, <2>4 DEF TypeOK
<1> QED BY <1>12, <1>13, <1>14 DEF IInv

LEMMA FreeLargeKeeps ==
  ASSUME TypeOK, Fresh, NEW F, Sound(F), NEW o \in live, FreeLarge(o)
  PROVE  IInv'
<1>1. /\ FindPool(FreeSize[o.kind]) = PoolCount /\ live' = live \ {o}
      /\ UNCHANGED <<next, free_list_head, allocated_pages, page_pool, error>>
  BY DEF FreeLarge, poolVars
<1>2. ~InPool(o.kind)
  <2>1. o.kind \in Kinds
    BY DEF TypeOK
  <2> QED BY <1>1, <2>1, Extents
<1>3. Pieces(F, live', Top)
  BY <1>1 DEF Sound, Pieces, LiveInPages, LiveClear, FreeClearOfLive
<1>4. Owned(F, live', PoolBlocks)
  BY <1>1, <1>2 DEF Sound, Owned
<1>5. Top' = Top /\ PoolBlocks' = PoolBlocks /\ Fresh'
  BY <1>1 DEF Top, PoolBlocks, Blocks, Fresh
<1>6. Sound(F)'
  BY <1>1, <1>3, <1>4, <1>5 DEF Sound
<1>7. TypeOK'
  BY <1>1 DEF TypeOK
<1> QED BY <1>5, <1>6, <1>7 DEF IInv

\* ssm_mem_init leaves empty lists.
LEMMA InitHolds == Init => IInv
<1> SUFFICES ASSUME Init PROVE IInv
  OBVIOUS
<1>1. PoolCount \in Nat \ {0} /\ MaxPages \in Nat /\ PageSize \in Nat /\ PoolCount \notin Pools
  BY MemPoolsAssumption DEF Pools
<1>2. TypeOK
  BY <1>1 DEF Init, TypeOK, Links
<1>3. Fresh
  BY <1>1 DEF Init, Fresh
<1> DEFINE F == [p \in Pools |-> {}]
<1>4. Pieces(F, live, Top)
  BY DEF Init, Pieces, FreeInPages, LiveInPages, FreeClear, LiveClear, FreeClearOfLive
<1>5. ASSUME NEW p \in Pools PROVE Lists(next, free_list_head[p], p, {})
  <2> DEFINE s == [i \in {0} |-> END_OF_FREELIST]
  <2>1. IsList(next, free_list_head[p], p, 0, s)
    BY DEF Init, IsList
  <2> HIDE DEF s
  <2>2. {s[i] : i \in 0..(0 - 1)} = {}
    OBVIOUS
  <2> QED BY <2>1, <2>2 DEF Lists
<1>6. Owned(F, live, PoolBlocks)
  <2>1. \A p \in Pools : PoolBlocks[p] = {}
    BY <1>1 DEF Init, PoolBlocks, Blocks
  <2> QED BY <2>1 DEF Init, Owned
<1>7. Sound(F)
  BY <1>4, <1>5, <1>6 DEF Sound
<1> QED BY <1>2, <1>3, <1>7 DEF IInv

LEMMA StepKeeps == IInv /\ [Next]_vars => IInv'
<1> SUFFICES ASSUME IInv, [Next]_vars PROVE IInv'
  OBVIOUS
<1>1. TypeOK /\ Fresh
  BY DEF IInv
<1>2. PICK F : Sound(F)
  BY DEF IInv
<1>3. ASSUME NEW k \in Kinds, Prealloc(k) PROVE IInv'
  BY <1>1, <1>2, <1>3, PreallocKeeps
<1>4. ASSUME NEW k \in Kinds, AllocFromList(k) PROVE IInv'
  BY <1>1, <1>2, <1>4, AllocFromListKeeps
<1>5. ASSUME NEW k \in Kinds, AllocFromNewPage(k) PROVE IInv'
  BY <1>1, <1>2, <1>5, AllocFromNewPageKeeps
<1>6. ASSUME NEW k \in Kinds, AllocLarge(k) PROVE IInv'
  BY <1>1, <1>2, <1>6, AllocLargeKeeps
<1>7. ASSUME NEW o \in live, FreeToList(o) PROVE IInv'
  BY <1>1, <1>2, <1>7, FreeToListKeeps
<1>8. ASSUME NEW o \in live, FreeLarge(o) PROVE IInv'
  BY <1>1, <1>2, <1>8, FreeLargeKeeps
<1>9. ASSUME UNCHANGED <<poolVars, live>>, error' \in {error, "exhausted_memory"} PROVE IInv'
  <2>1. TypeOK' /\ Fresh'
    BY <1>1, <1>9 DEF poolVars, TypeOK, Fresh, Top
  <2>2. Sound(F)'
    BY <1>2, <1>9 DEF poolVars, Sound, Top, PoolBlocks, Blocks
  <2> QED BY <2>1, <2>2 DEF IInv
<1>10. ASSUME NEW k \in Kinds, OutOfPages(k) PROVE IInv'
  BY <1>9, <1>10 DEF OutOfPages
<1>11. CASE UNCHANGED vars
  BY <1>9, <1>11 DEF vars
<1> QED BY <1>3, <1>4, <1>5, <1>6, <1>7, <1>8, <1>10, <1>11 DEF Next

LEMMA Invariance == Spec => []IInv
BY InitHolds, StepKeeps, PTL DEF Spec

\* No list, link or live object leaves the pages and ranges that memory came from.
THEOREM TypeCorrect == Spec => []TypeOK
<1>1. IInv => TypeOK
  BY DEF IInv
<1> QED BY <1>1, Invariance, PTL

-----------------------------------------------------------------------------
(***************************************************************************)
(* Every block is live or free.                                            *)
(***************************************************************************)
\* A list visits no more blocks than there are units.
LEMMA ListIsShort ==
  ASSUME NEW links, NEW head, NEW p, NEW n \in Nat, NEW s, IsList(links, head, p, n, s),
         MaxPages * PageSize \in Nat
  PROVE  n <= MaxPages * PageSize
<1> DEFINE m == MaxPages * PageSize
           f == [i \in 0..(n - 1) |-> s[i]]
<1>1. f \in Injection(0..(n - 1), Units)
  BY DEF IsList, Injection, IsInjective
<1> HIDE DEF f
<1>2. IsFiniteSet(Units) /\ Cardinality(Units) = m
  <2>1. m \in Nat
    OBVIOUS
  <2> HIDE DEF m
  <2>2. IsFiniteSet(1..m) /\ Cardinality(1..m) = m
    <3>1. 1 \in Int /\ m \in Int
      BY <2>1
    <3>2. m - 1 + 1 = m /\ (1 > m => m = 0)
      BY <2>1
    <3> QED BY <3>1, <3>2, FS_Interval
  <2> QED BY <2>1, <2>2 DEF Units, m
<1>3. Cardinality(0..(n - 1)) <= Cardinality(Units)
  BY <1>1, <1>2, FS_Injection
<1>4. Cardinality(0..(n - 1)) = n
  <2>1. Cardinality(0..(n - 1)) = IF 0 > n - 1 THEN 0 ELSE (n - 1) - 0 + 1
    BY FS_Interval
  <2> QED BY <2>1
<1> QED BY <1>2, <1>3, <1>4

\* What the recursive definition in Walk says of a function.
IsWalk(w, p) ==
  w = [n \in 0..(MaxPages * PageSize) |->
         IF n = 0 THEN free_list_head[p]
         ELSE LET b == w[n - 1]
              IN  IF b \in Units THEN NextBlock(next, b, p) ELSE b]

\* Only one function is so described.
LEMMA OneWalk ==
  ASSUME NEW p, NEW v, IsWalk(v, p), NEW w, IsWalk(w, p), MaxPages * PageSize \in Nat
  PROVE  v = w
<1> DEFINE m == MaxPages * PageSize
           D == 0..m
           T == {i \in D : v[i] # w[i]}
<1>1. /\ v = [i \in D |-> v[i]] /\ w = [i \in D |-> w[i]]
      /\ \A i \in D : i = 0 => v[i] = w[i]
      /\ \A i \in D : i # 0 /\ v[i - 1] = w[i - 1] => v[i] = w[i]
  BY DEF IsWalk
<1>2. m \in Nat
  OBVIOUS
<1> HIDE DEF m
<1>3. ASSUME T # {} PROVE FALSE
  <2>1. T \in SUBSET Nat
    OBVIOUS
  <2>2. PICK x \in T : \A y \in T : x <= y
    BY <1>3, <2>1, NatMin
  <2>3. x # 0
    BY <1>1
  <2>4. x - 1 \in D /\ ~(x <= x - 1)
    BY <1>2, <2>1, <2>3
  <2> QED BY <1>1, <2>2, <2>3, <2>4
<1>4. \A i \in D : v[i] = w[i]
  BY <1>3
<1> QED BY <1>1, <1>4

\* The walk from the head of a list meets its blocks and its end, and nothing else.
LEMMA WalkIsList ==
  ASSUME NEW p, NEW S, Lists(next, free_list_head[p], p, S), MaxPages * PageSize \in Nat
  PROVE  END_OF_FREELIST \in Range(Walk(p)) /\ FreeBlocks(p) = S
<1> DEFINE m == MaxPages * PageSize
<1>0. PICK n \in Nat : \E s : /\ IsList(next, free_list_head[p], p, n, s)
                              /\ S = {s[i] : i \in 0..(n - 1)}
  BY DEF Lists
<1>1. PICK s : IsList(next, free_list_head[p], p, n, s) /\ S = {s[i] : i \in 0..(n - 1)}
  BY <1>0
<1>2. n <= m
  BY <1>1, ListIsShort
<1> DEFINE w == [i \in 0..m |-> IF i <= n THEN s[i] ELSE END_OF_FREELIST]
<1>3. END_OF_FREELIST \notin Units
  BY DEF END_OF_FREELIST, Units
<1>4. IsWalk(w, p)
  <2>1. ASSUME NEW i \in 0..m
        PROVE  w[i] = IF i = 0 THEN free_list_head[p]
                      ELSE IF w[i - 1] \in Units THEN NextBlock(next, w[i - 1], p) ELSE w[i - 1]
    <3>1. CASE i = 0
      BY <1>1, <3>1 DEF IsList
    <3>2. CASE i # 0 /\ i <= n
      <4>1. i - 1 \in 0..(n - 1) /\ i - 1 \in 0..m /\ (i - 1) + 1 = i
        BY <3>2
      <4>2. w[i] = s[i] /\ w[i - 1] = s[i - 1]
        BY <3>2, <4>1
      <4> QED BY <1>1, <3>2, <4>1, <4>2 DEF IsList
    <3>3. CASE i > n
      <4>1. i - 1 \in 0..m /\ w[i] = END_OF_FREELIST
        BY <3>3
      <4>2. w[i - 1] = END_OF_FREELIST
        <5>1. CASE i - 1 = n
          BY <1>1, <4>1, <5>1 DEF IsList
        <5>2. CASE i - 1 # n
          BY <3>3, <4>1, <5>2
        <5> QED BY <5>1, <5>2
      <4> QED BY <1>3, <3>3, <4>1, <4>2
    <3> QED BY <3>1, <3>2, <3>3
  <2> QED BY <2>1 DEF IsWalk
<1> HIDE DEF w
<1>5. Walk(p) = w
  <2>1. IsWalk(Walk(p), p)
    <3>1. \E v : IsWalk(v, p)
      BY <1>4
    <3> QED BY <3>1, Zenon DEF Walk, IsWalk
  <2> QED BY <1>4, <2>1, OneWalk
<1>6. DOMAIN w = 0..m /\ \A i \in 0..m : w[i] = IF i <= n THEN s[i] ELSE END_OF_FREELIST
  BY DEF w
<1>7. Range(w) = S \cup {END_OF_FREELIST}
  <2>1. ASSUME NEW i \in 0..m PROVE w[i] \in S \cup {END_OF_FREELIST}
    <3>1. i \in 0..(n - 1) \/ i = n \/ i > n
      OBVIOUS
    <3> QED BY <1>1, <1>6, <3>1 DEF IsList
  <2>2. n \in 0..m /\ w[n] = END_OF_FREELIST
    BY <1>1, <1>2, <1>6 DEF IsList
  <2>3. ASSUME NEW i \in 0..(n - 1) PROVE i \in 0..m /\ w[i] = s[i]
    BY <1>2, <1>6
  <2> HIDE DEF m
  <2> QED BY <1>1, <1>6, <2>1, <2>2, <2>3 DEF Range
<1>8. END_OF_FREELIST \notin S
  BY <1>1, <1>3 DEF IsList
<1> QED BY <1>5, <1>7, <1>8 DEF FreeBlocks

\* With the free blocks of every pool known, the clauses are those of Owned and Pieces.
LEMMA BlocksAreKept == IInv => EveryBlockLiveOrFree
<1> SUFFICES ASSUME IInv PROVE EveryBlockLiveOrFree
  OBVIOUS
<1>1. PICK F : Sound(F)
  BY DEF IInv
<1>2. PoolCount \in Nat \ {0} /\ MaxPages * PageSize \in Nat
  BY Numbers DEF IInv
<1>3. /\ F \in [Pools -> SUBSET Units] /\ live \subseteq [at : Units \cup Large, kind : Kinds]
      /\ LiveInPages(live, Top) /\ FreeClear(F) /\ FreeClearOfLive(F, live)
      /\ Owned(F, live, PoolBlocks)
  BY <1>1 DEF Sound, Pieces
<1>4. \A p \in Pools : END_OF_FREELIST \in Range(Walk(p)) /\ FreeBlocks(p) = F[p]
  BY <1>1, <1>2, WalkIsList DEF Sound
<1>5. \A p \in Pools : p..(PoolCount - 1) \subseteq Pools /\ PoolBlocks[p] = Blocks(p)
  BY <1>2 DEF Pools, PoolBlocks
<1>6. ASSUME NEW p \in Pools PROVE F[p] \subseteq UNION {Blocks(q) : q \in p..(PoolCount - 1)}
  BY <1>3, <1>5 DEF Owned
<1>7. \A p \in Pools : PoolSize(p) \in Nat \ {0}
  BY PoolSizes
<1>8. ASSUME NEW p \in Pools PROVE F[p] \cap LiveBlocks = {}
  <2> SUFFICES ASSUME NEW o \in live, o.at \in F[p] PROVE FALSE
    BY DEF LiveBlocks
  <2>1. Clear(o.at, Extent(o.kind), o.at, PoolSize(p))
    BY <1>3 DEF FreeClearOfLive
  <2>2. o.at \in Int /\ Extent(o.kind) \in Nat \ {0}
    BY <1>3, Extents DEF Units
  <2> QED BY <1>7, <2>1, <2>2 DEF Clear
<1>9. ASSUME NEW p \in Pools, NEW q \in Pools \ {p} PROVE F[p] \cap F[q] = {}
  <2> SUFFICES ASSUME NEW b \in F[p], b \in F[q] PROVE FALSE
    OBVIOUS
  <2>1. Clear(b, PoolSize(p), b, PoolSize(q))
    BY <1>3 DEF FreeClear
  <2>2. b \in Int
    BY <1>3 DEF Units
  <2> QED BY <1>7, <2>1, <2>2 DEF Clear
<1>10. ASSUME NEW p \in Pools, NEW b \in Blocks(p)
       PROVE  b \in (UNION {F[q] : q \in Pools}) \cup LiveBlocks
  <2>1. CASE \E q \in Pools : b \in F[q]
    BY <2>1
  <2>2. CASE \E o \in live : InPool(o.kind) /\ o.at = b
    <3>1. PICK o \in live : InPool(o.kind) /\ o.at = b
      BY <2>2
    <3>2. b \in Units
      BY <1>3, <3>1 DEF LiveInPages
    <3> QED BY <3>1, <3>2, LargeClear DEF LiveBlocks
  <2> QED BY <1>3, <1>5, <2>1, <2>2 DEF Owned
<1>11. ASSUME NEW o \in live, o.at \notin Large PROVE \E p \in Pools : o.at \in Blocks(p)
  <2>1. InPool(o.kind)
    BY <1>3, <1>11 DEF LiveInPages
  <2>2. FindPool(AllocSize[o.kind]) \in Pools
    BY <2>1 DEF InPool
  <2> QED BY <1>3, <1>5, <2>1, <2>2 DEF Owned
<1>12. UNION {Blocks(p) : p \in Pools} = (UNION {F[p] : p \in Pools}) \cup LiveBlocks
  <2>1. ASSUME NEW p \in Pools, NEW b \in F[p] PROVE \E q \in Pools : b \in Blocks(q)
    BY <1>5, <1>6
  <2>2. \A b \in LiveBlocks : \E q \in Pools : b \in Blocks(q)
    BY <1>11 DEF LiveBlocks
  <2> QED BY <1>10, <2>1, <2>2
<1>13. UNION {FreeBlocks(p) : p \in Pools} = UNION {F[p] : p \in Pools}
  BY <1>4
<1> QED BY <1>4, <1>6, <1>8, <1>9, <1>12, <1>13 DEF EveryBlockLiveOrFree

\* ssm_mem_alloc, ssm_mem_prealloc and ssm_mem_free keep every free list whole:
\* from each head the walk of ssm_mem_statistics_collect ends, no block is in two
\* lists or in a list and in use, and none is lost.
THEOREM BlocksLiveOrFree == Spec => []EveryBlockLiveOrFree
BY BlocksAreKept, Invariance, PTL

-----------------------------------------------------------------------------
(***************************************************************************)
(* The pools as an allocator.                                              *)
(***************************************************************************)
\* An object that joins the live ones has memory apart from theirs, or is one of them.
LEMMA GivesApart ==
  ASSUME IInv, IInv', error = "none", UNCHANGED error,
         NEW o \in [at : Units \cup Large, kind : Kinds], live' = live \cup {o}
  PROVE  [Abstract!Next]_(Abstract!vars)
<1>1. CASE o \in live
  <2>1. live' = live
    BY <1>1
  <2> QED BY <2>1 DEF Abstract!vars
<1>2. CASE o \notin live
  <2>1. PICK F : Sound(F)'
    BY DEF IInv
  <2>2. live' \subseteq [at : Units \cup Large, kind : Kinds] /\ LiveClear(live')
    BY <2>1 DEF Sound, Pieces
  <2>3. ASSUME NEW q \in live PROVE Abstract!Apart(o, q)
    <3>1. q \in live' /\ o \in live' /\ q # o
      BY <1>2
    <3>2. Clear(o.at, Extent(o.kind), q.at, Extent(q.kind))
      BY <2>2, <3>1 DEF LiveClear
    <3>3. o.at \in Int /\ q.at \in Int
      <4>1. Units \cup Large \subseteq Int
        BY LargeClear DEF Units
      <4> QED BY <2>2, <3>1, <4>1
    <3>4. /\ AllocSize[o.kind] \in Int /\ AllocSize[o.kind] <= Extent(o.kind)
          /\ AllocSize[q.kind] \in Int /\ AllocSize[q.kind] <= Extent(q.kind)
          /\ Extent(o.kind) \in Int /\ Extent(q.kind) \in Int
      <4>1. o.kind \in Kinds /\ q.kind \in Kinds
        BY <2>2, <3>1
      <4> QED BY <4>1, Extents
    <3> QED BY <3>2, <3>3, <3>4 DEF Clear, Abstract!Apart
  <2>4. Abstract!Alloc(o)
    BY <2>3 DEF Abstract!Alloc
  <2> QED BY <2>4 DEF Abstract!Next
<1> QED BY <1>1, <1>2

\* Every step of the pools is one of Allocator's or none.
LEMMA StepImplements ==
  IInv /\ IInv' /\ [Next]_vars => [Abstract!Next]_(Abstract!vars)
<1> SUFFICES ASSUME IInv, IInv', [Next]_vars PROVE [Abstract!Next]_(Abstract!vars)
  OBVIOUS
<1>1. /\ live \subseteq [at : Units \cup Large, kind : Kinds]
      /\ live' \subseteq [at : Units \cup Large, kind : Kinds]
  BY DEF IInv, TypeOK
<1>2. ASSUME error = "none", UNCHANGED error, NEW k, NEW at, Given(k, at)
      PROVE  [Abstract!Next]_(Abstract!vars)
  <2> DEFINE o == [at |-> at, kind |-> k]
  <2>1. live' = live \cup {o}
    BY <1>2 DEF Given
  <2>2. o \in [at : Units \cup Large, kind : Kinds]
    BY <1>1, <2>1
  <2> HIDE DEF o
  <2> QED BY <1>2, <2>1, <2>2, GivesApart
<1>3. ASSUME error = "none", NEW k \in Kinds, AllocFromList(k)
      PROVE  [Abstract!Next]_(Abstract!vars)
  BY <1>2, <1>3 DEF AllocFromList
<1>4. ASSUME error = "none", NEW k \in Kinds, AllocFromNewPage(k)
      PROVE  [Abstract!Next]_(Abstract!vars)
  BY <1>2, <1>4 DEF AllocFromNewPage
<1>5. ASSUME error = "none", NEW k \in Kinds, AllocLarge(k)
      PROVE  [Abstract!Next]_(Abstract!vars)
  BY <1>2, <1>5 DEF AllocLarge
<1>6. ASSUME NEW k \in Kinds, Prealloc(k)
      PROVE  [Abstract!Next]_(Abstract!vars)
  BY <1>6 DEF Prealloc, Abstract!vars
<1>7. ASSUME error = "none", NEW k \in Kinds, OutOfPages(k)
      PROVE  [Abstract!Next]_(Abstract!vars)
  BY <1>7 DEF OutOfPages, Abstract!Next, Abstract!Exhausted
<1>8. ASSUME error = "none", NEW o \in live, FreeToList(o) \/ FreeLarge(o)
      PROVE  [Abstract!Next]_(Abstract!vars)
  <2>1. live' = live \ {o} /\ UNCHANGED error /\ o \in [at : Units \cup Large, kind : Kinds]
    BY <1>1, <1>8 DEF FreeToList, FreeLarge
  <2>2. Abstract!Free(o)
    BY <2>1 DEF Abstract!Free
  <2> QED BY <1>8, <2>1, <2>2 DEF Abstract!Next
<1>9. CASE UNCHANGED vars
  BY <1>9 DEF vars, Abstract!vars
<1> QED BY <1>3, <1>4, <1>5, <1>6, <1>7, <1>8, <1>9 DEF Next

\* Whatever the pages, the pools and the sizes, ssm_mem_alloc gives memory that no
\* live object has any part of, out of a list, a new page or alloc_mem alike.
THEOREM Implementation == Spec => ImplementsAllocator
<1>1. Init => Abstract!Init
  BY DEF Init, Abstract!Init
<1> QED BY <1>1, StepImplements, Invariance, PTL DEF Spec, ImplementsAllocator, Abstract!Spec
-----------------------------------------------------------------------------
(***************************************************************************)
(* References: values, how many there are in a sequence, and where.        *)
(***************************************************************************)
GoodValues == {v \in [heap : BOOLEAN, n : Nat] : v.heap => v.n \in Ids}

GoodObjects ==
  [kind : {"time", "blob", "adt", "sv", "closure"},
   count : 0..(2^CountBits - 1), vals : Seq(GoodValues),
   tag : Nat, f : {"", "f"}, cap : Nat,
   later_time : {Never, Soon}, later_value : GoodValues, last_updated : {Never},
   triggers : {{}}]

Memories == [obj : UNION {[S -> GoodObjects] : S \in SUBSET Ids}, fault : BOOLEAN]

\* A power of two is a positive number.
LEMMA PowerIsPositive == ASSUME NEW n \in Nat PROVE 2^n \in Nat \ {0}
<1>1. IsFiniteSet(1..n) /\ Cardinality(1..n) = n
  BY FS_Interval
<1>2. IsFiniteSet(SUBSET (1..n)) /\ Cardinality(SUBSET (1..n)) = 2^n
  BY <1>1, FS_SUBSET
<1>3. SUBSET (1..n) # {}
  OBVIOUS
<1> QED BY <1>2, <1>3, FS_CardinalityType, FS_EmptySet

\* How many references to an object the count field can tell apart.
LEMMA CountLimit ==
  /\ 2^CountBits \in Nat \ {0} /\ MaxRefs \in Nat /\ MaxRefs + 1 < 2^CountBits
  /\ \A x \in 0..(2^CountBits - 1) : x % 2^CountBits = x
<1>1. 2^CountBits \in Nat \ {0} /\ MaxRefs \in Nat /\ MaxRefs + 1 < 2^CountBits
  BY PowerIsPositive, ObjectsAssumption, RefCountAssumption
<1> DEFINE n == 2^CountBits
<1> HIDE DEF n
<1>2. n \in Nat \ {0} => \A x \in 0..(n - 1) : x % n = x
  OBVIOUS
<1> QED BY <1>1, <1>2 DEF n

LEMMA NothingIsNumber == Nothing \in GoodValues /\ ~OnHeap(Nothing) /\ \A o : Nothing # Ref(o)
<1>1. WordBits - 1 \in Nat
  BY ObjectsAssumption
<1>2. 2^(WordBits - 1) \in Nat \ {0}
  BY <1>1, PowerIsPositive
<1> DEFINE n == 2^(WordBits - 1)
<1> HIDE DEF n
<1>3. n \in Nat \ {0} => 0 % n \in Nat
  OBVIOUS
<1>4. 0 % 2^(WordBits - 1) \in Nat
  BY <1>2, <1>3 DEF n
<1> QED BY <1>4 DEF Nothing, Marshal, OnHeap, Ref, GoodValues

LEMMA RefIs ==
  /\ \A v \in GoodValues : \A o : v = Ref(o) <=> OnHeap(v) /\ v.n = o
  /\ \A v \in GoodValues : OnHeap(v) => v.n \in Ids /\ v = Ref(v.n)
  /\ \A o \in Ids : Ref(o) \in GoodValues /\ OnHeap(Ref(o)) /\ Ref(o).n = o
BY DEF GoodValues, OnHeap, Ref, Ids

LEMMA CountOne == \A o, v : Count(o, <<v>>) = IF v = Ref(o) THEN 1 ELSE 0
<1> SUFFICES ASSUME NEW o, NEW v
             PROVE  Count(o, <<v>>) = IF v = Ref(o) THEN 1 ELSE 0
  OBVIOUS
<1>1. {i \in DOMAIN <<v>> : <<v>>[i] = Ref(o)} = IF v = Ref(o) THEN {1} ELSE {}
  OBVIOUS
<1> QED BY <1>1, FS_EmptySet, FS_Singleton DEF Count

LEMMA CountNone == \A o : Count(o, <<>>) = 0
<1>1. \A o : {i \in DOMAIN <<>> : <<>>[i] = Ref(o)} = {}
  OBVIOUS
<1> QED BY <1>1, FS_EmptySet DEF Count

LEMMA CountFinite ==
  ASSUME NEW S, NEW vs \in Seq(S), NEW o
  PROVE  /\ IsFiniteSet({i \in DOMAIN vs : vs[i] = Ref(o)})
         /\ Count(o, vs) \in Nat
<1>1. DOMAIN vs = 1..Len(vs) /\ Len(vs) \in Nat
  OBVIOUS
<1>2. IsFiniteSet(1..Len(vs))
  BY <1>1, FS_Interval
<1>3. IsFiniteSet({i \in DOMAIN vs : vs[i] = Ref(o)})
  BY <1>1, <1>2, FS_Subset
<1> QED BY <1>3, FS_CardinalityType DEF Count

LEMMA CountAppend ==
  ASSUME NEW S, NEW vs \in Seq(S), NEW v \in S, NEW o
  PROVE  Count(o, Append(vs, v)) = Count(o, vs) + Count(o, <<v>>)
<1> DEFINE I == {i \in DOMAIN vs : vs[i] = Ref(o)}
           J == {i \in DOMAIN Append(vs, v) : Append(vs, v)[i] = Ref(o)}
<1>1. IsFiniteSet(I) /\ Cardinality(I) = Count(o, vs) /\ Cardinality(J) = Count(o, Append(vs, v))
  BY CountFinite DEF Count
<1>2. Cardinality(I) \in Nat
  BY <1>1, FS_CardinalityType
<1>3. /\ DOMAIN vs = 1..Len(vs) /\ Len(vs) \in Nat
      /\ DOMAIN Append(vs, v) = 1..(Len(vs) + 1)
      /\ \A i \in 1..Len(vs) : Append(vs, v)[i] = vs[i]
      /\ Append(vs, v)[Len(vs) + 1] = v
  OBVIOUS
<1>4. J = IF v = Ref(o) THEN I \cup {Len(vs) + 1} ELSE I
  BY <1>3
<1>5. Len(vs) + 1 \notin I
  BY <1>3
<1> HIDE DEF I, J
<1>6. Cardinality(I \cup {Len(vs) + 1}) = Cardinality(I) + 1
  BY <1>1, <1>5, FS_AddElement
<1> QED BY <1>1, <1>2, <1>4, <1>6, CountOne

-----------------------------------------------------------------------------
\* Is the value in place i of object p a reference to o, and not yet dropped?
Refers(m, fs, c, p, i, o) ==
  /\ p \in Allocated(m)
  /\ i \in Places(m, p)
  /\ At(m, p, i) = Ref(o)
  /\ ~Dropped(fs, c, p, i)

LEMMA ReferrersAre ==
  ASSUME NEW m, NEW fs, NEW c, NEW o
  PROVE  /\ \A p, i : <<p, i>> \in Referrers(m, fs, c, o) <=> Refers(m, fs, c, p, i, o)
         /\ \A s \in Referrers(m, fs, c, o) : s = <<s[1], s[2]>>
BY DEF Referrers, Refers

LEMMA MemoryIs ==
  ASSUME NEW m \in Memories
  PROVE  /\ Allocated(m) \subseteq Ids
         /\ IsFiniteSet(Allocated(m))
         /\ m.obj \in [Allocated(m) -> GoodObjects]
         /\ m.fault \in BOOLEAN
         /\ \A p \in Allocated(m) : /\ Len(m.obj[p].vals) \in Nat
                                    /\ \A i \in Places(m, p) : At(m, p, i) \in GoodValues
<1>1. PICK S \in SUBSET Ids : m.obj \in [S -> GoodObjects]
  BY DEF Memories
<1>2. Allocated(m) = S
  BY <1>1 DEF Allocated
<1>3. IsFiniteSet(Ids)
  BY FS_Interval, RefCountAssumption DEF Ids
<1>4. IsFiniteSet(S)
  BY <1>3, FS_Subset
<1>5. \A p \in S : m.obj[p] \in GoodObjects
  BY <1>1
<1>6. ASSUME NEW p \in S
      PROVE  /\ Len(m.obj[p].vals) \in Nat
             /\ \A i \in Places(m, p) : At(m, p, i) \in GoodValues
  <2>1. m.obj[p].vals \in Seq(GoodValues) /\ m.obj[p].later_value \in GoodValues
    BY <1>5 DEF GoodObjects
  <2> QED BY <2>1, NothingIsNumber DEF Places, At, LaterValue, Ref
<1>7. m.fault \in BOOLEAN
  BY DEF Memories
<1> QED BY <1>1, <1>2, <1>4, <1>6, <1>7

LEMMA ReferrersFinite ==
  ASSUME NEW m \in Memories, NEW fs, NEW c, NEW o
  PROVE  /\ IsFiniteSet(Referrers(m, fs, c, o))
         /\ Cardinality(Referrers(m, fs, c, o)) \in Nat
<1> DEFINE Row(p) == {p} \X Places(m, p)
           All == UNION {Row(p) : p \in Allocated(m)}
<1>1. \A p \in Allocated(m) : IsFiniteSet(Row(p))
  <2> SUFFICES ASSUME NEW p \in Allocated(m) PROVE IsFiniteSet(Row(p))
    OBVIOUS
  <2>1. Len(m.obj[p].vals) \in Nat
    BY MemoryIs
  <2>2. \A n \in Nat : IsFiniteSet(0..n)
    BY FS_Interval
  <2>3. IsFiniteSet(Places(m, p))
    BY <2>1, <2>2 DEF Places
  <2> QED BY <2>3, FS_Singleton, FS_Product
<1>2. IsFiniteSet({Row(p) : p \in Allocated(m)})
  <2> DEFINE f == [p \in Allocated(m) |-> Row(p)]
             Rows == {Row(p) : p \in Allocated(m)}
  <2>1. f \in Surjection(Allocated(m), Rows)
    BY DEF Surjection
  <2> QED BY <2>1, MemoryIs, FS_Surjection
<1>3. IsFiniteSet(All)
  BY <1>1, <1>2, FS_UNION
<1>4. Referrers(m, fs, c, o) \subseteq All
  BY DEF Referrers
<1> QED BY <1>3, <1>4, FS_Subset, FS_CardinalityType

\* When a state differs from another in one place, there is one referrer less.
LEMMA ReferrersButOne ==
  ASSUME NEW m \in Memories, NEW fs, NEW c, NEW n \in Memories, NEW gs, NEW d, NEW o,
         NEW a, NEW j,
         \A p, i : Refers(n, gs, d, p, i, o) <=> Refers(m, fs, c, p, i, o) /\ ~(p = a /\ i = j)
  PROVE  Cardinality(Referrers(n, gs, d, o)) =
           Cardinality(Referrers(m, fs, c, o)) - IF Refers(m, fs, c, a, j, o) THEN 1 ELSE 0
<1> DEFINE R == Referrers(m, fs, c, o)
           T == Referrers(n, gs, d, o)
<1>1. \A p, i : /\ <<p, i>> \in R <=> Refers(m, fs, c, p, i, o)
                /\ <<p, i>> \in T <=> Refers(n, gs, d, p, i, o)
  BY ReferrersAre
<1>2. \A s \in R \cup T : s = <<s[1], s[2]>>
  BY ReferrersAre
<1>3. IsFiniteSet(R) /\ Cardinality(R) \in Nat
  BY ReferrersFinite
<1> HIDE DEF R, T
<1>4. T = R \ {<<a, j>>}
  BY <1>1, <1>2
<1>5. <<a, j>> \in R <=> Refers(m, fs, c, a, j, o)
  BY <1>1
<1>6. Cardinality(T) = IF <<a, j>> \in R THEN Cardinality(R) - 1 ELSE Cardinality(R)
  BY <1>3, <1>4, FS_RemoveElement
<1> QED BY <1>3, <1>5, <1>6 DEF R, T

LEMMA SameReferrers ==
  ASSUME NEW m, NEW fs, NEW c, NEW n, NEW gs, NEW d, NEW o,
         \A p, i : Refers(n, gs, d, p, i, o) <=> Refers(m, fs, c, p, i, o)
  PROVE  Referrers(n, gs, d, o) = Referrers(m, fs, c, o)
<1> DEFINE R == Referrers(m, fs, c, o)
           T == Referrers(n, gs, d, o)
<1>1. \A p, i : /\ <<p, i>> \in R <=> Refers(m, fs, c, p, i, o)
                /\ <<p, i>> \in T <=> Refers(n, gs, d, p, i, o)
  BY ReferrersAre
<1>2. \A s \in R \cup T : s = <<s[1], s[2]>>
  BY ReferrersAre
<1> HIDE DEF R, T
<1>3. R = T
  BY <1>1, <1>2
<1> QED BY <1>3 DEF R, T

-----------------------------------------------------------------------------
(***************************************************************************)
(* The inductive invariant, of a state in which value v is still to be     *)
(* dropped: the memory m, what is held (h) and lost (l), the frames fs and *)
(* the call c.                                                             *)
(***************************************************************************)
\* Every frame is for an object of its own, whose last reference is gone.
FramesOK(m, fs) ==
  /\ \A k \in DOMAIN fs :
       /\ fs[k].o \in Allocated(m)
       /\ m.obj[fs[k].o].count = 0
       /\ ~Pending(m, Ref(fs[k].o))
       /\ fs[k].i <= Len(m.obj[fs[k].o].vals) + 1
  /\ \A j, k \in DOMAIN fs : fs[j].o = fs[k].o => j = k

\* What is not referred to is about to be freed.
Alive(m, fs) ==
  \A o \in Allocated(m) : m.obj[o].count = 0 => \E k \in DOMAIN fs : fs[k].o = o

Shapes(m) ==
  \A o \in Allocated(m) :
    IF m.obj[o].kind = "sv" THEN Len(m.obj[o].vals) = 1 ELSE ~Pending(m, Ref(o))

\* A call's variable stays while values are dropped.
CallOK(m, fs, c) ==
  /\ c.op = "none" => c = NoCall
  /\ c.op # "none" => /\ OnHeap(c.var) /\ Live(m, c.var) /\ m.obj[c.var.n].kind = "sv"
                      /\ \A k \in DOMAIN fs : fs[k].o # c.var.n
  /\ c.op \in {"later", "update"} => Pending(m, c.var)
  /\ c.op = "update" => c.val = Nothing

Due(m, h, l, fs, c, v, o) ==
  h[o] + l[o] + Cardinality(Referrers(m, fs, c, o)) + Count(o, <<c.val>>) + Count(o, <<v>>)

Balanced(m, h, l, fs, c, v) ==
  \A o \in Ids :
    Due(m, h, l, fs, c, v, o) = IF o \in Allocated(m) THEN m.obj[o].count ELSE 0

\* No object refers to itself, nor does an assignment make one do so.
Ranked(m, fs, c, v, rank) ==
  /\ \A p, q \in Ids : \A i \in Nat : Refers(m, fs, c, p, i, q) => rank[q] < rank[p]
  /\ OnHeap(c.val) => rank[c.val.n] < rank[c.var.n]
  /\ c.op # "none" => /\ \A k \in DOMAIN fs : rank[fs[k].o] < rank[c.var.n]
                      /\ OnHeap(v) => rank[v.n] < rank[c.var.n]

GoodFrames == Seq([o : Ids, i : Nat \ {0}])
GoodCalls  == [op : {"none", "assign", "later", "update"}, var : GoodValues, val : GoodValues]

Typed(m, h, l, fs, c, v) ==
  /\ m \in Memories /\ ~m.fault
  /\ h \in [Ids -> Nat] /\ l \in [Ids -> Nat]
  /\ fs \in GoodFrames
  /\ c \in GoodCalls
  /\ v \in GoodValues

Good(m, h, l, fs, c, v) ==
  /\ Typed(m, h, l, fs, c, v)
  /\ FramesOK(m, fs)
  /\ Alive(m, fs)
  /\ Shapes(m)
  /\ CallOK(m, fs, c)
  /\ Balanced(m, h, l, fs, c, v)
  /\ \E rank \in [Ids -> Nat] : Ranked(m, fs, c, v, rank)

-----------------------------------------------------------------------------
LEMMA Summands ==
  ASSUME NEW m, NEW h, NEW l, NEW fs, NEW c, NEW v, Typed(m, h, l, fs, c, v), NEW o \in Ids
  PROVE  /\ h[o] \in Nat /\ l[o] \in Nat
         /\ Cardinality(Referrers(m, fs, c, o)) \in Nat
         /\ Count(o, <<c.val>>) = IF c.val = Ref(o) THEN 1 ELSE 0
         /\ Count(o, <<v>>) = IF v = Ref(o) THEN 1 ELSE 0
<1>1. Cardinality(Referrers(m, fs, c, o)) \in Nat
  BY ReferrersFinite DEF Typed
<1>2. h[o] \in Nat /\ l[o] \in Nat
  BY DEF Typed
<1> QED BY <1>1, <1>2, CountOne

\* What is referred to is allocated and counted.
LEMMA Present ==
  ASSUME NEW m, NEW h, NEW l, NEW fs, NEW c, NEW v,
         Typed(m, h, l, fs, c, v), Balanced(m, h, l, fs, c, v), NEW o \in Ids,
         \/ h[o] > 0
         \/ v = Ref(o)
         \/ c.val = Ref(o)
         \/ \E p, i : Refers(m, fs, c, p, i, o)
  PROVE  o \in Allocated(m) /\ m.obj[o].count \in Nat \ {0}
<1> DEFINE R == Referrers(m, fs, c, o)
<1>1. h[o] \in Nat /\ l[o] \in Nat /\ Cardinality(R) \in Nat
  BY Summands
<1>2. (\E p, i : Refers(m, fs, c, p, i, o)) => Cardinality(R) # 0
  <2>1. (\E p, i : Refers(m, fs, c, p, i, o)) => R # {}
    BY ReferrersAre
  <2>2. IsFiniteSet(R)
    BY ReferrersFinite DEF Typed
  <2> QED BY <2>1, <2>2, FS_EmptySet
<1>3. Due(m, h, l, fs, c, v, o) > 0
  BY <1>1, <1>2, Summands DEF Due
<1> QED BY <1>3, Summands DEF Balanced, Due

\* What values vs refer to is allocated.
Known(m, vs) == \A i \in DOMAIN vs : OnHeap(vs[i]) => vs[i].n \in Allocated(m)

\* A memory that differs from another in the counts only.
SameContents(m, n) ==
  /\ Allocated(n) = Allocated(m)
  /\ n.fault = m.fault
  /\ \A p \in Allocated(m) :
       /\ n.obj[p].kind = m.obj[p].kind
       /\ n.obj[p].vals = m.obj[p].vals
       /\ n.obj[p].later_time = m.obj[p].later_time
       /\ n.obj[p].later_value = m.obj[p].later_value

LEMMA SamePlaces ==
  ASSUME NEW m, NEW n, SameContents(m, n)
  PROVE  /\ \A p \in Allocated(m) : /\ Places(n, p) = Places(m, p)
                                    /\ \A i : At(n, p, i) = At(m, p, i)
                                    /\ Pending(n, Ref(p)) <=> Pending(m, Ref(p))
         /\ \A fs, c, p, i, o : Refers(n, fs, c, p, i, o) <=> Refers(m, fs, c, p, i, o)
<1>1. \A p \in Allocated(m) : /\ Places(n, p) = Places(m, p)
                              /\ \A i : At(n, p, i) = At(m, p, i)
                              /\ Pending(n, Ref(p)) <=> Pending(m, Ref(p))
  BY DEF SameContents, Places, At, Pending, LaterValue, Ref
<1> QED BY <1>1 DEF Refers, SameContents

\* One field of an object changes.
LEMMA ObjectWith ==
  ASSUME NEW r \in GoodObjects
  PROVE  /\ \A x \in 0..(2^CountBits - 1) :
              LET t == [r EXCEPT !.count = x]
              IN  /\ t \in GoodObjects /\ t.count = x
                  /\ t.kind = r.kind /\ t.vals = r.vals
                  /\ t.later_time = r.later_time /\ t.later_value = r.later_value
         /\ \A x \in {Never, Soon} :
              LET t == [r EXCEPT !.later_time = x]
              IN  /\ t \in GoodObjects /\ t.later_time = x
                  /\ t.kind = r.kind /\ t.vals = r.vals
                  /\ t.count = r.count /\ t.later_value = r.later_value
         /\ \A x \in GoodValues :
              LET t == [r EXCEPT !.later_value = x]
              IN  /\ t \in GoodObjects /\ t.later_value = x
                  /\ t.kind = r.kind /\ t.vals = r.vals
                  /\ t.count = r.count /\ t.later_time = r.later_time
         /\ \A x \in Seq(GoodValues) :
              LET t == [r EXCEPT !.vals = x]
              IN  /\ t \in GoodObjects /\ t.vals = x
                  /\ t.kind = r.kind /\ t.later_value = r.later_value
                  /\ t.count = r.count /\ t.later_time = r.later_time
BY DEF GoodObjects

LEMMA ReleaseIs ==
  ASSUME NEW m \in Memories, NEW v \in GoodValues,
         OnHeap(v), Live(m, v), m.obj[v.n].count \in Nat \ {0}
  PROVE  /\ Release(m, v) \in Memories
         /\ SameContents(m, Release(m, v))
         /\ \A p \in Allocated(m) : Release(m, v).obj[p].count =
                                      IF p = v.n THEN m.obj[p].count - 1 ELSE m.obj[p].count
         /\ Dies(m, v) <=> m.obj[v.n].count = 1
<1> DEFINE x == m.obj[v.n].count
           n == [m EXCEPT !.obj[v.n].count = x - 1]
<1>1. PICK S \in SUBSET Ids : m.obj \in [S -> GoodObjects] /\ S = Allocated(m)
  BY DEF Memories, Allocated
<1>2. v.n \in S /\ m.obj[v.n] \in GoodObjects
  BY <1>1 DEF Live
<1>3. x \in 1..(2^CountBits - 1)
  <2>1. x \in 0..(2^CountBits - 1)
    BY <1>2 DEF GoodObjects
  <2> QED BY <2>1, CountLimit
<1>4. x - 1 \in 0..(2^CountBits - 1) /\ (x - 1) % 2^CountBits = x - 1
  <2> DEFINE top == 2^CountBits
  <2> HIDE DEF top, x
  <2>1. x - 1 \in 0..(top - 1)
    BY <1>3, CountLimit DEF top
  <2> QED BY <2>1, CountLimit DEF top
<1>5. Release(m, v) = n
  BY <1>4 DEF Release, Live
<1>6. n.obj \in [S -> GoodObjects] /\ n.fault = m.fault /\ n = [m EXCEPT !.obj = n.obj]
  <2>1. [m.obj[v.n] EXCEPT !.count = x - 1] \in GoodObjects
    BY <1>2, <1>4 DEF GoodObjects
  <2>2. n.obj = [m.obj EXCEPT ![v.n] = [m.obj[v.n] EXCEPT !.count = x - 1]]
    BY DEF Memories
  <2> QED BY <1>1, <2>1, <2>2 DEF Memories
<1>7. n \in Memories
  BY <1>6 DEF Memories
<1>8. \A p \in S : n.obj[p] = IF p = v.n THEN [m.obj[p] EXCEPT !.count = x - 1] ELSE m.obj[p]
  BY <1>1 DEF Memories
<1>12. \A p \in S : m.obj[p] \in GoodObjects
  BY <1>1
<1> DEFINE y == x - 1
<1>14. y \in 0..(2^CountBits - 1) /\ y = m.obj[v.n].count - 1
  BY <1>4
<1>15. \A p \in S : n.obj[p] = IF p = v.n THEN [m.obj[p] EXCEPT !.count = y] ELSE m.obj[p]
  BY <1>8
<1> HIDE DEF n, y
<1>13. Allocated(n) = S /\ n.fault = m.fault
  BY <1>6 DEF Allocated
<1>16. ASSUME NEW p \in S
       PROVE  LET t == [m.obj[p] EXCEPT !.count = y]
              IN  /\ t.kind = m.obj[p].kind /\ t.vals = m.obj[p].vals /\ t.count = y
                  /\ t.later_time = m.obj[p].later_time
                  /\ t.later_value = m.obj[p].later_value
  BY <1>12, <1>16 DEF GoodObjects
<1>9. SameContents(m, n)
  BY <1>1, <1>15, <1>13, <1>16 DEF SameContents
<1>10. \A p \in S : n.obj[p].count = IF p = v.n THEN m.obj[p].count - 1 ELSE m.obj[p].count
  BY <1>14, <1>15, <1>16
<1>11. Dies(m, v) <=> x = 1
  BY <1>3, <1>4 DEF Dies
<1> QED BY <1>1, <1>5, <1>7, <1>9, <1>10, <1>11

\* The time of what is pending changes.
WithTime(m, v, t) == [m EXCEPT !.obj[v.n].later_time = t]

LEMMA TimeIs ==
  ASSUME NEW m \in Memories, NEW v, v.n \in Allocated(m), NEW t \in {Never, Soon}
  PROVE  /\ WithTime(m, v, t) \in Memories
         /\ Allocated(WithTime(m, v, t)) = Allocated(m)
         /\ WithTime(m, v, t).fault = m.fault
         /\ \A p \in Allocated(m) :
              /\ WithTime(m, v, t).obj[p].kind = m.obj[p].kind
              /\ WithTime(m, v, t).obj[p].vals = m.obj[p].vals
              /\ WithTime(m, v, t).obj[p].count = m.obj[p].count
              /\ WithTime(m, v, t).obj[p].later_value = m.obj[p].later_value
              /\ WithTime(m, v, t).obj[p].later_time =
                   IF p = v.n THEN t ELSE m.obj[p].later_time
<1> DEFINE n == WithTime(m, v, t)
<1>1. PICK S \in SUBSET Ids : m.obj \in [S -> GoodObjects] /\ S = Allocated(m)
  BY DEF Memories, Allocated
<1>7. \A p \in S : m.obj[p] \in GoodObjects
  BY <1>1
<1>2. [m.obj[v.n] EXCEPT !.later_time = t] \in GoodObjects
  BY <1>1, <1>7, ObjectWith
<1>3. /\ n.obj = [m.obj EXCEPT ![v.n] = [m.obj[v.n] EXCEPT !.later_time = t]]
      /\ n = [m EXCEPT !.obj = n.obj]
      /\ n.fault = m.fault
  BY DEF WithTime, Memories
<1>4. n.obj \in [S -> GoodObjects]
  BY <1>1, <1>2, <1>3
<1>5. n \in Memories
  BY <1>3, <1>4 DEF Memories
<1>6. \A p \in S : n.obj[p] = IF p = v.n THEN [m.obj[p] EXCEPT !.later_time = t] ELSE m.obj[p]
  BY <1>1, <1>3
<1> HIDE DEF n
<1> QED BY <1>1, <1>3, <1>4, <1>5, <1>6, <1>7, ObjectWith DEF Allocated, n

LEMMA UnscheduleIs ==
  ASSUME NEW m \in Memories, NEW v, v.n \in Allocated(m)
  PROVE  /\ Unschedule(m, v) = WithTime(m, v, Never)
         /\ Unschedule(m, v) \in Memories
         /\ Allocated(Unschedule(m, v)) = Allocated(m)
         /\ Unschedule(m, v).fault = m.fault
         /\ \A p \in Allocated(m) :
              /\ Unschedule(m, v).obj[p].kind = m.obj[p].kind
              /\ Unschedule(m, v).obj[p].vals = m.obj[p].vals
              /\ Unschedule(m, v).obj[p].count = m.obj[p].count
              /\ Unschedule(m, v).obj[p].later_value = m.obj[p].later_value
              /\ Unschedule(m, v).obj[p].later_time =
                   IF p = v.n THEN Never ELSE m.obj[p].later_time
<1>1. Unschedule(m, v) = WithTime(m, v, Never)
  BY DEF Unschedule, WithTime
<1> QED BY <1>1, TimeIs

\* The places of a variable whose assignment is taken back.
LEMMA UnscheduledPlaces ==
  ASSUME NEW m \in Memories, NEW v \in GoodValues, OnHeap(v), v.n \in Allocated(m)
  PROVE  /\ \A p \in Allocated(m) :
              /\ Places(Unschedule(m, v), p) = Places(m, p)
              /\ \A i : At(Unschedule(m, v), p, i) =
                          IF p = v.n /\ i = 0 THEN Nothing ELSE At(m, p, i)
              /\ Pending(Unschedule(m, v), Ref(p)) <=> p # v.n /\ Pending(m, Ref(p))
         /\ \A fs, c, p, i, o :
              Refers(Unschedule(m, v), fs, c, p, i, o) <=>
                Refers(m, fs, c, p, i, o) /\ ~(p = v.n /\ i = 0)
<1> DEFINE n == Unschedule(m, v)
<1>1. \A p \in Allocated(m) :
        /\ Places(n, p) = Places(m, p)
        /\ \A i : At(n, p, i) = IF p = v.n /\ i = 0 THEN Nothing ELSE At(m, p, i)
        /\ Pending(n, Ref(p)) <=> p # v.n /\ Pending(m, Ref(p))
  BY UnscheduleIs DEF Places, At, Pending, LaterValue, Ref
<1>2. Allocated(n) = Allocated(m) /\ \A o : Nothing # Ref(o)
  BY UnscheduleIs, NothingIsNumber
<1> HIDE DEF n
<1> QED BY <1>1, <1>2 DEF Refers, n

-----------------------------------------------------------------------------
(***************************************************************************)
(* ssm_drop of the value that is still to be dropped.                      *)
(***************************************************************************)
\* Drop, of memory m and lost references l to memory n, frames gs and lost references k.
Drops(m, v, fs, l, n, gs, k) ==
  IF Dies(m, v)
  THEN /\ n = Unschedule(Release(m, v), v)
       /\ gs = Append(fs, [o |-> v.n, i |-> 1])
       /\ k = IF Pending(m, v) THEN Plus(l, <<LaterValue(m, v)>>) ELSE l
  ELSE n = Release(m, v) /\ gs = fs /\ k = l

\* A value to drop that is a reference is to a live object, and not to the variable
\* of the call.
LEMMA ToDrop ==
  ASSUME NEW m, NEW h, NEW l, NEW fs, NEW c, NEW v, Good(m, h, l, fs, c, v), OnHeap(v)
  PROVE  /\ v.n \in Ids /\ v = Ref(v.n) /\ Live(m, v) /\ m.obj[v.n].count \in Nat \ {0}
         /\ c.op # "none" => v.n # c.var.n
         /\ \A k \in DOMAIN fs : fs[k].o # v.n
<1>1. Typed(m, h, l, fs, c, v) /\ Balanced(m, h, l, fs, c, v) /\ FramesOK(m, fs)
  BY DEF Good
<1>2. v.n \in Ids /\ v = Ref(v.n)
  BY <1>1, RefIs DEF Typed
<1>3. v.n \in Allocated(m) /\ m.obj[v.n].count \in Nat \ {0}
  BY <1>1, <1>2, Present
<1>4. \A k \in DOMAIN fs : fs[k].o # v.n
  BY <1>1, <1>3 DEF FramesOK
<1>5. ASSUME c.op # "none" PROVE v.n # c.var.n
  <2>1. PICK rank \in [Ids -> Nat] : Ranked(m, fs, c, v, rank)
    BY DEF Good
  <2>2. rank[v.n] < rank[c.var.n] /\ rank[v.n] \in Nat
    BY <1>2, <1>5, <2>1 DEF Ranked
  <2> QED BY <2>2
<1> QED BY <1>2, <1>3, <1>4, <1>5 DEF Live

\* It was a number, or there are other references.
LEMMA DropCounts ==
  ASSUME NEW m, NEW h, NEW l, NEW fs, NEW c, NEW v, Good(m, h, l, fs, c, v), ~Dies(m, v)
  PROVE  Good(Release(m, v), h, l, fs, c, Nothing)
<1> DEFINE n == Release(m, v)
<1>1. /\ Typed(m, h, l, fs, c, v) /\ FramesOK(m, fs) /\ Alive(m, fs) /\ Shapes(m)
      /\ CallOK(m, fs, c) /\ Balanced(m, h, l, fs, c, v)
  BY DEF Good
<1>2. PICK rank \in [Ids -> Nat] : Ranked(m, fs, c, v, rank)
  BY DEF Good
<1>3. CASE ~OnHeap(v)
  <2>1. n = m
    BY <1>3 DEF Release
  <2>2. Typed(m, h, l, fs, c, Nothing)
    BY <1>1, NothingIsNumber DEF Typed
  <2>3. \A o : v # Ref(o) /\ Nothing # Ref(o)
    BY <1>3, NothingIsNumber DEF Ref, OnHeap
  <2>4. \A o \in Ids : Due(m, h, l, fs, c, Nothing, o) = Due(m, h, l, fs, c, v, o)
    BY <2>3, CountOne DEF Due
  <2>5. Balanced(m, h, l, fs, c, Nothing)
    BY <1>1, <2>4 DEF Balanced
  <2>6. Ranked(m, fs, c, Nothing, rank)
    BY <1>2, NothingIsNumber DEF Ranked
  <2> QED BY <1>1, <2>1, <2>2, <2>5, <2>6 DEF Good
<1>4. CASE OnHeap(v)
  <2>1. /\ v.n \in Ids /\ v = Ref(v.n) /\ Live(m, v) /\ m.obj[v.n].count \in Nat \ {0}
        /\ \A k \in DOMAIN fs : fs[k].o # v.n
    BY <1>4, ToDrop
  <2>2. m \in Memories /\ v \in GoodValues
    BY <1>1 DEF Typed
  <2>3. /\ n \in Memories /\ SameContents(m, n)
        /\ \A p \in Allocated(m) :
             n.obj[p].count = IF p = v.n THEN m.obj[p].count - 1 ELSE m.obj[p].count
        /\ m.obj[v.n].count # 1
    BY <1>4, <2>1, <2>2, ReleaseIs
  <2> HIDE DEF n
  <2>4. Allocated(n) = Allocated(m) /\ n.fault = m.fault /\ \A o : Nothing # Ref(o)
    BY <2>3, NothingIsNumber DEF SameContents
  <2>5. /\ \A p \in Allocated(m) : /\ Places(n, p) = Places(m, p)
                                   /\ \A i : At(n, p, i) = At(m, p, i)
                                   /\ Pending(n, Ref(p)) <=> Pending(m, Ref(p))
        /\ \A p, i, o : Refers(n, fs, c, p, i, o) <=> Refers(m, fs, c, p, i, o)
    BY <2>3, SamePlaces
  <2>6. Typed(n, h, l, fs, c, Nothing)
    BY <1>1, <2>3, <2>4, NothingIsNumber DEF Typed
  <2>7. FramesOK(n, fs)
    BY <1>1, <2>1, <2>3, <2>4, <2>5 DEF FramesOK, SameContents
  <2>8. Alive(n, fs)
    BY <1>1, <2>1, <2>3, <2>4 DEF Alive
  <2>9. Shapes(n)
    BY <1>1, <2>3, <2>4, <2>5 DEF Shapes, SameContents
  <2>10. CallOK(n, fs, c)
    <3>1. c.op # "none" => c.var.n \in Allocated(m) /\ c.var = Ref(c.var.n)
      BY <1>1, RefIs DEF CallOK, Live, Typed, GoodCalls
    <3>2. c.op # "none" => (Pending(n, c.var) <=> Pending(m, c.var))
      BY <2>5, <3>1
    <3>3. c.op # "none" => n.obj[c.var.n].kind = m.obj[c.var.n].kind
      BY <2>3, <3>1 DEF SameContents
    <3> QED BY <1>1, <2>4, <3>1, <3>2, <3>3 DEF CallOK, Live
  <2>11. Balanced(n, h, l, fs, c, Nothing)
    <3>1. ASSUME NEW o \in Ids
          PROVE  Due(n, h, l, fs, c, Nothing, o) =
                   IF o = v.n THEN Due(m, h, l, fs, c, v, o) - 1 ELSE Due(m, h, l, fs, c, v, o)
      <4>1. Referrers(n, fs, c, o) = Referrers(m, fs, c, o)
        BY <2>5, SameReferrers
      <4>2. v = Ref(o) <=> o = v.n
        BY <2>1, <3>1, RefIs
      <4> QED BY <1>1, <2>4, <4>1, <4>2, Summands, CountOne DEF Due
    <3> QED BY <1>1, <2>1, <2>3, <2>4, <3>1 DEF Balanced, Live
  <2>12. Ranked(n, fs, c, Nothing, rank)
    BY <1>2, <2>5, NothingIsNumber DEF Ranked
  <2> QED BY <2>6, <2>7, <2>8, <2>9, <2>10, <2>11, <2>12 DEF Good, n
<1> QED BY <1>3, <1>4

\* The value is the last reference to an object, whose values are to be dropped.
LEMMA DropDies ==
  ASSUME NEW m, NEW h, NEW l, NEW fs, NEW c, NEW v, Good(m, h, l, fs, c, v),
         NEW n, NEW gs, NEW k, Drops(m, v, fs, l, n, gs, k), Dies(m, v)
  PROVE  Good(n, h, k, gs, c, Nothing)
<1> DEFINE r == Release(m, v)
<1>1. /\ Typed(m, h, l, fs, c, v) /\ FramesOK(m, fs) /\ Alive(m, fs) /\ Shapes(m)
      /\ CallOK(m, fs, c) /\ Balanced(m, h, l, fs, c, v)
  BY DEF Good
<1>2. PICK rank \in [Ids -> Nat] : Ranked(m, fs, c, v, rank)
  BY DEF Good
<1>3. OnHeap(v)
  BY DEF Dies
<1>4. /\ v.n \in Ids /\ v = Ref(v.n) /\ v.n \in Allocated(m) /\ m.obj[v.n].count \in Nat \ {0}
      /\ \A j \in DOMAIN fs : fs[j].o # v.n
      /\ c.op # "none" => v.n # c.var.n
  BY <1>3, ToDrop DEF Live
<1>5. m \in Memories /\ v \in GoodValues
  BY <1>1 DEF Typed
<1>6. /\ r \in Memories /\ SameContents(m, r)
      /\ \A p \in Allocated(m) :
           r.obj[p].count = IF p = v.n THEN m.obj[p].count - 1 ELSE m.obj[p].count
      /\ m.obj[v.n].count = 1
  BY <1>3, <1>4, <1>5, ReleaseIs DEF Live
<1>7. /\ n = Unschedule(r, v)
      /\ gs = Append(fs, [o |-> v.n, i |-> 1])
      /\ k = IF Pending(m, v) THEN Plus(l, <<LaterValue(m, v)>>) ELSE l
  BY DEF Drops
<1> HIDE DEF r
<1>8. Allocated(r) = Allocated(m) /\ r.fault = m.fault
  BY <1>6 DEF SameContents
<1>9. /\ n \in Memories /\ Allocated(n) = Allocated(m) /\ n.fault = m.fault
      /\ \A p \in Allocated(m) : n.obj[p].kind = m.obj[p].kind /\ n.obj[p].vals = m.obj[p].vals
      /\ \A p \in Allocated(m) :
           n.obj[p].count = IF p = v.n THEN 0 ELSE m.obj[p].count
  <2>1. v.n \in Allocated(r)
    BY <1>4, <1>8
  <2> QED BY <1>6, <1>7, <1>8, <2>1, UnscheduleIs DEF SameContents
<1>10. /\ \A p \in Allocated(m) :
            /\ Places(n, p) = Places(m, p)
            /\ Pending(n, Ref(p)) <=> p # v.n /\ Pending(m, Ref(p))
       /\ \A fs1, p, i, o : Refers(n, fs1, c, p, i, o) <=>
                              Refers(m, fs1, c, p, i, o) /\ ~(p = v.n /\ i = 0)
  <2>1. v.n \in Allocated(r)
    BY <1>4, <1>8
  <2>2. /\ \A p \in Allocated(r) :
             /\ Places(n, p) = Places(r, p)
             /\ Pending(n, Ref(p)) <=> p # v.n /\ Pending(r, Ref(p))
        /\ \A fs1, p, i, o : Refers(n, fs1, c, p, i, o) <=>
                               Refers(r, fs1, c, p, i, o) /\ ~(p = v.n /\ i = 0)
    BY <1>3, <1>5, <1>6, <1>7, <2>1, UnscheduledPlaces
  <2>3. /\ \A p \in Allocated(m) : /\ Places(r, p) = Places(m, p)
                                   /\ Pending(r, Ref(p)) <=> Pending(m, Ref(p))
        /\ \A fs1, p, i, o : Refers(r, fs1, c, p, i, o) <=> Refers(m, fs1, c, p, i, o)
    BY <1>6, SamePlaces
  <2> QED BY <1>8, <2>2, <2>3
<1>11. /\ gs \in GoodFrames /\ Len(fs) \in Nat
       /\ DOMAIN fs = 1..Len(fs) /\ DOMAIN gs = 1..(Len(fs) + 1)
       /\ \A j \in 1..Len(fs) : gs[j] = fs[j]
       /\ gs[Len(fs) + 1] = [o |-> v.n, i |-> 1]
  <2>1. fs \in GoodFrames /\ [o |-> v.n, i |-> 1] \in [o : Ids, i : Nat \ {0}]
    BY <1>1, <1>4 DEF Typed
  <2> QED BY <1>7, <2>1, AppendProperties, LenProperties DEF GoodFrames
<1>12. \A p, i, o : Refers(n, gs, c, p, i, o) <=>
                      Refers(m, fs, c, p, i, o) /\ ~(p = v.n /\ i = 0)
  <2>1. \A p, i : Dropped(gs, c, p, i) <=> Dropped(fs, c, p, i) \/ (p = v.n /\ i < 1)
    BY <1>11 DEF Dropped
  <2>2. \A p \in Allocated(m) : \A i \in Places(m, p) : i < 1 <=> i = 0
    BY <1>5, MemoryIs DEF Places
  <2>3. \A p, i, o : Refers(m, gs, c, p, i, o) /\ ~(p = v.n /\ i = 0) <=>
                       Refers(m, fs, c, p, i, o) /\ ~(p = v.n /\ i = 0)
    BY <2>1, <2>2 DEF Refers
  <2> QED BY <1>10, <2>3
<1>13. \A o : Refers(m, fs, c, v.n, 0, o) <=> Pending(m, v) /\ LaterValue(m, v) = Ref(o)
  <2>1. 0 \in Places(m, v.n)
    BY <1>4, <1>5, MemoryIs DEF Places
  <2>2. ~Dropped(fs, c, v.n, 0)
    BY <1>1, <1>4, RefIs DEF Dropped, Typed, GoodCalls
  <2>3. At(m, v.n, 0) = IF Pending(m, v) THEN LaterValue(m, v) ELSE Nothing
    BY <1>4 DEF At
  <2> QED BY <1>4, <2>1, <2>2, <2>3, NothingIsNumber DEF Refers
<1>14. k \in [Ids -> Nat] /\ \A o \in Ids :
         k[o] = IF Refers(m, fs, c, v.n, 0, o) THEN l[o] + 1 ELSE l[o]
  <2>1. l \in [Ids -> Nat]
    BY <1>1 DEF Typed
  <2>2. \A o : Count(o, <<LaterValue(m, v)>>) = IF LaterValue(m, v) = Ref(o) THEN 1 ELSE 0
    BY CountOne
  <2>3. \A o \in Ids : l[o] \in Nat /\ l[o] + 1 \in Nat /\ l[o] + 0 = l[o]
    BY <2>1
  <2>4. CASE Pending(m, v)
    <3>1. k = [o \in Ids |-> l[o] + Count(o, <<LaterValue(m, v)>>)]
      BY <1>7, <2>4 DEF Plus
    <3>2. \A o \in Ids : k[o] = IF LaterValue(m, v) = Ref(o) THEN l[o] + 1 ELSE l[o]
      BY <2>2, <2>3, <3>1
    <3> QED BY <1>13, <2>3, <2>4, <3>1, <3>2
  <2>5. CASE ~Pending(m, v)
    BY <1>7, <1>13, <2>1, <2>5
  <2> QED BY <2>4, <2>5
<1>15. Typed(n, h, k, gs, c, Nothing)
  BY <1>1, <1>9, <1>11, <1>14, NothingIsNumber DEF Typed
<1>16. FramesOK(n, gs)
  <2>1. ~Pending(n, Ref(v.n)) /\ n.obj[v.n].count = 0 /\ 1 <= Len(n.obj[v.n].vals) + 1
    <3>1. Len(n.obj[v.n].vals) \in Nat
      BY <1>4, <1>9, MemoryIs
    <3> QED BY <1>4, <1>9, <1>10, <3>1
  <2>2. ASSUME NEW j \in 1..Len(fs)
        PROVE  /\ fs[j].o \in Allocated(n) /\ fs[j].o # v.n
               /\ n.obj[fs[j].o].count = 0
               /\ ~Pending(n, Ref(fs[j].o))
               /\ fs[j].i <= Len(n.obj[fs[j].o].vals) + 1
    BY <1>1, <1>4, <1>9, <1>10, <1>11 DEF FramesOK
  <2>3. ASSUME NEW j \in DOMAIN gs
        PROVE  /\ gs[j].o \in Allocated(n)
               /\ n.obj[gs[j].o].count = 0
               /\ ~Pending(n, Ref(gs[j].o))
               /\ gs[j].i <= Len(n.obj[gs[j].o].vals) + 1
    <3>1. CASE j \in 1..Len(fs)
      BY <1>11, <2>2, <3>1
    <3>2. CASE j = Len(fs) + 1
      BY <1>4, <1>9, <1>11, <2>1, <3>2
    <3> QED BY <1>11, <3>1, <3>2
  <2>4. \A i, j \in DOMAIN gs : gs[i].o = gs[j].o => i = j
    BY <1>1, <1>11, <2>2 DEF FramesOK
  <2> QED BY <2>3, <2>4 DEF FramesOK
<1>17. Alive(n, gs)
  BY <1>1, <1>9, <1>11 DEF Alive
<1>18. Shapes(n)
  BY <1>1, <1>9, <1>10 DEF Shapes
<1>19. CallOK(n, gs, c)
  <2>1. c.op # "none" => c.var.n \in Allocated(m) /\ c.var = Ref(c.var.n)
    BY <1>1, RefIs DEF CallOK, Live, Typed, GoodCalls
  <2>2. c.op # "none" => (Pending(n, c.var) <=> Pending(m, c.var))
    BY <1>4, <1>10, <2>1
  <2>3. c.op # "none" => n.obj[c.var.n].kind = m.obj[c.var.n].kind
    BY <1>9, <2>1
  <2>4. c.op # "none" => \A j \in DOMAIN gs : gs[j].o # c.var.n
    BY <1>1, <1>4, <1>11 DEF CallOK
  <2> QED BY <1>1, <1>9, <2>1, <2>2, <2>3, <2>4 DEF CallOK, Live
<1>20. Balanced(n, h, k, gs, c, Nothing)
  <2>1. ASSUME NEW o \in Ids
        PROVE  Due(n, h, k, gs, c, Nothing, o) =
                 IF o = v.n THEN Due(m, h, l, fs, c, v, o) - 1 ELSE Due(m, h, l, fs, c, v, o)
    <3>1. Cardinality(Referrers(n, gs, c, o)) =
            Cardinality(Referrers(m, fs, c, o)) - IF Refers(m, fs, c, v.n, 0, o) THEN 1 ELSE 0
      BY <1>5, <1>9, <1>12, ReferrersButOne
    <3>2. v = Ref(o) <=> o = v.n
      BY <1>4, <2>1, RefIs
    <3>3. Nothing # Ref(o)
      BY NothingIsNumber
    <3> QED BY <1>1, <1>14, <3>1, <3>2, <3>3, Summands, CountOne DEF Due
  <2> QED BY <1>1, <1>4, <1>6, <1>9, <2>1 DEF Balanced
<1>21. Ranked(n, gs, c, Nothing, rank)
  BY <1>2, <1>3, <1>11, <1>12, NothingIsNumber DEF Ranked
<1> QED BY <1>15, <1>16, <1>17, <1>18, <1>19, <1>20, <1>21 DEF Good

LEMMA DropKeeps ==
  ASSUME NEW m, NEW h, NEW l, NEW fs, NEW c, NEW v, Good(m, h, l, fs, c, v),
         NEW n, NEW gs, NEW k, Drops(m, v, fs, l, n, gs, k)
  PROVE  Good(n, h, k, gs, c, Nothing)
BY DropCounts, DropDies DEF Drops

-----------------------------------------------------------------------------
(***************************************************************************)
(* The loops of ssm_drop_final.                                            *)
(***************************************************************************)
LEMMA LastFrame ==
  ASSUME NEW fs \in GoodFrames, fs # <<>>
  PROVE  /\ Len(fs) \in Nat \ {0} /\ DOMAIN fs = 1..Len(fs)
         /\ Front(fs) \in GoodFrames /\ DOMAIN Front(fs) = 1..(Len(fs) - 1)
         /\ Len(Front(fs)) = Len(fs) - 1
         /\ \A j \in 1..(Len(fs) - 1) : Front(fs)[j] = fs[j]
         /\ Last(fs) = fs[Len(fs)]
         /\ Last(fs) \in [o : Ids, i : Nat \ {0}]
<1> DEFINE Frame == [o : Ids, i : Nat \ {0}]
<1>1. fs \in Seq(Frame)
  BY DEF GoodFrames
<1>2. Len(fs) \in Nat \ {0} /\ DOMAIN fs = 1..Len(fs) /\ fs \in [1..Len(fs) -> Frame]
  BY <1>1, LenProperties, EmptySeq
<1>3. Last(fs) = fs[Len(fs)] /\ fs[Len(fs)] \in Frame
  BY <1>2 DEF Last
<1>4. \A j \in 1..(Len(fs) - 1) : fs[j] \in Frame
  BY <1>2
<1>5. 1 \in Int /\ Len(fs) - 1 \in Int
  BY <1>2
<1> HIDE DEF Frame
<1>6. /\ Front(fs) \in Seq(Frame)
      /\ Len(Front(fs)) = IF 1 <= Len(fs) - 1 THEN (Len(fs) - 1) - 1 + 1 ELSE 0
      /\ \A j \in 1..((Len(fs) - 1) - 1 + 1) : Front(fs)[j] = fs[1 + j - 1]
  BY <1>4, <1>5, SubSeqProperties DEF Front
<1>7. Len(Front(fs)) = Len(fs) - 1 /\ \A j \in 1..(Len(fs) - 1) : Front(fs)[j] = fs[j]
  <2> DEFINE n == Len(fs) - 1
  <2>1. n \in Nat
    BY <1>2
  <2>2. /\ Len(Front(fs)) = IF 1 <= n THEN n - 1 + 1 ELSE 0
        /\ \A j \in 1..(n - 1 + 1) : Front(fs)[j] = fs[1 + j - 1]
    BY <1>6
  <2> HIDE DEF n
  <2>3. \A j \in 1..n : j \in 1..(n - 1 + 1) /\ 1 + j - 1 = j
    BY <2>1
  <2>4. Len(Front(fs)) = n /\ \A j \in 1..n : Front(fs)[j] = fs[j]
    BY <2>1, <2>2, <2>3
  <2> QED BY <2>4 DEF n
<1>8. DOMAIN Front(fs) = 1..(Len(fs) - 1)
  BY <1>6, <1>7, LenProperties
<1> QED BY <1>2, <1>3, <1>6, <1>7, <1>8 DEF GoodFrames, Frame

\* The frames when the innermost has gone on to its next value.
LEMMA FrameGoesOn ==
  ASSUME NEW fs \in GoodFrames, fs # <<>>, NEW gs,
         gs = Append(Front(fs), [Last(fs) EXCEPT !.i = @ + 1])
  PROVE  /\ gs \in GoodFrames /\ gs # <<>> /\ DOMAIN gs = DOMAIN fs
         /\ \A k \in DOMAIN fs : gs[k].o = fs[k].o
         /\ Last(gs).o = Last(fs).o /\ Last(gs).i = Last(fs).i + 1
<1> DEFINE Frame == [o : Ids, i : Nat \ {0}]
           e     == [Last(fs) EXCEPT !.i = @ + 1]
           front == Front(fs)
           len   == Len(fs)
<1>1. /\ len \in Nat \ {0} /\ DOMAIN fs = 1..len
      /\ front \in Seq(Frame) /\ Len(front) + 1 = len
      /\ \A j \in 1..(len - 1) : front[j] = fs[j]
      /\ Last(fs) = fs[len] /\ Last(fs) \in Frame
  <2>1. /\ len \in Nat \ {0} /\ DOMAIN fs = 1..len
        /\ front \in GoodFrames /\ Len(front) = len - 1
        /\ \A j \in 1..(len - 1) : front[j] = fs[j]
        /\ Last(fs) = fs[len] /\ Last(fs) \in Frame
    BY LastFrame
  <2>2. front \in Seq(Frame)
    BY <2>1 DEF GoodFrames
  <2> HIDE DEF len, front, Frame
  <2>3. Len(front) + 1 = len
    BY <2>1
  <2> QED BY <2>1, <2>2, <2>3
<1>2. e \in Frame /\ e.o = Last(fs).o /\ e.i = Last(fs).i + 1
  BY <1>1
<1>3. gs = Append(front, e)
  OBVIOUS
<1> HIDE DEF e, front, Frame, len
<1>4. /\ gs \in Seq(Frame) /\ Len(gs) = len
      /\ \A x \in 1..Len(front) : gs[x] = front[x]
      /\ gs[len] = e
  <2>1. /\ Append(front, e) \in Seq(Frame)
        /\ Len(Append(front, e)) = Len(front) + 1
        /\ \A x \in 1..Len(front) : Append(front, e)[x] = front[x]
        /\ Append(front, e)[Len(front) + 1] = e
    BY <1>1, <1>2, AppendProperties
  <2> QED BY <1>1, <1>3, <2>1
<1>5. DOMAIN gs = 1..len /\ gs # <<>>
  BY <1>1, <1>4, LenProperties, EmptySeq
<1>6. Last(gs) = e
  BY <1>4 DEF Last
<1>7. ASSUME NEW x \in 1..len PROVE gs[x].o = fs[x].o
  <2>1. CASE x = len
    BY <1>1, <1>2, <1>4, <2>1
  <2>2. CASE x # len
    <3>1. Len(front) \in Nat
      BY <1>1, LenProperties
    <3>2. x \in 1..(len - 1) /\ x \in 1..Len(front)
      BY <1>1, <2>2, <3>1
    <3> QED BY <1>1, <1>4, <3>2
  <2> QED BY <2>1, <2>2
<1> QED BY <1>1, <1>2, <1>4, <1>5, <1>6, <1>7 DEF GoodFrames, Frame

\* A frame goes on to the next value, and the one it was at is to be dropped.
LEMMA NextValue ==
  ASSUME NEW m, NEW h, NEW l, NEW fs, NEW c, Good(m, h, l, fs, c, Nothing), fs # <<>>,
         Last(fs).i <= Len(Payload(m, Ref(Last(fs).o)))
  PROVE  Good(m, h, l, Append(Front(fs), [Last(fs) EXCEPT !.i = @ + 1]), c,
              Payload(m, Ref(Last(fs).o))[Last(fs).i])
<1> DEFINE a == Last(fs).o
           j == Last(fs).i
           v == m.obj[a].vals[j]
           gs == Append(Front(fs), [Last(fs) EXCEPT !.i = @ + 1])
           len == Len(fs)
<1>1. /\ Typed(m, h, l, fs, c, Nothing) /\ FramesOK(m, fs) /\ Alive(m, fs) /\ Shapes(m)
      /\ CallOK(m, fs, c) /\ Balanced(m, h, l, fs, c, Nothing)
  BY DEF Good
<1>2. PICK rank \in [Ids -> Nat] : Ranked(m, fs, c, Nothing, rank)
  BY DEF Good
<1>3. m \in Memories /\ fs \in GoodFrames
  BY <1>1 DEF Typed
<1>4. Payload(m, Ref(a))[j] = v /\ j <= Len(m.obj[a].vals)
  BY DEF Payload, Ref
<1>5. /\ len \in Nat \ {0} /\ DOMAIN fs = 1..len
      /\ Front(fs) \in GoodFrames /\ Len(Front(fs)) = len - 1
      /\ \A x \in 1..(len - 1) : Front(fs)[x] = fs[x]
      /\ Last(fs) = fs[len] /\ Last(fs) \in [o : Ids, i : Nat \ {0}]
      /\ a \in Ids /\ j \in Nat \ {0}
  <2>1. Last(fs) \in [o : Ids, i : Nat \ {0}]
    BY <1>3, LastFrame
  <2> QED BY <1>3, <2>1, LastFrame
<1>6. /\ gs \in GoodFrames /\ Len(gs) = len /\ DOMAIN gs = 1..len
      /\ \A x \in 1..(len - 1) : gs[x] = fs[x]
      /\ gs[len].o = a /\ gs[len].i = j + 1
  <2> DEFINE e == [Last(fs) EXCEPT !.i = @ + 1]
             Frame == [o : Ids, i : Nat \ {0}]
  <2>1. e \in Frame /\ e.o = a /\ e.i = j + 1
    BY <1>5
  <2>4. Front(fs) \in Seq(Frame)
    BY <1>5 DEF GoodFrames
  <2> HIDE DEF e, Frame
  <2>5. /\ Append(Front(fs), e) \in Seq(Frame)
        /\ Len(Append(Front(fs), e)) = Len(Front(fs)) + 1
        /\ \A x \in 1..Len(Front(fs)) : Append(Front(fs), e)[x] = Front(fs)[x]
        /\ Append(Front(fs), e)[Len(Front(fs)) + 1] = e
    BY <2>1, <2>4, AppendProperties
  <2>2. /\ Append(Front(fs), e) \in GoodFrames /\ Len(Append(Front(fs), e)) = len
        /\ \A x \in 1..(len - 1) : Append(Front(fs), e)[x] = Front(fs)[x]
        /\ Append(Front(fs), e)[len] = e
    <3>1. Len(Front(fs)) + 1 = len
      BY <1>5
    <3> QED BY <1>5, <2>5, <3>1 DEF GoodFrames, Frame
  <2>3. DOMAIN Append(Front(fs), e) = 1..len
    BY <2>2, LenProperties DEF GoodFrames
  <2> QED BY <1>5, <2>1, <2>2, <2>3 DEF e
<1>7. a \in Allocated(m) /\ j \in Places(m, a) /\ At(m, a, j) = v /\ v \in GoodValues
  <2>1. a \in Allocated(m)
    BY <1>1, <1>5 DEF FramesOK
  <2>2. j \in Places(m, a) /\ At(m, a, j) = v
    BY <1>3, <1>4, <1>5, <2>1, MemoryIs DEF Places, At
  <2> QED BY <1>3, <2>1, <2>2, MemoryIs
<1>21. len \in 1..len /\ fs[len].o = a /\ fs[len].i = j
  BY <1>5
<1>8. \A x \in 1..len : fs[x].o = a => x = len
  <2> HIDE DEF a, j, v, gs, len
  <2>1. \A x, y \in DOMAIN fs : fs[x].o = fs[y].o => x = y
    BY <1>1 DEF FramesOK
  <2> QED BY <1>5, <1>21, <2>1
<1>9. c.op # "none" => c.var # Ref(a)
  BY <1>1, <1>5, RefIs DEF CallOK
<1> HIDE DEF a, j, v, gs, len
<1>10. \A p : \A i \in Nat : Dropped(gs, c, p, i) <=> Dropped(fs, c, p, i) \/ (p = a /\ i = j)
  <2>1. \A p : \A i \in Nat :
          (\E x \in 1..len : gs[x].o = p /\ i < gs[x].i) <=>
            (\E x \in 1..len : fs[x].o = p /\ i < fs[x].i) \/ (p = a /\ i = j)
    <3> SUFFICES ASSUME NEW p, NEW i \in Nat
                 PROVE  (\E x \in 1..len : gs[x].o = p /\ i < gs[x].i) <=>
                          (\E x \in 1..len : fs[x].o = p /\ i < fs[x].i) \/ (p = a /\ i = j)
      OBVIOUS
    <3>1. \A x \in 1..(len - 1) : gs[x].o = p /\ i < gs[x].i <=> fs[x].o = p /\ i < fs[x].i
      BY <1>6
    <3>3. gs[len].o = p /\ i < gs[len].i <=> (fs[len].o = p /\ i < fs[len].i) \/ (p = a /\ i = j)
      BY <1>5, <1>6, <1>21
    <3>4. \A x \in 1..len : x \in 1..(len - 1) \/ x = len
      BY <1>5
    <3>5. len \in 1..len
      BY <1>5
    <3> HIDE DEF len
    <3>7. ASSUME NEW x \in 1..len
          PROVE  gs[x].o = p /\ i < gs[x].i <=>
                   (fs[x].o = p /\ i < fs[x].i) \/ (x = len /\ p = a /\ i = j)
      <4>1. CASE x = len
        BY <3>3, <4>1
      <4>2. CASE x # len
        BY <3>1, <3>4, <4>2
      <4> QED BY <4>1, <4>2
    <3> QED BY <3>5, <3>7
  <2>2. DOMAIN gs = 1..len /\ DOMAIN fs = 1..len
    BY <1>5, <1>6
  <2> QED BY <2>1, <2>2, Zenon DEF Dropped
<1>11. ~Dropped(fs, c, a, j)
  BY <1>5, <1>8, <1>9 DEF Dropped, a, j
<1>12. \A p, i, o : Refers(m, gs, c, p, i, o) <=>
                      Refers(m, fs, c, p, i, o) /\ ~(p = a /\ i = j)
  <2>1. \A p \in Allocated(m) : \A i \in Places(m, p) : i \in Nat
    BY <1>3, MemoryIs DEF Places
  <2> QED BY <1>10, <2>1 DEF Refers
<1>13. \A o : Refers(m, fs, c, a, j, o) <=> v = Ref(o)
  BY <1>7, <1>11 DEF Refers
<1>14. Typed(m, h, l, gs, c, v)
  BY <1>1, <1>6, <1>7 DEF Typed
<1>15. FramesOK(m, gs)
  <2>1. ASSUME NEW x \in DOMAIN gs
        PROVE  /\ gs[x].o = fs[x].o
               /\ gs[x].i <= Len(m.obj[gs[x].o].vals) + 1
    <3>1. CASE x = len
      <4>1. Len(m.obj[a].vals) \in Nat
        BY <1>3, <1>7, MemoryIs
      <4> QED BY <1>4, <1>5, <1>6, <3>1, <4>1 DEF a
    <3>2. CASE x \in 1..(len - 1)
      BY <1>1, <1>5, <1>6, <3>2 DEF FramesOK
    <3> QED BY <1>5, <1>6, <3>1, <3>2
  <2> QED BY <1>1, <1>5, <1>6, <2>1 DEF FramesOK
<1>16. \A x \in 1..len : gs[x].o = fs[x].o
  BY <1>5, <1>6 DEF a
<1>17. Alive(m, gs) /\ CallOK(m, gs, c)
  BY <1>1, <1>5, <1>6, <1>16 DEF Alive, CallOK
<1>18. Balanced(m, h, l, gs, c, v)
  <2>1. ASSUME NEW o \in Ids
        PROVE  Due(m, h, l, gs, c, v, o) = Due(m, h, l, fs, c, Nothing, o)
    <3>1. Cardinality(Referrers(m, gs, c, o)) =
            Cardinality(Referrers(m, fs, c, o)) - IF Refers(m, fs, c, a, j, o) THEN 1 ELSE 0
      BY <1>3, <1>12, ReferrersButOne
    <3>2. Nothing # Ref(o)
      BY NothingIsNumber
    <3>3. /\ Cardinality(Referrers(m, fs, c, o)) \in Nat
          /\ h[o] \in Nat /\ l[o] \in Nat
      BY <1>1, Summands
    <3>4. Count(o, <<c.val>>) \in {0, 1}
      BY CountOne
    <3> QED BY <1>13, <3>1, <3>2, <3>3, <3>4, CountOne DEF Due
  <2> QED BY <1>1, <2>1 DEF Balanced
<1>19. Ranked(m, gs, c, v, rank)
  <2>1. ASSUME c.op # "none", OnHeap(v) PROVE rank[v.n] < rank[c.var.n]
    <3>1. v.n \in Ids /\ v = Ref(v.n)
      BY <1>7, <2>1, RefIs
    <3>2. rank[v.n] < rank[a]
      BY <1>2, <1>5, <1>13, <3>1 DEF Ranked
    <3>3. rank[a] < rank[c.var.n]
      BY <1>2, <1>5, <2>1 DEF Ranked, a
    <3>4. c.var.n \in Ids
      BY <1>1, <2>1, RefIs DEF CallOK, Typed, GoodCalls
    <3> QED BY <1>5, <3>1, <3>2, <3>3, <3>4
  <2> QED BY <1>2, <1>5, <1>6, <1>12, <1>16, <2>1 DEF Ranked
<1>20. Good(m, h, l, gs, c, v)
  BY <1>1, <1>14, <1>15, <1>17, <1>18, <1>19 DEF Good
<1> QED BY <1>4, <1>20 DEF gs, a, j

LEMMA FreeIs ==
  ASSUME NEW m \in Memories, NEW v, v.n \in Allocated(m)
  PROVE  /\ Free(m, v) \in Memories
         /\ Allocated(Free(m, v)) = Allocated(m) \ {v.n}
         /\ Free(m, v).fault = m.fault
         /\ \A p \in Allocated(m) \ {v.n} : Free(m, v).obj[p] = m.obj[p]
         /\ \A fs, c, p, i, o :
              Refers(Free(m, v), fs, c, p, i, o) <=> Refers(m, fs, c, p, i, o) /\ p # v.n
<1> DEFINE n == Free(m, v)
           f == [o \in Allocated(m) \ {v.n} |-> m.obj[o]]
<1>1. PICK S \in SUBSET Ids : m.obj \in [S -> GoodObjects] /\ S = Allocated(m)
  BY DEF Memories, Allocated
<1>2. n = [m EXCEPT !.obj = f]
  BY DEF Free, Live
<1>3. f \in [S \ {v.n} -> GoodObjects]
  BY <1>1
<1>4. n.obj = f /\ n.fault = m.fault /\ n \in Memories
  BY <1>1, <1>2, <1>3 DEF Memories
<1>5. Allocated(n) = Allocated(m) \ {v.n} /\ \A p \in Allocated(m) \ {v.n} : n.obj[p] = m.obj[p]
  BY <1>4 DEF Allocated
<1> HIDE DEF n
<1>6. ASSUME NEW p \in Allocated(n)
      PROVE  Places(n, p) = Places(m, p) /\ \A i : At(n, p, i) = At(m, p, i)
  BY <1>5, <1>6 DEF Places, At, Pending, LaterValue, Ref
<1>7. \A fs, c, p, i, o : Refers(n, fs, c, p, i, o) <=> Refers(m, fs, c, p, i, o) /\ p # v.n
  BY <1>5, <1>6 DEF Refers
<1> QED BY <1>4, <1>5, <1>7 DEF n

\* A frame whose object's values have all been dropped frees the object.
LEMMA LastValue ==
  ASSUME NEW m, NEW h, NEW l, NEW fs, NEW c, Good(m, h, l, fs, c, Nothing), fs # <<>>,
         ~(Last(fs).i <= Len(Payload(m, Ref(Last(fs).o))))
  PROVE  Good(Free(m, Ref(Last(fs).o)), h, l, Front(fs), c, Nothing)
<1> DEFINE a == Last(fs).o
           n == Free(m, Ref(a))
           gs == Front(fs)
           len == Len(fs)
<1>1. /\ Typed(m, h, l, fs, c, Nothing) /\ FramesOK(m, fs) /\ Alive(m, fs) /\ Shapes(m)
      /\ CallOK(m, fs, c) /\ Balanced(m, h, l, fs, c, Nothing)
  BY DEF Good
<1>2. PICK rank \in [Ids -> Nat] : Ranked(m, fs, c, Nothing, rank)
  BY DEF Good
<1>3. m \in Memories /\ fs \in GoodFrames
  BY <1>1 DEF Typed
<1>4. /\ len \in Nat \ {0} /\ DOMAIN fs = 1..len /\ gs \in GoodFrames /\ DOMAIN gs = 1..(len - 1)
      /\ \A x \in 1..(len - 1) : gs[x] = fs[x] /\ x \in 1..len /\ x # len
      /\ len \in 1..len /\ fs[len].o = a /\ fs[len] = Last(fs)
      /\ a \in Ids /\ Last(fs).i \in Nat \ {0}
  BY <1>3, LastFrame
<1>5. a \in Allocated(m) /\ m.obj[a].count = 0
  BY <1>1, <1>4 DEF FramesOK
<1>6. \A i \in Places(m, a) : i < Last(fs).i
  <2>1. Len(m.obj[a].vals) \in Nat
    BY <1>3, <1>5, MemoryIs
  <2>2. ~(Last(fs).i <= Len(m.obj[a].vals))
    BY DEF Payload, Ref
  <2> DEFINE x == Last(fs).i
             y == Len(m.obj[a].vals)
  <2>3. x \in Nat /\ y \in Nat /\ ~(x <= y)
    BY <1>4, <2>1, <2>2
  <2>4. Places(m, a) = 0..y
    BY DEF Places
  <2> HIDE DEF x, y, a
  <2>5. \A i \in Places(m, a) : i < x
    BY <2>3, <2>4
  <2> QED BY <2>5 DEF x
<1>7. \A x \in 1..(len - 1) : gs[x].o # a
  <2>1. \A x, y \in DOMAIN fs : fs[x].o = fs[y].o => x = y
    BY <1>1 DEF FramesOK
  <2> HIDE DEF a, gs, len
  <2> QED BY <1>4, <2>1
<1>8. c.op # "none" => c.var.n # a
  BY <1>1, <1>4 DEF CallOK
<1> HIDE DEF a, n, gs, len
<1>9. Ref(a).n = a
  BY DEF Ref
<1>10. /\ n \in Memories /\ Allocated(n) = Allocated(m) \ {a} /\ n.fault = m.fault
       /\ \A p \in Allocated(n) : n.obj[p] = m.obj[p]
       /\ \A fs1, p, i, o : Refers(n, fs1, c, p, i, o) <=> Refers(m, fs1, c, p, i, o) /\ p # a
  BY <1>3, <1>5, <1>9, FreeIs DEF n
<1>11. \A p \in Allocated(n) : Pending(n, Ref(p)) <=> Pending(m, Ref(p))
  BY <1>10 DEF Pending, Ref
<1>12. \A p, i, o : Refers(n, gs, c, p, i, o) <=> Refers(m, fs, c, p, i, o)
  <2>1. \A p, i : p # a => (Dropped(gs, c, p, i) <=> Dropped(fs, c, p, i))
    <3>1. \A p, i : p # a => ((\E x \in 1..(len - 1) : gs[x].o = p /\ i < gs[x].i) <=>
                               (\E x \in 1..len : fs[x].o = p /\ i < fs[x].i))
      <4>1. \A x \in 1..len : x \in 1..(len - 1) \/ x = len
        BY <1>4
      <4> QED BY <1>4, <4>1
    <3>2. DOMAIN gs = 1..(len - 1) /\ DOMAIN fs = 1..len
      BY <1>4
    <3> QED BY <3>1, <3>2, Zenon DEF Dropped
  <2>2. \A i \in Places(m, a) : Dropped(fs, c, a, i)
    BY <1>4, <1>6 DEF Dropped
  <2> QED BY <1>10, <2>1, <2>2 DEF Refers
<1>13. Typed(n, h, l, gs, c, Nothing)
  BY <1>1, <1>4, <1>10 DEF Typed
<1>14. FramesOK(n, gs)
  <2>1. ASSUME NEW x \in 1..(len - 1)
        PROVE  /\ gs[x] = fs[x] /\ gs[x].o \in Allocated(n)
               /\ n.obj[gs[x].o].count = 0
               /\ ~Pending(n, Ref(gs[x].o))
               /\ gs[x].i <= Len(n.obj[gs[x].o].vals) + 1
    <3>1. x \in DOMAIN fs /\ gs[x] = fs[x] /\ gs[x].o # a
      BY <1>4, <1>7
    <3> QED BY <1>1, <1>10, <1>11, <3>1 DEF FramesOK
  <2>2. \A x, y \in 1..(len - 1) : fs[x].o = fs[y].o => x = y
    BY <1>1, <1>4 DEF FramesOK
  <2> QED BY <1>4, <2>1, <2>2 DEF FramesOK
<1>15. Alive(n, gs)
  <2> SUFFICES ASSUME NEW o \in Allocated(n), n.obj[o].count = 0
               PROVE  \E x \in DOMAIN gs : gs[x].o = o
    BY DEF Alive
  <2>1. PICK x \in DOMAIN fs : fs[x].o = o
    BY <1>1, <1>10 DEF Alive
  <2>2. x \in 1..(len - 1)
    BY <1>4, <1>10, <2>1
  <2> QED BY <1>4, <2>1, <2>2
<1>16. Shapes(n)
  BY <1>1, <1>10, <1>11 DEF Shapes
<1>17. CallOK(n, gs, c)
  <2>1. c.op # "none" => /\ c.var = Ref(c.var.n) /\ c.var.n \in Allocated(n)
                         /\ \A x \in DOMAIN gs : gs[x].o # c.var.n
    <3>1. c.var \in GoodValues
      BY <1>1 DEF Typed, GoodCalls
    <3>2. c.op # "none" => /\ OnHeap(c.var) /\ c.var.n \in Allocated(m)
                           /\ \A x \in DOMAIN fs : fs[x].o # c.var.n
      BY <1>1 DEF CallOK, Live
    <3> QED BY <1>4, <1>8, <1>10, <3>1, <3>2, RefIs
  <2>2. c.op # "none" => (Pending(n, c.var) <=> Pending(m, c.var))
    BY <1>11, <2>1
  <2> QED BY <1>1, <1>10, <2>1, <2>2 DEF CallOK, Live
<1>18. Balanced(n, h, l, gs, c, Nothing)
  <2>1. ASSUME NEW o \in Ids
        PROVE  Due(n, h, l, gs, c, Nothing, o) = Due(m, h, l, fs, c, Nothing, o)
    <3>1. Referrers(n, gs, c, o) = Referrers(m, fs, c, o)
      BY <1>12, SameReferrers
    <3> QED BY <3>1 DEF Due
  <2> QED BY <1>1, <1>5, <1>10, <2>1 DEF Balanced
<1>19. Ranked(n, gs, c, Nothing, rank)
  BY <1>2, <1>4, <1>12 DEF Ranked
<1>20. Good(n, h, l, gs, c, Nothing)
  BY <1>13, <1>14, <1>15, <1>16, <1>17, <1>18, <1>19 DEF Good
<1> QED BY <1>20 DEF n, a, gs

-----------------------------------------------------------------------------
(***************************************************************************)
(* Calls that duplicate.                                                   *)
(***************************************************************************)
\* Only the counts change: those that stay small grow by what is duplicated.
LEMMA DupsIs ==
  ASSUME NEW m \in Memories, NEW vs \in Seq(GoodValues), Known(m, vs)
  PROVE  /\ Dups(m, vs) \in Memories
         /\ SameContents(m, Dups(m, vs))
         /\ \A o \in Allocated(m) :
              m.obj[o].count + Count(o, vs) < 2^CountBits =>
                Dups(m, vs).obj[o].count = m.obj[o].count + Count(o, vs)
<1> DEFINE Grown(o) == (m.obj[o].count + Count(o, vs)) % 2^CountBits
           f == [o \in Allocated(m) |-> [m.obj[o] EXCEPT !.count = Grown(o)]]
           n == [m EXCEPT !.obj = f]
<1>1. PICK S \in SUBSET Ids : m.obj \in [S -> GoodObjects] /\ S = Allocated(m)
  BY DEF Memories, Allocated
<1>2. Dups(m, vs) = n
  BY DEF Dups, Live, Known
<1>3. \A o \in S : m.obj[o] \in GoodObjects
  BY <1>1
<1>4. ASSUME NEW o \in S
      PROVE  /\ Grown(o) \in 0..(2^CountBits - 1)
             /\ m.obj[o].count + Count(o, vs) < 2^CountBits =>
                  Grown(o) = m.obj[o].count + Count(o, vs)
  <2> DEFINE top == 2^CountBits
             x == m.obj[o].count
             y == Count(o, vs)
  <2>1. x \in 0..(2^CountBits - 1)
    BY <1>3, <1>4 DEF GoodObjects
  <2>2. y \in Nat /\ top \in Nat \ {0}
    BY <1>1, CountFinite, CountLimit
  <2>3. \A z \in 0..(top - 1) : z % top = z
    BY CountLimit
  <2> HIDE DEF top, x, y
  <2>4. x \in 0..(top - 1)
    BY <2>1 DEF top
  <2>5. x + y < top => x + y \in 0..(top - 1)
    BY <2>2, <2>4
  <2>6. x + y < top => (x + y) % top = x + y
    BY <2>3, <2>5
  <2>7. (x + y) % top \in 0..(top - 1)
    BY <2>2, <2>4
  <2> QED BY <2>6, <2>7 DEF top, x, y
<1>5. \A o \in S : f[o] = [m.obj[o] EXCEPT !.count = Grown(o)]
  BY <1>1
<1>6. ASSUME NEW o \in S
      PROVE  /\ f[o] \in GoodObjects /\ f[o].count = Grown(o)
             /\ f[o].kind = m.obj[o].kind /\ f[o].vals = m.obj[o].vals
             /\ f[o].later_time = m.obj[o].later_time
             /\ f[o].later_value = m.obj[o].later_value
  <2> DEFINE y == Grown(o)
  <2>1. f[o] = [m.obj[o] EXCEPT !.count = y]
    BY <1>5
  <2>2. y \in 0..(2^CountBits - 1)
    BY <1>4
  <2>3. m.obj[o] \in GoodObjects
    BY <1>3
  <2> HIDE DEF y, f
  <2> QED BY <2>1, <2>2, <2>3 DEF GoodObjects, y
<1>7. f \in [S -> GoodObjects]
  <2>1. DOMAIN f = S /\ f = [o \in S |-> f[o]]
    BY <1>1
  <2> HIDE DEF f
  <2> QED BY <1>6, <2>1
<1> HIDE DEF f
<1>8. n.obj = f /\ n.fault = m.fault /\ n \in Memories
  BY <1>7 DEF Memories
<1>9. Allocated(n) = S
  BY <1>7, <1>8 DEF Allocated
<1> HIDE DEF n, Grown
<1>10. SameContents(m, n)
  BY <1>1, <1>6, <1>8, <1>9 DEF SameContents
<1>11. \A o \in S : n.obj[o].count = Grown(o)
  BY <1>6, <1>8
<1> QED BY <1>1, <1>2, <1>4, <1>8, <1>10, <1>11

\* The same for one value.
LEMMA DupIs ==
  ASSUME NEW m \in Memories, NEW v \in GoodValues,
         OnHeap(v) => v.n \in Allocated(m) /\ m.obj[v.n].count + 1 < 2^CountBits
  PROVE  /\ Dup(m, v) \in Memories
         /\ SameContents(m, Dup(m, v))
         /\ \A o \in Allocated(m) :
              Dup(m, v).obj[o].count = IF v = Ref(o) THEN m.obj[o].count + 1 ELSE m.obj[o].count
<1>1. <<v>> \in Seq(GoodValues) /\ DOMAIN <<v>> = {1} /\ <<v>>[1] = v
  OBVIOUS
<1>2. \A o \in Allocated(m) : m.obj[o].count \in 0..(2^CountBits - 1)
  <2>1. \A o \in Allocated(m) : m.obj[o] \in GoodObjects
    BY MemoryIs
  <2> QED BY <2>1 DEF GoodObjects
<1>3. ASSUME NEW o \in Allocated(m)
      PROVE  /\ m.obj[o].count + Count(o, <<v>>) < 2^CountBits
             /\ m.obj[o].count + Count(o, <<v>>) =
                  IF v = Ref(o) THEN m.obj[o].count + 1 ELSE m.obj[o].count
  <2> DEFINE x == m.obj[o].count
             top == 2^CountBits
  <2>1. x \in 0..(top - 1) /\ top \in Nat
    BY <1>2, CountLimit
  <2>2. Count(o, <<v>>) = IF v = Ref(o) THEN 1 ELSE 0
    BY CountOne
  <2>3. v = Ref(o) => x + 1 < top
    BY RefIs
  <2> HIDE DEF x, top
  <2>4. x + Count(o, <<v>>) < top /\ x + Count(o, <<v>>) = IF v = Ref(o) THEN x + 1 ELSE x
    BY <2>1, <2>2, <2>3
  <2> QED BY <2>4 DEF x, top
<1> HIDE DEF GoodValues
<1>4. /\ Dups(m, <<v>>) \in Memories
      /\ SameContents(m, Dups(m, <<v>>))
      /\ \A o \in Allocated(m) : Dups(m, <<v>>).obj[o].count = m.obj[o].count + Count(o, <<v>>)
  <2>1. Known(m, <<v>>)
    BY <1>1 DEF Known
  <2>2. \A o \in Allocated(m) : m.obj[o].count + Count(o, <<v>>) < 2^CountBits
    BY <1>3
  <2> QED BY <1>1, <2>1, <2>2, DupsIs
<1> QED BY <1>3, <1>4 DEF Dup

-----------------------------------------------------------------------------
(***************************************************************************)
(* The beginnings of the calls that drop a value.                          *)
(***************************************************************************)
\* Between calls everything counts.
LEMMA AtRest ==
  ASSUME NEW p, NEW i
  PROVE  ~Dropped(<<>>, NoCall, p, i) /\ NoCall.op = "none" /\ NoCall.val = Nothing
BY DEF Dropped, NoCall

\* Objects that no way leads to are ranked above those that it could lead to.
LEMMA Reranked ==
  ASSUME NEW m, NEW h, NEW l, Good(m, h, l, <<>>, NoCall, Nothing),
         NEW x \in Ids, NEW val \in GoodValues, NEW S \in SUBSET Ids,
         x \notin S, OnHeap(val) => val.n \in S,
         \A p \in S : \A q \in Ids : \A i \in Nat :
           Refers(m, <<>>, NoCall, p, i, q) => q \in S
  PROVE  \E rank \in [Ids -> Nat] : /\ Ranked(m, <<>>, NoCall, Nothing, rank)
                                    /\ OnHeap(val) => rank[val.n] < rank[x]
<1>1. PICK old \in [Ids -> Nat] : Ranked(m, <<>>, NoCall, Nothing, old)
  BY DEF Good
<1>2. CASE ~OnHeap(val)
  BY <1>1, <1>2
<1>3. CASE OnHeap(val)
  <2> DEFINE k == old[val.n] + 1
             rank == [o \in Ids |-> IF o \in S THEN old[o] ELSE old[o] + k]
  <2>1. val.n \in Ids /\ val.n \in S /\ k \in Nat \ {0}
    BY <1>3
  <2> HIDE DEF k
  <2>2. rank \in [Ids -> Nat]
    BY <2>1
  <2>3. ASSUME NEW p \in Ids, NEW q \in Ids, NEW i \in Nat, Refers(m, <<>>, NoCall, p, i, q)
        PROVE  rank[q] < rank[p]
    <3>1. old[q] < old[p]
      BY <1>1, <2>3 DEF Ranked
    <3>2. p \in S => q \in S
      BY <2>3
    <3> QED BY <2>1, <3>1, <3>2
  <2>4. rank[val.n] < rank[x]
    BY <2>1 DEF k
  <2>5. Ranked(m, <<>>, NoCall, Nothing, rank)
    <3> HIDE DEF rank
    <3> QED BY <2>3, AtRest, NothingIsNumber DEF Ranked
  <2> QED BY <2>2, <2>4, <2>5
<1> QED BY <1>2, <1>3

\* A call for variable x begins: memory n has value val once more, and the value in
\* place j of x is to be dropped.
LEMMA CallBegins ==
  ASSUME NEW m, NEW h, NEW l, Good(m, h, l, <<>>, NoCall, Nothing),
         NEW x \in Allocated(m), m.obj[x].kind = "sv",
         NEW j \in Places(m, x), NEW c \in GoodCalls,
         c.op # "none", c.var = Ref(x), c.op = "update" => c.val = Nothing,
         NEW n \in Memories, Allocated(n) = Allocated(m), ~n.fault,
         \A p \in Allocated(m) :
           /\ n.obj[p].kind = m.obj[p].kind /\ n.obj[p].vals = m.obj[p].vals
           /\ n.obj[p].count = IF c.val = Ref(p) THEN m.obj[p].count + 1 ELSE m.obj[p].count
           /\ p # x => (Pending(n, Ref(p)) <=> Pending(m, Ref(p))),
         c.op \in {"later", "update"} => Pending(n, Ref(x)),
         OnHeap(c.val) => c.val.n \in Allocated(m),
         \A p, i, o : Refers(n, <<>>, c, p, i, o) <=>
                        Refers(m, <<>>, NoCall, p, i, o) /\ ~(p = x /\ i = j),
         \E rank \in [Ids -> Nat] : /\ Ranked(m, <<>>, NoCall, Nothing, rank)
                                    /\ OnHeap(c.val) => rank[c.val.n] < rank[x]
  PROVE  Good(n, h, l, <<>>, c, At(m, x, j))
<1> DEFINE v == At(m, x, j)
<1>1. /\ Typed(m, h, l, <<>>, NoCall, Nothing) /\ Alive(m, <<>>) /\ Shapes(m)
      /\ Balanced(m, h, l, <<>>, NoCall, Nothing)
  BY DEF Good
<1>2. PICK rank \in [Ids -> Nat] : /\ Ranked(m, <<>>, NoCall, Nothing, rank)
                                   /\ OnHeap(c.val) => rank[c.val.n] < rank[x]
  OBVIOUS
<1>3. m \in Memories /\ x \in Ids /\ v \in GoodValues
  BY <1>1, MemoryIs DEF Typed
<1>4. Ref(x).n = x /\ OnHeap(Ref(x)) /\ DOMAIN <<>> = {}
  BY DEF Ref, OnHeap
<1>5. \A o : Refers(m, <<>>, NoCall, x, j, o) <=> v = Ref(o)
  BY AtRest DEF Refers
<1> HIDE DEF v
<1>6. Typed(n, h, l, <<>>, c, v)
  BY <1>1, <1>3 DEF Typed
<1>7. FramesOK(n, <<>>)
  BY <1>4 DEF FramesOK
<1>8. Alive(n, <<>>)
  <2>1. \A p \in Allocated(m) : m.obj[p].count \in Nat \ {0}
    <3> SUFFICES ASSUME NEW p \in Allocated(m) PROVE m.obj[p].count \in Nat \ {0}
      OBVIOUS
    <3>1. m.obj[p].count # 0
      BY <1>1, <1>4 DEF Alive
    <3>2. p \in Ids /\ m.obj[p].count = Due(m, h, l, <<>>, NoCall, Nothing, p)
      BY <1>1, <1>3, MemoryIs DEF Balanced
    <3>3. Due(m, h, l, <<>>, NoCall, Nothing, p) \in Nat
      BY <1>1, <3>2, Summands, CountOne DEF Due
    <3> QED BY <3>1, <3>2, <3>3
  <2>2. \A p \in Allocated(n) : n.obj[p].count # 0
    BY <2>1
  <2> QED BY <2>2 DEF Alive
<1>9. Shapes(n)
  BY <1>1 DEF Shapes
<1>10. CallOK(n, <<>>, c)
  BY <1>4 DEF CallOK, Live
<1>11. Balanced(n, h, l, <<>>, c, v)
  <2>1. ASSUME NEW o \in Ids
        PROVE  Due(n, h, l, <<>>, c, v, o) =
                 IF c.val = Ref(o) THEN Due(m, h, l, <<>>, NoCall, Nothing, o) + 1
                                   ELSE Due(m, h, l, <<>>, NoCall, Nothing, o)
    <3>1. Cardinality(Referrers(n, <<>>, c, o)) =
            Cardinality(Referrers(m, <<>>, NoCall, o)) -
              IF Refers(m, <<>>, NoCall, x, j, o) THEN 1 ELSE 0
      BY <1>3, ReferrersButOne
    <3>2. Nothing # Ref(o) /\ NoCall.val = Nothing
      BY NothingIsNumber, AtRest
    <3>3. Cardinality(Referrers(m, <<>>, NoCall, o)) \in Nat /\ h[o] \in Nat /\ l[o] \in Nat
      BY <1>1, Summands
    <3> QED BY <1>5, <3>1, <3>2, <3>3, CountOne DEF Due
  <2>2. ASSUME NEW o \in Ids, o \notin Allocated(m) PROVE c.val # Ref(o)
    BY <2>2, RefIs DEF GoodCalls
  <2> QED BY <1>1, <2>1, <2>2 DEF Balanced
<1>12. Ranked(n, <<>>, c, v, rank)
  <2>1. ASSUME OnHeap(v) PROVE rank[v.n] < rank[x]
    <3>1. v.n \in Ids /\ v = Ref(v.n)
      BY <1>3, <2>1, RefIs
    <3>2. j \in Nat
      BY <1>3, MemoryIs DEF Places
    <3> QED BY <1>2, <1>3, <1>5, <3>1, <3>2 DEF Ranked
  <2> QED BY <1>2, <1>4, <2>1 DEF Ranked
<1>13. Good(n, h, l, <<>>, c, v)
  BY <1>2, <1>6, <1>7, <1>8, <1>9, <1>10, <1>11, <1>12 DEF Good
<1> QED BY <1>13 DEF v

\* Routines give up a reference they hold.
LEMMA DropBegins ==
  ASSUME NEW m, NEW h, NEW l, Good(m, h, l, <<>>, NoCall, Nothing),
         NEW o \in Ids, h[o] > 0
  PROVE  Good(m, Minus(h, <<Ref(o)>>), l, <<>>, NoCall, Ref(o))
<1> DEFINE k == Minus(h, <<Ref(o)>>)
<1>1. /\ Typed(m, h, l, <<>>, NoCall, Nothing) /\ FramesOK(m, <<>>) /\ Alive(m, <<>>)
      /\ Shapes(m) /\ CallOK(m, <<>>, NoCall) /\ Balanced(m, h, l, <<>>, NoCall, Nothing)
  BY DEF Good
<1>2. PICK rank \in [Ids -> Nat] : Ranked(m, <<>>, NoCall, Nothing, rank)
  BY DEF Good
<1>3. h \in [Ids -> Nat]
  BY <1>1 DEF Typed
<1>4. \A q : Ref(o) = Ref(q) <=> o = q
  BY DEF Ref
<1>5. \A q : Count(q, <<Ref(o)>>) = IF o = q THEN 1 ELSE 0
  BY <1>4, CountOne
<1>6. k \in [Ids -> Nat] /\ \A q \in Ids : k[q] = IF o = q THEN h[q] - 1 ELSE h[q]
  BY <1>3, <1>5 DEF Minus
<1> HIDE DEF k
<1>7. Typed(m, k, l, <<>>, NoCall, Ref(o))
  BY <1>1, <1>6, RefIs DEF Typed
<1>8. Balanced(m, k, l, <<>>, NoCall, Ref(o))
  <2>1. ASSUME NEW q \in Ids
        PROVE  Due(m, k, l, <<>>, NoCall, Ref(o), q) = Due(m, h, l, <<>>, NoCall, Nothing, q)
    <3>1. Nothing # Ref(q) /\ NoCall.val = Nothing
      BY NothingIsNumber, AtRest
    <3>2. Cardinality(Referrers(m, <<>>, NoCall, q)) \in Nat /\ h[q] \in Nat /\ l[q] \in Nat
      BY <1>1, Summands
    <3>3. Count(q, <<NoCall.val>>) = 0 /\ Count(q, <<Nothing>>) = 0
      BY <3>1, CountOne
    <3> DEFINE a == h[q]
               b == l[q]
               d == Cardinality(Referrers(m, <<>>, NoCall, q))
    <3>4. a \in Nat /\ b \in Nat /\ d \in Nat
      BY <3>2
    <3>5. k[q] + Count(q, <<Ref(o)>>) = a /\ k[q] \in Nat /\ Count(q, <<Ref(o)>>) \in Nat
      <4>1. k[q] \in Nat /\ k[q] = IF o = q THEN a - 1 ELSE a
        BY <1>6
      <4>2. Count(q, <<Ref(o)>>) = IF o = q THEN 1 ELSE 0
        BY <1>5
      <4> HIDE DEF a
      <4>3. CASE o = q
        BY <3>4, <4>1, <4>2, <4>3
      <4>4. CASE o # q
        BY <3>4, <4>1, <4>2, <4>4
      <4> QED BY <4>3, <4>4
    <3>6. /\ Due(m, k, l, <<>>, NoCall, Ref(o), q) = k[q] + b + d + 0 + Count(q, <<Ref(o)>>)
          /\ Due(m, h, l, <<>>, NoCall, Nothing, q) = a + b + d + 0 + 0
      BY <3>3 DEF Due
    <3> HIDE DEF a, b, d
    <3> QED BY <3>4, <3>5, <3>6
  <2> QED BY <1>1, <2>1 DEF Balanced
<1>9. Ranked(m, <<>>, NoCall, Ref(o), rank)
  BY <1>2, AtRest DEF Ranked
<1>10. Good(m, k, l, <<>>, NoCall, Ref(o))
  BY <1>1, <1>7, <1>8, <1>9 DEF Good
<1> QED BY <1>10 DEF k

\* Frames that there are none of have dropped nothing; the call has dropped one value.
LEMMA NoneDropped ==
  ASSUME NEW x, NEW val
  PROVE  \A p, i :
           /\ Dropped(<<>>, [op |-> "assign", var |-> Ref(x), val |-> val], p, i) <=> p = x /\ i = 1
           /\ Dropped(<<>>, [op |-> "update", var |-> Ref(x), val |-> val], p, i) <=> p = x /\ i = 1
           /\ Dropped(<<>>, [op |-> "later", var |-> Ref(x), val |-> val], p, i) <=> p = x /\ i = 0
<1>1. \A p : Ref(x) = Ref(p) <=> p = x
  BY DEF Ref
<1>2. DOMAIN <<>> = {}
  OBVIOUS
<1> QED BY <1>1, <1>2 DEF Dropped

\* A variable's value.
LEMMA ValuePlace ==
  ASSUME NEW m, Shapes(m), NEW x \in Allocated(m), m.obj[x].kind = "sv"
  PROVE  1 \in Places(m, x) /\ At(m, x, 1) = Deref(m, Ref(x))
<1>1. Len(m.obj[x].vals) = 1
  BY DEF Shapes
<1>2. Places(m, x) = 0..1
  BY <1>1 DEF Places
<1>3. Deref(m, Ref(x)) = m.obj[x].vals[1]
  BY DEF Deref, Field, Ref
<1>4. At(m, x, 1) = m.obj[x].vals[1]
  BY DEF At
<1> QED BY <1>2, <1>3, <1>4

LEMMA AssignBegins ==
  ASSUME NEW m, NEW h, NEW l, Good(m, h, l, <<>>, NoCall, Nothing),
         NEW x \in Allocated(m), m.obj[x].kind = "sv", NEW val \in GoodValues,
         OnHeap(val) => val.n \in Allocated(m) /\ m.obj[val.n].count + 1 < 2^CountBits,
         \E rank \in [Ids -> Nat] : /\ Ranked(m, <<>>, NoCall, Nothing, rank)
                                    /\ OnHeap(val) => rank[val.n] < rank[x]
  PROVE  Good(Dup(m, val), h, l, <<>>, [op |-> "assign", var |-> Ref(x), val |-> val],
              Deref(m, Ref(x)))
<1> DEFINE n == Dup(m, val)
           c == [op |-> "assign", var |-> Ref(x), val |-> val]
<1>1. m \in Memories /\ ~m.fault /\ Shapes(m)
  BY DEF Good, Typed
<1>2. /\ n \in Memories /\ SameContents(m, n)
      /\ \A o \in Allocated(m) :
           n.obj[o].count = IF val = Ref(o) THEN m.obj[o].count + 1 ELSE m.obj[o].count
  BY <1>1, DupIs
<1> HIDE DEF n
<1>3. /\ Allocated(n) = Allocated(m) /\ ~n.fault
      /\ \A p \in Allocated(m) : n.obj[p].kind = m.obj[p].kind /\ n.obj[p].vals = m.obj[p].vals
  BY <1>1, <1>2 DEF SameContents
<1>4. /\ \A p \in Allocated(m) : Pending(n, Ref(p)) <=> Pending(m, Ref(p))
      /\ \A fs, d, p, i, o : Refers(n, fs, d, p, i, o) <=> Refers(m, fs, d, p, i, o)
  BY <1>2, SamePlaces
<1>5. /\ c \in GoodCalls /\ c.op = "assign" /\ c.var = Ref(x) /\ c.val = val
  <2>1. Ref(x) \in GoodValues
    BY <1>1, MemoryIs, RefIs
  <2> QED BY <2>1 DEF GoodCalls
<1>6. \A p, i : Dropped(<<>>, c, p, i) <=> p = x /\ i = 1
  BY NoneDropped
<1> HIDE DEF c
<1>7. \A p, i, o : Refers(n, <<>>, c, p, i, o) <=>
                     Refers(m, <<>>, NoCall, p, i, o) /\ ~(p = x /\ i = 1)
  BY <1>4, <1>6, AtRest DEF Refers
<1>8. 1 \in Places(m, x) /\ At(m, x, 1) = Deref(m, Ref(x))
  BY <1>1, ValuePlace
<1>9. Good(n, h, l, <<>>, c, At(m, x, 1))
  BY <1>2, <1>3, <1>4, <1>5, <1>7, <1>8, CallBegins
<1> QED BY <1>8, <1>9 DEF n, c

LEMMA LaterBegins ==
  ASSUME NEW m, NEW h, NEW l, Good(m, h, l, <<>>, NoCall, Nothing),
         NEW x \in Allocated(m), m.obj[x].kind = "sv", NEW val \in GoodValues,
         OnHeap(val) => val.n \in Allocated(m) /\ m.obj[val.n].count + 1 < 2^CountBits,
         \E rank \in [Ids -> Nat] : /\ Ranked(m, <<>>, NoCall, Nothing, rank)
                                    /\ OnHeap(val) => rank[val.n] < rank[x]
  PROVE  Good(Schedule(Dup(m, val), Ref(x), Soon), h, l, <<>>,
              [op |-> "later", var |-> Ref(x), val |-> val], At(m, x, 0))
<1> DEFINE r == Dup(m, val)
           n == Schedule(r, Ref(x), Soon)
           c == [op |-> "later", var |-> Ref(x), val |-> val]
<1>1. m \in Memories /\ ~m.fault /\ Shapes(m)
  BY DEF Good, Typed
<1>2. /\ r \in Memories /\ SameContents(m, r)
      /\ \A o \in Allocated(m) :
           r.obj[o].count = IF val = Ref(o) THEN m.obj[o].count + 1 ELSE m.obj[o].count
  BY <1>1, DupIs
<1> HIDE DEF r
<1>3. /\ Allocated(r) = Allocated(m) /\ ~r.fault /\ Ref(x).n = x
      /\ \A p \in Allocated(m) : r.obj[p].kind = m.obj[p].kind /\ r.obj[p].vals = m.obj[p].vals
  BY <1>1, <1>2 DEF SameContents, Ref
<1>4. /\ \A p \in Allocated(m) : /\ Places(r, p) = Places(m, p)
                                 /\ Pending(r, Ref(p)) <=> Pending(m, Ref(p))
      /\ \A fs, d, p, i, o : Refers(r, fs, d, p, i, o) <=> Refers(m, fs, d, p, i, o)
  BY <1>2, SamePlaces
<1>5. n = WithTime(r, Ref(x), Soon)
  BY <1>3 DEF Schedule, WithTime, Live
<1>6. /\ n \in Memories /\ Allocated(n) = Allocated(m) /\ ~n.fault
      /\ \A p \in Allocated(m) :
           /\ n.obj[p].kind = m.obj[p].kind /\ n.obj[p].vals = m.obj[p].vals
           /\ n.obj[p].count = IF val = Ref(p) THEN m.obj[p].count + 1 ELSE m.obj[p].count
           /\ n.obj[p].later_value = r.obj[p].later_value
           /\ n.obj[p].later_time = IF p = x THEN Soon ELSE r.obj[p].later_time
  BY <1>2, <1>3, <1>5, TimeIs
<1> HIDE DEF n
<1>7. /\ \A p \in Allocated(m) : /\ Places(n, p) = Places(r, p)
                                 /\ \A i : ~(p = x /\ i = 0) => At(n, p, i) = At(r, p, i)
                                 /\ p # x => (Pending(n, Ref(p)) <=> Pending(r, Ref(p)))
      /\ Pending(n, Ref(x))
  BY <1>3, <1>6, RefCountAssumption DEF Places, At, Pending, LaterValue, Ref
<1>8. /\ c \in GoodCalls /\ c.op = "later" /\ c.var = Ref(x) /\ c.val = val
  <2>1. Ref(x) \in GoodValues
    BY <1>1, MemoryIs, RefIs
  <2> QED BY <2>1 DEF GoodCalls
<1>9. \A p, i : Dropped(<<>>, c, p, i) <=> p = x /\ i = 0
  BY NoneDropped
<1> HIDE DEF c
<1>10. \A p, i, o : Refers(n, <<>>, c, p, i, o) <=>
                      Refers(m, <<>>, NoCall, p, i, o) /\ ~(p = x /\ i = 0)
  <2>1. \A p, i, o : Refers(n, <<>>, c, p, i, o) <=>
                       Refers(r, <<>>, NoCall, p, i, o) /\ ~(p = x /\ i = 0)
    BY <1>3, <1>6, <1>7, <1>9, AtRest DEF Refers
  <2> QED BY <1>4, <2>1
<1>11. 0 \in Places(m, x)
  BY <1>1, MemoryIs DEF Places
<1>12. Good(n, h, l, <<>>, c, At(m, x, 0))
  BY <1>4, <1>6, <1>7, <1>8, <1>10, <1>11, CallBegins
<1> QED BY <1>12 DEF n, c, r

LEMMA UpdateBegins ==
  ASSUME NEW m, NEW h, NEW l, Good(m, h, l, <<>>, NoCall, Nothing),
         NEW x \in Allocated(m), m.obj[x].kind = "sv", Pending(m, Ref(x))
  PROVE  Good(m, h, l, <<>>, [op |-> "update", var |-> Ref(x), val |-> Nothing],
              Deref(m, Ref(x)))
<1> DEFINE c == [op |-> "update", var |-> Ref(x), val |-> Nothing]
<1>1. m \in Memories /\ ~m.fault /\ Shapes(m)
  BY DEF Good, Typed
<1>2. c \in GoodCalls /\ c.op = "update" /\ c.var = Ref(x) /\ c.val = Nothing
  <2>1. Ref(x) \in GoodValues /\ Nothing \in GoodValues
    BY <1>1, MemoryIs, RefIs, NothingIsNumber
  <2> QED BY <2>1 DEF GoodCalls
<1>3. \A p, i : Dropped(<<>>, c, p, i) <=> p = x /\ i = 1
  BY NoneDropped
<1> HIDE DEF c
<1>4. \A p, i, o : Refers(m, <<>>, c, p, i, o) <=>
                     Refers(m, <<>>, NoCall, p, i, o) /\ ~(p = x /\ i = 1)
  BY <1>3, AtRest DEF Refers
<1>5. 1 \in Places(m, x) /\ At(m, x, 1) = Deref(m, Ref(x))
  BY <1>1, ValuePlace
<1>6. \E rank \in [Ids -> Nat] : /\ Ranked(m, <<>>, NoCall, Nothing, rank)
                                 /\ OnHeap(c.val) => rank[c.val.n] < rank[x]
  BY <1>2, NothingIsNumber DEF Good
<1>7. ~OnHeap(c.val) /\ \A o : c.val # Ref(o)
  BY <1>2, NothingIsNumber
<1>8. Good(m, h, l, <<>>, c, At(m, x, 1))
  BY <1>1, <1>2, <1>4, <1>5, <1>6, <1>7, CallBegins
<1> QED BY <1>5, <1>8 DEF c

-----------------------------------------------------------------------------
(***************************************************************************)
(* The ends of the calls that drop a value: a variable is written.         *)
(***************************************************************************)
\* What WriteValue and WriteLater leave of a memory.
LEMMA WriteIs ==
  ASSUME NEW m \in Memories, NEW v, v.n \in Allocated(m), NEW val \in GoodValues
  PROVE  /\ WriteValue(m, v, val, Never) \in Memories
         /\ Allocated(WriteValue(m, v, val, Never)) = Allocated(m)
         /\ WriteValue(m, v, val, Never).fault = m.fault
         /\ \A p \in Allocated(m) :
              /\ WriteValue(m, v, val, Never).obj[p].kind = m.obj[p].kind
              /\ WriteValue(m, v, val, Never).obj[p].vals =
                   IF p = v.n THEN <<val>> ELSE m.obj[p].vals
              /\ WriteValue(m, v, val, Never).obj[p].count = m.obj[p].count
              /\ WriteValue(m, v, val, Never).obj[p].later_value = m.obj[p].later_value
              /\ WriteValue(m, v, val, Never).obj[p].later_time = m.obj[p].later_time
<1> DEFINE n == WriteValue(m, v, val, Never)
           e == [m.obj[v.n] EXCEPT !.vals = <<val>>, !.last_updated = Never]
<1>1. PICK S \in SUBSET Ids : m.obj \in [S -> GoodObjects] /\ S = Allocated(m)
  BY DEF Memories, Allocated
<1>2. m.obj[v.n] \in GoodObjects /\ <<val>> \in Seq(GoodValues)
  BY <1>1
<1>3. /\ e \in GoodObjects /\ e.vals = <<val>> /\ e.kind = m.obj[v.n].kind
      /\ e.count = m.obj[v.n].count /\ e.later_value = m.obj[v.n].later_value
      /\ e.later_time = m.obj[v.n].later_time
  <2> HIDE DEF GoodValues
  <2> QED BY <1>2 DEF GoodObjects
<1>4. n.obj = [m.obj EXCEPT ![v.n] = e] /\ n = [m EXCEPT !.obj = n.obj] /\ n.fault = m.fault
  BY <1>1, <1>2 DEF WriteValue, Live, Memories, GoodObjects
<1> HIDE DEF n, e
<1>5. n.obj \in [S -> GoodObjects]
  BY <1>1, <1>3, <1>4
<1>6. n \in Memories
  BY <1>4, <1>5 DEF Memories
<1>7. \A p \in S : n.obj[p] = IF p = v.n THEN e ELSE m.obj[p]
  BY <1>1, <1>4
<1> QED BY <1>1, <1>3, <1>4, <1>5, <1>6, <1>7 DEF Allocated, n

LEMMA WriteLaterIs ==
  ASSUME NEW m \in Memories, NEW v, v.n \in Allocated(m), NEW val \in GoodValues
  PROVE  /\ WriteLater(m, v, val) \in Memories
         /\ Allocated(WriteLater(m, v, val)) = Allocated(m)
         /\ WriteLater(m, v, val).fault = m.fault
         /\ \A p \in Allocated(m) :
              /\ WriteLater(m, v, val).obj[p].kind = m.obj[p].kind
              /\ WriteLater(m, v, val).obj[p].vals = m.obj[p].vals
              /\ WriteLater(m, v, val).obj[p].count = m.obj[p].count
              /\ WriteLater(m, v, val).obj[p].later_value =
                   IF p = v.n THEN val ELSE m.obj[p].later_value
              /\ WriteLater(m, v, val).obj[p].later_time = m.obj[p].later_time
<1> DEFINE n == WriteLater(m, v, val)
           e == [m.obj[v.n] EXCEPT !.later_value = val]
<1>1. PICK S \in SUBSET Ids : m.obj \in [S -> GoodObjects] /\ S = Allocated(m)
  BY DEF Memories, Allocated
<1>2. m.obj[v.n] \in GoodObjects
  BY <1>1
<1>3. /\ e \in GoodObjects /\ e.later_value = val /\ e.kind = m.obj[v.n].kind
      /\ e.count = m.obj[v.n].count /\ e.vals = m.obj[v.n].vals
      /\ e.later_time = m.obj[v.n].later_time
  BY <1>2, ObjectWith
<1>4. n.obj = [m.obj EXCEPT ![v.n] = e] /\ n = [m EXCEPT !.obj = n.obj] /\ n.fault = m.fault
  BY <1>1 DEF WriteLater, Live, Memories
<1> HIDE DEF n, e
<1>5. n.obj \in [S -> GoodObjects]
  BY <1>1, <1>3, <1>4
<1>6. n \in Memories
  BY <1>4, <1>5 DEF Memories
<1>7. \A p \in S : n.obj[p] = IF p = v.n THEN e ELSE m.obj[p]
  BY <1>1, <1>4
<1> QED BY <1>1, <1>3, <1>4, <1>5, <1>6, <1>7 DEF Allocated, n

LEMMA CallReturns ==
  ASSUME NEW m, NEW h, NEW l, NEW c, Good(m, h, l, <<>>, c, Nothing), c.op # "none",
         NEW n \in Memories, Allocated(n) = Allocated(m), ~n.fault, Shapes(n),
         \A p \in Allocated(m) : n.obj[p].count = m.obj[p].count,
         \A o \in Ids : Cardinality(Referrers(n, <<>>, NoCall, o)) =
                          Cardinality(Referrers(m, <<>>, c, o)) + Count(o, <<c.val>>),
         \A p, q \in Ids : \A i \in Nat :
           Refers(n, <<>>, NoCall, p, i, q) =>
             \/ \E j \in Nat : Refers(m, <<>>, c, p, j, q)
             \/ p = c.var.n /\ c.val = Ref(q)
  PROVE  Good(n, h, l, <<>>, NoCall, Nothing)
<1>1. /\ Typed(m, h, l, <<>>, c, Nothing) /\ Alive(m, <<>>) /\ Shapes(m)
      /\ Balanced(m, h, l, <<>>, c, Nothing)
  BY DEF Good
<1>2. PICK rank \in [Ids -> Nat] : Ranked(m, <<>>, c, Nothing, rank)
  BY DEF Good
<1>3. NoCall \in GoodCalls
  BY NothingIsNumber DEF NoCall, GoodCalls
<1>4. Typed(n, h, l, <<>>, NoCall, Nothing)
  BY <1>1, <1>3 DEF Typed
<1>5. FramesOK(n, <<>>)
  BY DEF FramesOK
<1>6. Alive(n, <<>>)
  BY <1>1 DEF Alive
<1>7. CallOK(n, <<>>, NoCall)
  BY DEF CallOK, NoCall
<1>8. Balanced(n, h, l, <<>>, NoCall, Nothing)
  <2>1. ASSUME NEW o \in Ids
        PROVE  Due(n, h, l, <<>>, NoCall, Nothing, o) = Due(m, h, l, <<>>, c, Nothing, o)
    <3>1. Count(o, <<NoCall.val>>) = 0 /\ Count(o, <<Nothing>>) = 0
      BY NothingIsNumber, AtRest, CountOne
    <3>2. Cardinality(Referrers(m, <<>>, c, o)) \in Nat /\ h[o] \in Nat /\ l[o] \in Nat
      BY <1>1, Summands
    <3>3. Count(o, <<c.val>>) \in Nat
      BY CountOne
    <3> QED BY <3>1, <3>2, <3>3 DEF Due
  <2> QED BY <1>1, <2>1 DEF Balanced
<1>9. Ranked(n, <<>>, NoCall, Nothing, rank)
  <2>1. ASSUME NEW p \in Ids, NEW q \in Ids, p = c.var.n, c.val = Ref(q)
        PROVE  rank[q] < rank[p]
    BY <1>2, <2>1, RefIs DEF Ranked
  <2> QED BY <1>2, <2>1, AtRest, NothingIsNumber DEF Ranked
<1> QED BY <1>4, <1>5, <1>6, <1>7, <1>8, <1>9, <1>1 DEF Good

\* A call's variable, and the places that have been dropped when nothing more is to be.
LEMMA CallVariable ==
  ASSUME NEW m, NEW h, NEW l, NEW c, Good(m, h, l, <<>>, c, Nothing), c.op # "none"
  PROVE  /\ m \in Memories /\ ~m.fault /\ Shapes(m)
         /\ c.var.n \in Allocated(m) /\ c.var.n \in Ids /\ c.var = Ref(c.var.n)
         /\ c.val \in GoodValues
         /\ m.obj[c.var.n].kind = "sv" /\ Len(m.obj[c.var.n].vals) = 1
         /\ Places(m, c.var.n) = {0, 1}
         /\ c.op \in {"assign", "later", "update"}
         /\ c.op \in {"later", "update"} => Pending(m, Ref(c.var.n))
         /\ \A p, i : Dropped(<<>>, c, p, i) <=>
                        p = c.var.n /\ i = IF c.op = "later" THEN 0 ELSE 1
<1>1. /\ Typed(m, h, l, <<>>, c, Nothing) /\ Shapes(m) /\ CallOK(m, <<>>, c)
  BY DEF Good
<1>2. /\ m \in Memories /\ ~m.fault /\ c.var \in GoodValues /\ c.val \in GoodValues
      /\ c.op \in {"assign", "later", "update"}
  BY <1>1 DEF Typed, GoodCalls
<1>3. /\ c.var.n \in Allocated(m) /\ c.var.n \in Ids /\ c.var = Ref(c.var.n)
      /\ m.obj[c.var.n].kind = "sv"
  BY <1>1, <1>2, RefIs DEF CallOK, Live
<1>4. c.op \in {"later", "update"} => Pending(m, Ref(c.var.n))
  BY <1>1, <1>3 DEF CallOK
<1>5. Len(m.obj[c.var.n].vals) = 1
  BY <1>1, <1>3 DEF Shapes
<1>6. Places(m, c.var.n) = {0, 1}
  BY <1>5 DEF Places
<1>7. \A p : c.var = Ref(p) <=> p = c.var.n
  BY <1>2, <1>3, RefIs
<1>8. \A p, i : Dropped(<<>>, c, p, i) <=>
                  p = c.var.n /\ i = IF c.op = "later" THEN 0 ELSE 1
  <2>1. DOMAIN <<>> = {}
    OBVIOUS
  <2> QED BY <1>2, <1>7, <2>1 DEF Dropped
<1> QED BY <1>1, <1>2, <1>3, <1>4, <1>5, <1>6, <1>8

\* Memory n has in place j of the variable the call's value, and else what m has.
LEMMA ValueWritten ==
  ASSUME NEW m, NEW h, NEW l, NEW c, Good(m, h, l, <<>>, c, Nothing), c.op # "none",
         NEW n \in Memories, Allocated(n) = Allocated(m), ~n.fault,
         \A p \in Allocated(m) :
           /\ n.obj[p].kind = m.obj[p].kind
           /\ n.obj[p].count = m.obj[p].count
           /\ Len(n.obj[p].vals) = Len(m.obj[p].vals)
           /\ Pending(n, Ref(p)) <=> Pending(m, Ref(p))
           /\ \A i \in Places(m, p) :
                At(n, p, i) = IF Dropped(<<>>, c, p, i) THEN c.val ELSE At(m, p, i)
  PROVE  Good(n, h, l, <<>>, NoCall, Nothing)
<1> DEFINE x == c.var.n
           j == IF c.op = "later" THEN 0 ELSE 1
<1>1. /\ m \in Memories /\ ~m.fault /\ Shapes(m)
      /\ x \in Allocated(m) /\ x \in Ids /\ c.val \in GoodValues
      /\ Places(m, x) = {0, 1}
      /\ \A p, i : Dropped(<<>>, c, p, i) <=> p = x /\ i = j
  BY CallVariable
<1>2. j \in {0, 1}
  OBVIOUS
<1> HIDE DEF j, x
<1>3. \A p \in Allocated(m) : Places(n, p) = Places(m, p)
  BY DEF Places
<1>4. Shapes(n)
  BY <1>1 DEF Shapes
<1>5. \A p, i, o : Refers(m, <<>>, c, p, i, o) <=>
                     Refers(n, <<>>, NoCall, p, i, o) /\ ~(p = x /\ i = j)
  BY <1>1, <1>3, AtRest DEF Refers
<1>6. \A o : Refers(n, <<>>, NoCall, x, j, o) <=> c.val = Ref(o)
  BY <1>1, <1>2, <1>3, AtRest DEF Refers
<1>7. ASSUME NEW o \in Ids
      PROVE  Cardinality(Referrers(n, <<>>, NoCall, o)) =
               Cardinality(Referrers(m, <<>>, c, o)) + Count(o, <<c.val>>)
  <2>1. Cardinality(Referrers(m, <<>>, c, o)) =
          Cardinality(Referrers(n, <<>>, NoCall, o)) -
            IF Refers(n, <<>>, NoCall, x, j, o) THEN 1 ELSE 0
    BY <1>1, <1>5, ReferrersButOne
  <2>2. Cardinality(Referrers(n, <<>>, NoCall, o)) \in Nat
    BY ReferrersFinite
  <2>3. Count(o, <<c.val>>) = IF c.val = Ref(o) THEN 1 ELSE 0
    BY CountOne
  <2> QED BY <1>6, <2>1, <2>2, <2>3
<1>8. \A p, q \in Ids : \A i \in Nat :
        Refers(n, <<>>, NoCall, p, i, q) =>
          \/ \E k \in Nat : Refers(m, <<>>, c, p, k, q)
          \/ p = c.var.n /\ c.val = Ref(q)
  BY <1>5, <1>6 DEF x
<1> QED BY <1>4, <1>7, <1>8, CallReturns

LEMMA AssignReturns ==
  ASSUME NEW m, NEW h, NEW l, NEW c, Good(m, h, l, <<>>, c, Nothing), c.op = "assign"
  PROVE  Good(WriteValue(m, c.var, c.val, Never), h, l, <<>>, NoCall, Nothing)
<1> DEFINE n == WriteValue(m, c.var, c.val, Never)
           x == c.var.n
<1>1. /\ m \in Memories /\ ~m.fault /\ x \in Allocated(m) /\ c.val \in GoodValues
      /\ Len(m.obj[x].vals) = 1 /\ Places(m, x) = {0, 1}
      /\ \A p, i : Dropped(<<>>, c, p, i) <=> p = x /\ i = 1
  BY CallVariable
<1>2. /\ n \in Memories /\ Allocated(n) = Allocated(m) /\ ~n.fault
      /\ \A p \in Allocated(m) :
           /\ n.obj[p].kind = m.obj[p].kind
           /\ n.obj[p].vals = IF p = x THEN <<c.val>> ELSE m.obj[p].vals
           /\ n.obj[p].count = m.obj[p].count
           /\ n.obj[p].later_value = m.obj[p].later_value
           /\ n.obj[p].later_time = m.obj[p].later_time
  BY <1>1, WriteIs
<1> HIDE DEF n, x
<1>3. \A p \in Allocated(m) : Len(n.obj[p].vals) = Len(m.obj[p].vals)
  BY <1>1, <1>2
<1>4. \A p \in Allocated(m) : Pending(n, Ref(p)) <=> Pending(m, Ref(p))
  BY <1>2 DEF Pending, Ref
<1>5. ASSUME NEW p \in Allocated(m), NEW i \in Places(m, p)
      PROVE  At(n, p, i) = IF Dropped(<<>>, c, p, i) THEN c.val ELSE At(m, p, i)
  <2>1. CASE i = 0
    BY <1>1, <1>2, <1>4, <2>1 DEF At, LaterValue, Ref
  <2>2. CASE i # 0
    <3>1. At(n, p, i) = n.obj[p].vals[i] /\ At(m, p, i) = m.obj[p].vals[i]
      BY <2>2 DEF At
    <3>2. CASE p = x /\ i = 1
      BY <1>1, <1>2, <3>1, <3>2
    <3>3. CASE p # x
      BY <1>1, <1>2, <3>1, <3>3
    <3>4. p = x => i = 1
      BY <1>1, <1>5, <2>2
    <3> QED BY <3>2, <3>3, <3>4
  <2> QED BY <2>1, <2>2
<1>6. Good(n, h, l, <<>>, NoCall, Nothing)
  BY <1>2, <1>3, <1>4, <1>5, ValueWritten
<1> QED BY <1>6 DEF n

LEMMA LaterReturns ==
  ASSUME NEW m, NEW h, NEW l, NEW c, Good(m, h, l, <<>>, c, Nothing), c.op = "later"
  PROVE  Good(WriteLater(m, c.var, c.val), h, l, <<>>, NoCall, Nothing)
<1> DEFINE n == WriteLater(m, c.var, c.val)
           x == c.var.n
<1>1. /\ m \in Memories /\ ~m.fault /\ x \in Allocated(m) /\ c.val \in GoodValues
      /\ Pending(m, Ref(x))
      /\ \A p, i : Dropped(<<>>, c, p, i) <=> p = x /\ i = 0
  BY CallVariable
<1>2. /\ n \in Memories /\ Allocated(n) = Allocated(m) /\ ~n.fault
      /\ \A p \in Allocated(m) :
           /\ n.obj[p].kind = m.obj[p].kind
           /\ n.obj[p].vals = m.obj[p].vals
           /\ n.obj[p].count = m.obj[p].count
           /\ n.obj[p].later_value = IF p = x THEN c.val ELSE m.obj[p].later_value
           /\ n.obj[p].later_time = m.obj[p].later_time
  BY <1>1, WriteLaterIs
<1> HIDE DEF n, x
<1>3. \A p \in Allocated(m) : Pending(n, Ref(p)) <=> Pending(m, Ref(p))
  BY <1>2 DEF Pending, Ref
<1>4. \A p \in Allocated(m) : \A i \in Places(m, p) :
        At(n, p, i) = IF Dropped(<<>>, c, p, i) THEN c.val ELSE At(m, p, i)
  BY <1>1, <1>2, <1>3 DEF At, LaterValue, Ref
<1>5. Good(n, h, l, <<>>, NoCall, Nothing)
  BY <1>2, <1>3, <1>4, ValueWritten
<1> QED BY <1>5 DEF n

\* What was pending becomes the value: its reference moves from one place to the other.
LEMMA UpdateReturns ==
  ASSUME NEW m, NEW h, NEW l, NEW c, Good(m, h, l, <<>>, c, Nothing), c.op = "update"
  PROVE  Good(WriteUpdate(m, c.var, Never), h, l, <<>>, NoCall, Nothing)
<1> DEFINE x == c.var.n
           w == LaterValue(m, c.var)
           r == WriteValue(m, c.var, w, Never)
           n == Unschedule(r, c.var)
           d == Unschedule(m, c.var)
<1>1. /\ m \in Memories /\ ~m.fault /\ Shapes(m) /\ x \in Allocated(m) /\ x \in Ids
      /\ c.var = Ref(x) /\ m.obj[x].kind = "sv"
      /\ Pending(m, Ref(x)) /\ Len(m.obj[x].vals) = 1 /\ Places(m, x) = {0, 1}
      /\ \A p, i : Dropped(<<>>, c, p, i) <=> p = x /\ i = 1
  BY CallVariable
<1>2. WriteUpdate(m, c.var, Never) = n
  BY <1>1 DEF WriteUpdate, Live
<1>3. w \in GoodValues /\ At(m, x, 0) = w
  <2>1. At(m, x, 0) = w
    BY <1>1 DEF At
  <2> QED BY <1>1, <2>1, MemoryIs
<1>4. /\ r \in Memories /\ Allocated(r) = Allocated(m) /\ ~r.fault
      /\ \A p \in Allocated(m) :
           /\ r.obj[p].kind = m.obj[p].kind
           /\ r.obj[p].vals = IF p = x THEN <<w>> ELSE m.obj[p].vals
           /\ r.obj[p].count = m.obj[p].count
           /\ r.obj[p].later_value = m.obj[p].later_value
           /\ r.obj[p].later_time = m.obj[p].later_time
  BY <1>1, <1>3, WriteIs
<1> HIDE DEF r, w
<1>5. /\ n \in Memories /\ Allocated(n) = Allocated(m) /\ ~n.fault
      /\ \A p \in Allocated(m) :
           /\ n.obj[p].kind = m.obj[p].kind
           /\ n.obj[p].vals = IF p = x THEN <<w>> ELSE m.obj[p].vals
           /\ n.obj[p].count = m.obj[p].count
           /\ n.obj[p].later_value = m.obj[p].later_value
           /\ n.obj[p].later_time = IF p = x THEN Never ELSE m.obj[p].later_time
  <2>1. c.var.n \in Allocated(r)
    BY <1>1, <1>4
  <2>2. /\ n \in Memories /\ Allocated(n) = Allocated(r) /\ n.fault = r.fault
        /\ \A p \in Allocated(r) :
             /\ n.obj[p].kind = r.obj[p].kind
             /\ n.obj[p].vals = r.obj[p].vals
             /\ n.obj[p].count = r.obj[p].count
             /\ n.obj[p].later_value = r.obj[p].later_value
             /\ n.obj[p].later_time = IF p = x THEN Never ELSE r.obj[p].later_time
    BY <1>4, <2>1, UnscheduleIs
  <2> HIDE DEF n, x
  <2> QED BY <1>4, <2>2
<1> HIDE DEF n, x
<1>6. /\ \A p \in Allocated(m) : Len(n.obj[p].vals) = Len(m.obj[p].vals)
      /\ \A p \in Allocated(m) : Places(n, p) = Places(m, p)
  <2>1. \A p \in Allocated(m) : Len(n.obj[p].vals) = Len(m.obj[p].vals)
    BY <1>1, <1>5
  <2> QED BY <2>1 DEF Places
<1>7. \A p \in Allocated(m) : Pending(n, Ref(p)) <=> p # x /\ Pending(m, Ref(p))
  BY <1>5 DEF Pending, Ref
<1>8. Shapes(n)
  BY <1>1, <1>5, <1>6, <1>7 DEF Shapes
<1>9. /\ \A p \in Allocated(m) : p # x => \A i : At(n, p, i) = At(m, p, i)
      /\ At(n, x, 0) = Nothing /\ At(n, x, 1) = w
  BY <1>1, <1>5, <1>7 DEF At, LaterValue, Ref
<1>10. /\ d \in Memories
       /\ \A p, i, o : Refers(d, <<>>, c, p, i, o) <=>
                         Refers(m, <<>>, c, p, i, o) /\ ~(p = x /\ i = 0)
  <2>1. c.var \in GoodValues /\ OnHeap(c.var) /\ c.var.n = x
    BY <1>1, RefIs DEF x
  <2> QED BY <1>1, <2>1, UnscheduleIs, UnscheduledPlaces
<1> HIDE DEF d
<1>11. \A o : /\ Refers(m, <<>>, c, x, 0, o) <=> w = Ref(o)
              /\ Refers(n, <<>>, NoCall, x, 1, o) <=> w = Ref(o)
  BY <1>1, <1>3, <1>5, <1>6, <1>9, AtRest DEF Refers
<1>12. \A p, i, o : Refers(d, <<>>, c, p, i, o) <=>
                      Refers(n, <<>>, NoCall, p, i, o) /\ ~(p = x /\ i = 1)
  BY <1>1, <1>5, <1>6, <1>9, <1>10, AtRest, NothingIsNumber DEF Refers
<1>13. ASSUME NEW o \in Ids
       PROVE  Cardinality(Referrers(n, <<>>, NoCall, o)) =
                Cardinality(Referrers(m, <<>>, c, o)) + Count(o, <<c.val>>)
  <2>1. Cardinality(Referrers(d, <<>>, c, o)) =
          Cardinality(Referrers(n, <<>>, NoCall, o)) -
            IF Refers(n, <<>>, NoCall, x, 1, o) THEN 1 ELSE 0
    BY <1>5, <1>10, <1>12, ReferrersButOne
  <2>2. Cardinality(Referrers(d, <<>>, c, o)) =
          Cardinality(Referrers(m, <<>>, c, o)) -
            IF Refers(m, <<>>, c, x, 0, o) THEN 1 ELSE 0
    BY <1>1, <1>10, ReferrersButOne
  <2>3. Count(o, <<c.val>>) = 0
    <3>1. c.val = Nothing
      BY DEF Good, CallOK
    <3> QED BY <3>1, NothingIsNumber, CountOne
  <2>4. /\ Cardinality(Referrers(n, <<>>, NoCall, o)) \in Nat
        /\ Cardinality(Referrers(m, <<>>, c, o)) \in Nat
    BY <1>1, <1>5, ReferrersFinite
  <2> QED BY <1>11, <2>1, <2>2, <2>3, <2>4
<1>14. \A p, q \in Ids : \A i \in Nat :
         Refers(n, <<>>, NoCall, p, i, q) => \E k \in Nat : Refers(m, <<>>, c, p, k, q)
  BY <1>10, <1>11, <1>12
<1>15. Good(n, h, l, <<>>, NoCall, Nothing)
  BY <1>5, <1>8, <1>13, <1>14, CallReturns
<1> QED BY <1>2, <1>15

-----------------------------------------------------------------------------
(***************************************************************************)
(* The calls that drop nothing.                                            *)
(***************************************************************************)
\* Some more places refer to object o: those of object a that values vs are in.
HasMore(m, n, o, a, vs) ==
  /\ \A p, i : Refers(n, <<>>, NoCall, p, i, o) <=>
                 \/ Refers(m, <<>>, NoCall, p, i, o)
                 \/ p = a /\ i \in DOMAIN vs /\ vs[i] = Ref(o)
  /\ \A i \in DOMAIN vs : ~Refers(m, <<>>, NoCall, a, i, o)

LEMMA MoreReferrers ==
  ASSUME NEW m \in Memories, NEW n \in Memories, NEW o, NEW a,
         NEW vs \in Seq(GoodValues), HasMore(m, n, o, a, vs)
  PROVE  Cardinality(Referrers(n, <<>>, NoCall, o)) =
           Cardinality(Referrers(m, <<>>, NoCall, o)) + Count(o, vs)
<1> DEFINE R == Referrers(m, <<>>, NoCall, o)
           T == Referrers(n, <<>>, NoCall, o)
           J == {i \in DOMAIN vs : vs[i] = Ref(o)}
           New == {a} \X J
<1>1. \A p, i : /\ <<p, i>> \in R <=> Refers(m, <<>>, NoCall, p, i, o)
                /\ <<p, i>> \in T <=> Refers(n, <<>>, NoCall, p, i, o)
  BY ReferrersAre
<1>2. \A s \in R \cup T : s = <<s[1], s[2]>>
  BY ReferrersAre
<1>3. IsFiniteSet(R) /\ Cardinality(R) \in Nat
  BY ReferrersFinite
<1>4. IsFiniteSet(J) /\ Cardinality(J) \in Nat /\ Cardinality(J) = Count(o, vs)
  BY CountFinite DEF Count
<1> HIDE DEF R, T
<1>5. T = R \cup New
  <2>1. \A p, i : <<p, i>> \in New <=> p = a /\ i \in DOMAIN vs /\ vs[i] = Ref(o)
    OBVIOUS
  <2>2. \A s \in New : s = <<s[1], s[2]>>
    OBVIOUS
  <2> HIDE DEF New
  <2> QED BY <1>1, <1>2, <2>1, <2>2 DEF HasMore
<1>6. R \cap New = {}
  BY <1>1 DEF HasMore
<1>7. IsFiniteSet(New) /\ Cardinality(New) = Cardinality(J)
  <2>1. IsFiniteSet({a}) /\ Cardinality({a}) = 1
    BY FS_Singleton
  <2> HIDE DEF J
  <2>2. IsFiniteSet(New) /\ Cardinality(New) = Cardinality({a}) * Cardinality(J)
    BY <1>4, <2>1, FS_Product
  <2> QED BY <1>4, <2>1, <2>2
<1> HIDE DEF J, New
<1>8. Cardinality(R \cup New) = Cardinality(R) + Cardinality(New) - Cardinality({})
  BY <1>3, <1>6, <1>7, FS_Union
<1>9. Cardinality(T) = Cardinality(R) + Count(o, vs)
  <2>1. Cardinality({}) = 0
    BY FS_EmptySet
  <2> QED BY ONLY <1>3, <1>4, <1>5, <1>7, <1>8, <2>1
<1> QED BY <1>9 DEF R, T

\* What is left to show of a call when the references balance.
LEMMA BalanceKeeps ==
  ASSUME NEW m, NEW h, NEW l, Good(m, h, l, <<>>, NoCall, Nothing),
         NEW n \in Memories, ~n.fault, Shapes(n), NEW k \in [Ids -> Nat],
         \A o \in Ids : k[o] + l[o] + Cardinality(Referrers(n, <<>>, NoCall, o)) =
                          IF o \in Allocated(n) THEN n.obj[o].count ELSE 0,
         \A o \in Allocated(n) : n.obj[o].count # 0,
         \E rank \in [Ids -> Nat] : Ranked(n, <<>>, NoCall, Nothing, rank)
  PROVE  Good(n, k, l, <<>>, NoCall, Nothing)
<1>1. Typed(n, k, l, <<>>, NoCall, Nothing)
  BY DEF Good, Typed
<1>2. FramesOK(n, <<>>) /\ Alive(n, <<>>)
  BY DEF FramesOK, Alive
<1>3. CallOK(n, <<>>, NoCall)
  BY DEF CallOK, NoCall
<1>4. Balanced(n, k, l, <<>>, NoCall, Nothing)
  <2>1. ASSUME NEW o \in Ids
        PROVE  Due(n, k, l, <<>>, NoCall, Nothing, o) =
                 k[o] + l[o] + Cardinality(Referrers(n, <<>>, NoCall, o))
    <3>1. Count(o, <<NoCall.val>>) = 0 /\ Count(o, <<Nothing>>) = 0
      BY NothingIsNumber, AtRest, CountOne
    <3>2. k[o] \in Nat /\ l[o] \in Nat /\ Cardinality(Referrers(n, <<>>, NoCall, o)) \in Nat
      BY <1>1, Summands
    <3> QED BY <3>1, <3>2 DEF Due
  <2> QED BY <2>1 DEF Balanced
<1> QED BY <1>1, <1>2, <1>3, <1>4 DEF Good

\* Between calls an object is counted by what is held, lost and in places.
LEMMA RestBalance ==
  ASSUME NEW m, NEW h, NEW l, Good(m, h, l, <<>>, NoCall, Nothing), NEW o \in Ids
  PROVE  /\ h[o] \in Nat /\ l[o] \in Nat
         /\ Cardinality(Referrers(m, <<>>, NoCall, o)) \in Nat
         /\ h[o] + l[o] + Cardinality(Referrers(m, <<>>, NoCall, o)) =
              IF o \in Allocated(m) THEN m.obj[o].count ELSE 0
         /\ o \in Allocated(m) => m.obj[o].count \in Nat \ {0}
<1>1. /\ Typed(m, h, l, <<>>, NoCall, Nothing) /\ Balanced(m, h, l, <<>>, NoCall, Nothing)
      /\ Alive(m, <<>>)
  BY DEF Good
<1>2. Count(o, <<NoCall.val>>) = 0 /\ Count(o, <<Nothing>>) = 0
  BY NothingIsNumber, AtRest, CountOne
<1>3. h[o] \in Nat /\ l[o] \in Nat /\ Cardinality(Referrers(m, <<>>, NoCall, o)) \in Nat
  BY <1>1, Summands
<1>4. h[o] + l[o] + Cardinality(Referrers(m, <<>>, NoCall, o)) =
        IF o \in Allocated(m) THEN m.obj[o].count ELSE 0
  BY <1>1, <1>2, <1>3 DEF Balanced, Due
<1>5. o \in Allocated(m) => m.obj[o].count # 0
  BY <1>1 DEF Alive
<1> QED BY <1>3, <1>4, <1>5

\* An address is free when there is room for an object.
LEMMA AddressIs ==
  ASSUME NEW m \in Memories, Cardinality(Allocated(m)) < MaxObjects
  PROVE  Address(m) \in Ids \ Allocated(m)
<1> DEFINE A == Allocated(m)
           N == Cardinality(A) + 1
           Rest == 1..N \ A
<1>1. IsFiniteSet(A) /\ Cardinality(A) \in Nat /\ A \subseteq Ids
  BY MemoryIs, FS_CardinalityType
<1>2. N \in 1..MaxObjects
  BY <1>1, RefCountAssumption
<1>3. Rest # {}
  <2> SUFFICES ASSUME 1..N \subseteq A PROVE FALSE
    OBVIOUS
  <2> HIDE DEF A
  <2>1. Cardinality(1..N) <= Cardinality(A)
    BY <1>1, FS_Subset
  <2>2. 1 \in Int /\ N \in Int /\ ~(1 > N)
    BY <1>1
  <2>3. Cardinality(1..N) = N - 1 + 1
    BY <2>2, FS_Interval
  <2> QED BY <1>1, <2>1, <2>3
<1> HIDE DEF A, N
<1>4. \E x \in Rest : \A y \in Rest : x <= y
  <2>1. Rest \in SUBSET Nat
    BY <1>2
  <2> HIDE DEF Rest
  <2> QED BY <1>3, <2>1, NatMin
<1>5. Address(m) = CHOOSE x \in Rest : \A y \in Rest : x <= y
  BY DEF Address, Min, A, N
<1> HIDE DEF Rest
<1>6. Address(m) \in Rest
  BY <1>4, <1>5
<1> QED BY <1>2, <1>6, RefCountAssumption DEF Rest, A, Ids

\* An object that nothing refers to may be ranked above any others.
LEMMA RankedAbove ==
  ASSUME NEW m, NEW rank \in [Ids -> Nat], Ranked(m, <<>>, NoCall, Nothing, rank),
         NEW x \in Ids, NEW top \in Nat,
         \A p, i : ~Refers(m, <<>>, NoCall, p, i, x)
  PROVE  LET above == [rank EXCEPT ![x] = @ + top]
         IN  /\ above \in [Ids -> Nat]
             /\ Ranked(m, <<>>, NoCall, Nothing, above)
             /\ above[x] >= top
             /\ \A o \in Ids : o # x => above[o] = rank[o]
<1> DEFINE above == [rank EXCEPT ![x] = @ + top]
<1>1. /\ above \in [Ids -> Nat] /\ above[x] = rank[x] + top
      /\ \A o \in Ids : o # x => above[o] = rank[o]
  OBVIOUS
<1> HIDE DEF above
<1>2. ASSUME NEW p \in Ids, NEW q \in Ids, NEW i \in Nat, Refers(m, <<>>, NoCall, p, i, q)
      PROVE  above[q] < above[p]
  <2>1. rank[q] < rank[p] /\ q # x
    BY <1>2 DEF Ranked
  <2>2. rank[p] \in Nat /\ rank[q] \in Nat /\ above[q] = rank[q]
    BY <1>1, <2>1
  <2>3. above[p] >= rank[p] /\ above[p] \in Nat
    <3>1. CASE p = x
      BY <1>1, <2>2, <3>1
    <3>2. CASE p # x
      BY <1>1, <2>2, <3>2
    <3> QED BY <3>1, <3>2
  <2> QED BY <2>1, <2>2, <2>3
<1>3. Ranked(m, <<>>, NoCall, Nothing, above)
  BY <1>2, AtRest, NothingIsNumber DEF Ranked
<1>4. above[x] >= top
  BY <1>1
<1> QED BY <1>1, <1>3, <1>4 DEF above

\* Values vs are duplicated, for references that are held from then on.
LEMMA DupsKeep ==
  ASSUME NEW m, NEW h, NEW l, Good(m, h, l, <<>>, NoCall, Nothing),
         NEW vs \in Seq(GoodValues),
         Known(m, vs),
         \A o \in Ids : Plus(h, vs)[o] + l[o]
                          + Cardinality(Referrers(Dups(m, vs), <<>>, NoCall, o)) <= MaxRefs
  PROVE  Good(Dups(m, vs), Plus(h, vs), l, <<>>, NoCall, Nothing)
<1> DEFINE n == Dups(m, vs)
           k == Plus(h, vs)
<1>1. m \in Memories /\ ~m.fault /\ Shapes(m) /\ h \in [Ids -> Nat]
  BY DEF Good, Typed
<1>2. PICK rank \in [Ids -> Nat] : Ranked(m, <<>>, NoCall, Nothing, rank)
  BY DEF Good
<1>3. SameContents(m, n)
  BY <1>1, DupsIs
<1>4. /\ \A p, i, o : Refers(n, <<>>, NoCall, p, i, o) <=> Refers(m, <<>>, NoCall, p, i, o)
      /\ \A p \in Allocated(m) : Pending(n, Ref(p)) <=> Pending(m, Ref(p))
  BY <1>3, SamePlaces
<1>5. \A o : Referrers(n, <<>>, NoCall, o) = Referrers(m, <<>>, NoCall, o)
  BY <1>4, SameReferrers
<1>6. k \in [Ids -> Nat] /\ \A o \in Ids : Count(o, vs) \in Nat /\ k[o] = h[o] + Count(o, vs)
  <2>1. \A o : Count(o, vs) \in Nat
    BY CountFinite
  <2> QED BY <1>1, <2>1 DEF Plus
<1>7. \A o \in Allocated(m) : o \in Ids
  BY <1>1, MemoryIs
<1> HIDE DEF n, k
<1>8. ASSUME NEW o \in Ids
      PROVE  /\ k[o] + l[o] + Cardinality(Referrers(n, <<>>, NoCall, o)) =
                  (IF o \in Allocated(m) THEN m.obj[o].count ELSE 0) + Count(o, vs)
             /\ o \in Allocated(m) => /\ m.obj[o].count \in Nat \ {0}
                                      /\ m.obj[o].count + Count(o, vs) < 2^CountBits
  <2> DEFINE x == IF o \in Allocated(m) THEN m.obj[o].count ELSE 0
             y == Count(o, vs)
             d == Cardinality(Referrers(m, <<>>, NoCall, o))
  <2>1. h[o] \in Nat /\ l[o] \in Nat /\ d \in Nat /\ y \in Nat /\ h[o] + l[o] + d = x
    BY <1>6, RestBalance
  <2>2. k[o] = h[o] + y /\ Cardinality(Referrers(n, <<>>, NoCall, o)) = d
    BY <1>5, <1>6
  <2>3. k[o] + l[o] + Cardinality(Referrers(n, <<>>, NoCall, o)) <= MaxRefs
    BY DEF n, k
  <2> HIDE DEF x, y, d
  <2>4. k[o] + l[o] + Cardinality(Referrers(n, <<>>, NoCall, o)) = x + y /\ x + y <= MaxRefs
    BY <2>1, <2>2, <2>3
  <2>5. x + y < 2^CountBits
    BY <2>1, <2>4, CountLimit
  <2>6. o \in Allocated(m) => m.obj[o].count \in Nat \ {0}
    BY RestBalance
  <2> QED BY <2>4, <2>5, <2>6 DEF x, y
<1>9. /\ n \in Memories
      /\ \A o \in Allocated(m) : n.obj[o].count = m.obj[o].count + Count(o, vs)
  BY <1>1, <1>7, <1>8, DupsIs DEF n
<1>10. Allocated(n) = Allocated(m) /\ ~n.fault
  BY <1>1, <1>3 DEF SameContents
<1>11. Shapes(n)
  BY <1>1, <1>3, <1>4, <1>10 DEF Shapes, SameContents
<1>12. \A o \in Ids : k[o] + l[o] + Cardinality(Referrers(n, <<>>, NoCall, o)) =
                        IF o \in Allocated(n) THEN n.obj[o].count ELSE 0
  <2> SUFFICES ASSUME NEW o \in Ids, o \notin Allocated(m) PROVE Count(o, vs) = 0
    BY <1>8, <1>9, <1>10
  <2>1. \A i \in DOMAIN vs : vs[i] \in GoodValues
    OBVIOUS
  <2>2. \A i \in DOMAIN vs : vs[i] # Ref(o)
    BY <2>1, RefIs DEF Known
  <2> QED BY <2>2, FS_EmptySet DEF Count
<1>13. \A o \in Allocated(n) : n.obj[o].count # 0
  BY <1>6, <1>7, <1>8, <1>9, <1>10
<1>14. Ranked(n, <<>>, NoCall, Nothing, rank)
  BY <1>2, <1>4 DEF Ranked
<1>15. Good(n, k, l, <<>>, NoCall, Nothing)
  BY <1>6, <1>9, <1>10, <1>11, <1>12, <1>13, <1>14, BalanceKeeps
<1> QED BY <1>15 DEF n, k

\* Memory n has the objects of m, and others, with counts of its own.
Extended(m, n) ==
  \A p \in Allocated(m) :
    /\ n.obj[p].kind = m.obj[p].kind /\ n.obj[p].vals = m.obj[p].vals
    /\ n.obj[p].later_time = m.obj[p].later_time
    /\ n.obj[p].later_value = m.obj[p].later_value

\* Of the objects of m, those that dups refer to count more in n.
Duplicated(m, n, dups) ==
  /\ Extended(m, n)
  /\ \A p \in Allocated(m) : n.obj[p].count = m.obj[p].count + Count(p, dups)

\* What is held changes by what is duplicated, object a, and what goes to vs.
Owed(h, k, vs, dups, a) ==
  \A o \in Ids : k[o] + Count(o, vs) = h[o] + Count(o, dups) + IF o = a THEN 1 ELSE 0

\* An object can be ranked above what values vs refer to.
Bounded(m, vs) ==
  \A rank \in [Ids -> Nat] : Ranked(m, <<>>, NoCall, Nothing, rank) =>
    \E top \in Nat : \A i \in DOMAIN vs : OnHeap(vs[i]) => rank[vs[i].n] < top

\* Memory n has one more object, a, with values vs.
Adds(m, n, a, vs) ==
  /\ a \notin Allocated(m) /\ Allocated(n) = Allocated(m) \cup {a}
  /\ n.obj[a].vals = vs /\ ~Pending(n, Ref(a))
  /\ Extended(m, n)

\* A new object a with values vs refers to what they refer to.
LEMMA NewReferrers ==
  ASSUME NEW m \in Memories, NEW n \in Memories, NEW a \in Ids,
         NEW vs \in Seq(GoodValues), Adds(m, n, a, vs)
  PROVE  /\ \A p, i, o : Refers(n, <<>>, NoCall, p, i, o) <=>
                           \/ Refers(m, <<>>, NoCall, p, i, o)
                           \/ p = a /\ i \in DOMAIN vs /\ vs[i] = Ref(o)
         /\ \A p \in Allocated(m) : Pending(n, Ref(p)) <=> Pending(m, Ref(p))
         /\ \A o : Cardinality(Referrers(n, <<>>, NoCall, o)) =
                      Cardinality(Referrers(m, <<>>, NoCall, o)) + Count(o, vs)
<1>3. /\ a \notin Allocated(m) /\ Allocated(n) = Allocated(m) \cup {a}
      /\ n.obj[a].vals = vs /\ ~Pending(n, Ref(a)) /\ Extended(m, n)
  BY DEF Adds
<1>4. /\ \A p \in Allocated(m) : p \in Ids /\ p # a
      /\ Len(vs) \in Nat /\ DOMAIN vs = 1..Len(vs)
  BY <1>3, MemoryIs
<1>5. \A p \in Allocated(m) : /\ Places(n, p) = Places(m, p)
                              /\ \A i : At(n, p, i) = At(m, p, i)
                              /\ Pending(n, Ref(p)) <=> Pending(m, Ref(p))
  BY <1>3 DEF Extended, Places, At, Pending, LaterValue, Ref
<1>6. /\ \A i : i \in Places(n, a) <=> i = 0 \/ i \in DOMAIN vs
      /\ At(n, a, 0) = Nothing /\ \A i \in DOMAIN vs : At(n, a, i) = vs[i]
      /\ 0 \notin DOMAIN vs
  BY <1>3, <1>4 DEF Places, At
<1>7. \A p, i, o : Refers(n, <<>>, NoCall, p, i, o) <=>
                     \/ Refers(m, <<>>, NoCall, p, i, o)
                     \/ p = a /\ i \in DOMAIN vs /\ vs[i] = Ref(o)
  BY <1>3, <1>4, <1>5, <1>6, AtRest, NothingIsNumber DEF Refers
<1>8. \A i, o : ~Refers(m, <<>>, NoCall, a, i, o)
  BY <1>3 DEF Refers
<1>9. \A o : Cardinality(Referrers(n, <<>>, NoCall, o)) =
                Cardinality(Referrers(m, <<>>, NoCall, o)) + Count(o, vs)
  <2> SUFFICES ASSUME NEW o
               PROVE  Cardinality(Referrers(n, <<>>, NoCall, o)) =
                        Cardinality(Referrers(m, <<>>, NoCall, o)) + Count(o, vs)
    OBVIOUS
  <2>1. HasMore(m, n, o, a, vs)
    BY <1>7, <1>8 DEF HasMore
  <2> QED BY <2>1, MoreReferrers
<1> QED BY <1>5, <1>7, <1>9

\* A new object a with values vs, for which dups have been duplicated.
LEMMA NewKeeps ==
  ASSUME NEW m, NEW h, NEW l, Good(m, h, l, <<>>, NoCall, Nothing),
         NEW n \in Memories, ~n.fault, NEW k \in [Ids -> Nat],
         NEW a \in Ids, a \notin Allocated(m), Allocated(n) = Allocated(m) \cup {a},
         NEW dups \in Seq(GoodValues), NEW vs \in Seq(GoodValues),
         n.obj[a].vals = vs, n.obj[a].count = 1, ~Pending(n, Ref(a)),
         n.obj[a].kind = "sv" => Len(vs) = 1,
         Known(m, vs), Known(m, dups), Duplicated(m, n, dups), Owed(h, k, vs, dups, a),
         Bounded(m, vs)
  PROVE  Good(n, k, l, <<>>, NoCall, Nothing)
<1>1. m \in Memories /\ Shapes(m) /\ h \in [Ids -> Nat] /\ l \in [Ids -> Nat]
  BY DEF Good, Typed
<1>2. PICK rank \in [Ids -> Nat] : Ranked(m, <<>>, NoCall, Nothing, rank)
  BY DEF Good
<1>3. PICK top \in Nat : \A i \in DOMAIN vs : OnHeap(vs[i]) => rank[vs[i].n] < top
  BY <1>2 DEF Bounded
<1>4. /\ \A p \in Allocated(m) : p \in Ids /\ p # a
      /\ \A v \in GoodValues : OnHeap(v) => v.n \in Ids /\ v = Ref(v.n)
      /\ Len(vs) \in Nat /\ DOMAIN vs = 1..Len(vs)
      /\ \A i \in DOMAIN vs : vs[i] \in GoodValues
  BY <1>1, MemoryIs, RefIs
<1>5. Extended(m, n)
  BY DEF Duplicated
<1>7. /\ \A p, i, o : Refers(n, <<>>, NoCall, p, i, o) <=>
                        \/ Refers(m, <<>>, NoCall, p, i, o)
                        \/ p = a /\ i \in DOMAIN vs /\ vs[i] = Ref(o)
      /\ \A p \in Allocated(m) : Pending(n, Ref(p)) <=> Pending(m, Ref(p))
      /\ \A o : Cardinality(Referrers(n, <<>>, NoCall, o)) =
                    Cardinality(Referrers(m, <<>>, NoCall, o)) + Count(o, vs)
  <2>1. Adds(m, n, a, vs)
    BY <1>5 DEF Adds
  <2> QED BY <1>1, <2>1, NewReferrers
<1>9. ASSUME NEW o \in Ids
      PROVE  /\ Cardinality(Referrers(n, <<>>, NoCall, o)) =
                  Cardinality(Referrers(m, <<>>, NoCall, o)) + Count(o, vs)
             /\ Count(o, vs) \in Nat /\ Count(o, dups) \in Nat
             /\ o \notin Allocated(m) => Count(o, dups) = 0
  <2>1. Cardinality(Referrers(n, <<>>, NoCall, o)) =
          Cardinality(Referrers(m, <<>>, NoCall, o)) + Count(o, vs)
    BY <1>7
  <2>2. Count(o, vs) \in Nat /\ Count(o, dups) \in Nat
    BY CountFinite
  <2>3. ASSUME o \notin Allocated(m) PROVE Count(o, dups) = 0
    <3>1. \A i \in DOMAIN dups : dups[i] \in GoodValues
      OBVIOUS
    <3>2. \A i \in DOMAIN dups : dups[i] # Ref(o)
      BY <2>3, <3>1, RefIs DEF Known
    <3> QED BY <3>2, FS_EmptySet DEF Count
  <2> QED BY <2>1, <2>2, <2>3
<1>10. Shapes(n)
  BY <1>1, <1>5, <1>7 DEF Shapes, Extended
<1>11. ASSUME NEW o \in Ids
       PROVE  k[o] + l[o] + Cardinality(Referrers(n, <<>>, NoCall, o)) =
                IF o \in Allocated(n) THEN n.obj[o].count ELSE 0
  <2> DEFINE x == IF o \in Allocated(m) THEN m.obj[o].count ELSE 0
             d == Cardinality(Referrers(m, <<>>, NoCall, o))
             e == IF o = a THEN 1 ELSE 0
  <2>1. h[o] \in Nat /\ l[o] \in Nat /\ d \in Nat /\ h[o] + l[o] + d = x
    BY RestBalance
  <2>2. /\ k[o] \in Nat /\ k[o] + Count(o, vs) = h[o] + Count(o, dups) + e
        /\ Cardinality(Referrers(n, <<>>, NoCall, o)) = d + Count(o, vs)
        /\ Count(o, vs) \in Nat /\ Count(o, dups) \in Nat
    BY <1>9 DEF Owed
  <2>3. (IF o \in Allocated(n) THEN n.obj[o].count ELSE 0) = x + Count(o, dups) + e
    <3>1. CASE o = a
      <4>1. o \in Allocated(n) /\ n.obj[o].count = 1 /\ o \notin Allocated(m)
        BY <3>1
      <4>2. Count(o, dups) = 0 /\ x = 0 /\ e = 1
        BY <1>9, <3>1, <4>1
      <4> HIDE DEF x, e
      <4> QED BY <4>1, <4>2
    <3>2. CASE o \in Allocated(m)
      <4>1. m.obj[o].count \in Nat
        BY RestBalance, <3>2
      <4> QED BY <1>4, <2>2, <3>2, <4>1 DEF Duplicated
    <3>3. CASE o # a /\ o \notin Allocated(m)
      BY <1>9, <3>3
    <3> QED BY <3>1, <3>2, <3>3
  <2>4. e \in Nat /\ x \in Nat
    BY <2>1
  <2>5. k[o] \in Nat
    BY <2>2
  <2> DEFINE right == IF o \in Allocated(n) THEN n.obj[o].count ELSE 0
             left == Cardinality(Referrers(n, <<>>, NoCall, o))
             y == Count(o, vs)
             z == Count(o, dups)
             ko == k[o]
             ho == h[o]
             lo == l[o]
  <2>6. /\ ko \in Nat /\ ho \in Nat /\ lo \in Nat /\ d \in Nat /\ x \in Nat /\ e \in Nat
        /\ y \in Nat /\ z \in Nat
        /\ ho + lo + d = x /\ ko + y = ho + z + e /\ left = d + y /\ right = x + z + e
    BY <2>1, <2>2, <2>3, <2>4, <2>5
  <2> HIDE DEF x, d, e, right, left, y, z, ko, ho, lo
  <2>7. ko + lo + left = right
    BY ONLY <2>6
  <2> QED BY <2>7 DEF right, left, ko, lo
<1>12. \A o \in Allocated(n) : n.obj[o].count # 0
  <2>1. ASSUME NEW o \in Allocated(m) PROVE n.obj[o].count # 0
    <3>1. o \in Ids /\ m.obj[o].count \in Nat \ {0}
      BY <1>4, RestBalance
    <3>2. Count(o, dups) \in Nat
      BY <1>9, <3>1
    <3> QED BY <3>1, <3>2 DEF Duplicated
  <2> QED BY <2>1
<1>13. \A p, i : ~Refers(m, <<>>, NoCall, p, i, a)
  <2> SUFFICES ASSUME NEW p, NEW i, Refers(m, <<>>, NoCall, p, i, a) PROVE FALSE
    OBVIOUS
  <2> QED BY Present DEF Good
<1>14. PICK above \in [Ids -> Nat] :
         /\ Ranked(m, <<>>, NoCall, Nothing, above)
         /\ above[a] >= top
         /\ \A o \in Ids : o # a => above[o] = rank[o]
  <2> DEFINE new == [rank EXCEPT ![a] = @ + top]
  <2>1. /\ new \in [Ids -> Nat] /\ Ranked(m, <<>>, NoCall, Nothing, new)
        /\ new[a] >= top /\ \A o \in Ids : o # a => new[o] = rank[o]
    BY <1>2, <1>13, RankedAbove
  <2> HIDE DEF new
  <2> QED BY <2>1
<1>15. Ranked(n, <<>>, NoCall, Nothing, above)
  <2>1. ASSUME NEW i \in DOMAIN vs, NEW q \in Ids, vs[i] = Ref(q)
        PROVE  above[q] < above[a]
    <3>1. OnHeap(vs[i]) /\ vs[i].n = q
      BY <2>1 DEF OnHeap, Ref
    <3>2. rank[q] < top /\ q # a
      BY <1>3, <1>4, <3>1 DEF Known
    <3>3. above[q] = rank[q] /\ rank[q] \in Nat /\ above[a] \in Nat
      BY <1>14, <3>2
    <3> QED BY <1>14, <3>2, <3>3
  <2>2. \A p, q \in Ids : \A i \in Nat : Refers(n, <<>>, NoCall, p, i, q) => above[q] < above[p]
    <3> SUFFICES ASSUME NEW p \in Ids, NEW q \in Ids, NEW i \in Nat,
                        Refers(n, <<>>, NoCall, p, i, q)
                 PROVE  above[q] < above[p]
      OBVIOUS
    <3>1. CASE Refers(m, <<>>, NoCall, p, i, q)
      BY <1>14, <3>1 DEF Ranked
    <3>2. CASE p = a /\ i \in DOMAIN vs /\ vs[i] = Ref(q)
      BY <2>1, <3>2
    <3> QED BY <1>7, <3>1, <3>2
  <2> QED BY <2>2, AtRest, NothingIsNumber DEF Ranked
<1> QED BY <1>10, <1>11, <1>12, <1>15, BalanceKeeps

LEMMA AllocIs ==
  ASSUME NEW m \in Memories, NEW object \in GoodObjects, NEW a \in Ids, a = Address(m),
         a \notin Allocated(m)
  PROVE  /\ Alloc(m, object) \in Memories
         /\ Alloc(m, object).fault = m.fault
         /\ Allocated(Alloc(m, object)) = Allocated(m) \cup {a}
         /\ Alloc(m, object).obj[a] = object
         /\ \A p \in Allocated(m) : Alloc(m, object).obj[p] = m.obj[p]
<1> DEFINE S == Allocated(m) \cup {a}
           g == [o \in S |-> IF o = a THEN object ELSE m.obj[o]]
           n == [m EXCEPT !.obj = g]
<1>1. /\ m.obj \in [Allocated(m) -> GoodObjects] /\ Allocated(m) \subseteq Ids
      /\ m = [obj |-> m.obj, fault |-> m.fault] /\ m.fault \in BOOLEAN
  BY MemoryIs DEF Memories
<1>2. g \in [S -> GoodObjects] /\ DOMAIN g = S
  BY <1>1
<1>3. g[a] = object /\ \A p \in Allocated(m) : g[p] = m.obj[p]
  BY <1>1
<1>4. Alloc(m, object) = n
  BY DEF Alloc
<1>5. S \in SUBSET Ids
  BY <1>1
<1> HIDE DEF g, S
<1>6. n.obj = g /\ n.fault = m.fault /\ n = [obj |-> g, fault |-> m.fault]
  BY <1>1
<1>7. n \in Memories
  BY <1>1, <1>2, <1>5, <1>6 DEF Memories
<1> HIDE DEF n
<1> QED BY <1>2, <1>3, <1>4, <1>6, <1>7 DEF S, Allocated

\* A constructor that takes over at most one value.
LEMMA CreateKeeps ==
  ASSUME NEW m, NEW h, NEW l, Good(m, h, l, <<>>, NoCall, Nothing),
         Cardinality(Allocated(m)) < MaxObjects,
         NEW object \in GoodObjects, object.count = 1, object.later_time = Never,
         object.kind = "sv" => Len(object.vals) = 1,
         NEW v \in GoodValues, object.vals \in {<<>>, <<v>>},
         \A o \in Ids : h[o] >= Count(o, object.vals)
  PROVE  Good(Alloc(m, object), Plus(Minus(h, object.vals), <<Ref(Address(m))>>), l,
              <<>>, NoCall, Nothing)
<1> DEFINE a == Address(m)
           vs == object.vals
           n == Alloc(m, object)
           k == Plus(Minus(h, vs), <<Ref(a)>>)
           none == <<>>
<1>1. /\ m \in Memories /\ ~m.fault /\ h \in [Ids -> Nat]
      /\ Typed(m, h, l, <<>>, NoCall, Nothing) /\ Balanced(m, h, l, <<>>, NoCall, Nothing)
  BY DEF Good, Typed
<1>2. a \in Ids /\ a \notin Allocated(m)
  BY <1>1, AddressIs
<1> HIDE DEF a
<1>3. /\ n \in Memories /\ n.fault = m.fault /\ Allocated(n) = Allocated(m) \cup {a}
      /\ n.obj[a] = object /\ \A p \in Allocated(m) : n.obj[p] = m.obj[p]
  BY <1>1, <1>2, AllocIs DEF a
<1>4. vs \in Seq(GoodValues) /\ none \in Seq(GoodValues)
  <2>1. none \in Seq(GoodValues)
    OBVIOUS
  <2>2. vs \in Seq(GoodValues)
    BY DEF GoodObjects
  <2> QED BY <2>1, <2>2
<1>5. \A o \in Ids : /\ Count(o, vs) \in Nat /\ h[o] \in Nat
                     /\ k[o] = h[o] - Count(o, vs) + IF o = a THEN 1 ELSE 0
                     /\ Count(o, none) = 0
  <2> SUFFICES ASSUME NEW o \in Ids
               PROVE  /\ Count(o, vs) \in Nat /\ h[o] \in Nat
                      /\ k[o] = h[o] - Count(o, vs) + IF o = a THEN 1 ELSE 0
                      /\ Count(o, none) = 0
    OBVIOUS
  <2>1. Count(o, vs) \in Nat
    BY <1>4, CountFinite
  <2>2. Ref(a) = Ref(o) <=> a = o
    BY DEF Ref
  <2>3. Count(o, <<Ref(a)>>) = IF o = a THEN 1 ELSE 0
    BY <2>2, CountOne
  <2>4. k[o] = (h[o] - Count(o, vs)) + Count(o, <<Ref(a)>>)
    BY DEF Plus, Minus
  <2> QED BY <1>1, <2>1, <2>3, <2>4, CountNone
<1>6. k \in [Ids -> Nat]
  <2>1. \A o \in Ids : k[o] \in Nat
    <3> SUFFICES ASSUME NEW o \in Ids PROVE k[o] \in Nat
      OBVIOUS
    <3> DEFINE x == h[o]
               y == Count(o, vs)
               e == IF o = a THEN 1 ELSE 0
    <3>1. x \in Nat /\ y \in Nat /\ x >= y /\ e \in Nat /\ k[o] = x - y + e
      BY <1>5
    <3> HIDE DEF x, y, e, k
    <3> QED BY <3>1
  <2> QED BY <2>1 DEF Plus
<1>7. ASSUME NEW i \in DOMAIN vs
      PROVE  vs[i] = v /\ (OnHeap(v) => v.n \in Allocated(m))
  <2>1. vs = <<v>> /\ i = 1
    OBVIOUS
  <2>2. ASSUME OnHeap(v) PROVE v.n \in Allocated(m)
    <3>1. v.n \in Ids /\ v = Ref(v.n)
      BY <2>2, RefIs
    <3>2. Count(v.n, vs) = 1
      BY <2>1, <3>1, CountOne
    <3>3. h[v.n] > 0
      BY <1>5, <3>1, <3>2
    <3> QED BY <1>1, <3>1, <3>3, Present
  <2> QED BY <2>1, <2>2
<1> HIDE DEF n, k, vs, none
<1>8. /\ n.obj[a].vals = vs /\ n.obj[a].count = 1 /\ ~Pending(n, Ref(a))
      /\ n.obj[a].kind = "sv" => Len(vs) = 1
  BY <1>3 DEF vs, Pending, Ref
<1>9. Owed(h, k, vs, none, a)
  <2> SUFFICES ASSUME NEW o \in Ids
               PROVE  k[o] + Count(o, vs) = h[o] + Count(o, none) + IF o = a THEN 1 ELSE 0
    BY DEF Owed
  <2> DEFINE x == h[o]
             y == Count(o, vs)
             e == IF o = a THEN 1 ELSE 0
             z == Count(o, none)
             ko == k[o]
  <2>1. x \in Nat /\ y \in Nat /\ e \in Nat /\ ko = x - y + e /\ z = 0
    BY <1>5
  <2> HIDE DEF x, y, e, z, ko
  <2>2. ko + y = x + z + e
    BY ONLY <2>1
  <2> QED BY <2>2 DEF x, y, e, z, ko
<1>10. Bounded(m, vs)
  <2> SUFFICES ASSUME NEW rank \in [Ids -> Nat]
               PROVE  \E top \in Nat : \A i \in DOMAIN vs : OnHeap(vs[i]) => rank[vs[i].n] < top
    BY DEF Bounded
  <2>1. CASE OnHeap(v)
    <3>1. v.n \in Ids
      BY <2>1, RefIs
    <3>2. rank[v.n] + 1 \in Nat /\ rank[v.n] < rank[v.n] + 1
      BY <3>1
    <3>3. \A i \in DOMAIN vs : OnHeap(vs[i]) => rank[vs[i].n] < rank[v.n] + 1
      BY <1>7, <3>2
    <3> QED BY <3>2, <3>3
  <2>2. CASE ~OnHeap(v)
    <3> WITNESS 0 \in Nat
    <3> QED BY <1>7, <2>2
  <2> QED BY <2>1, <2>2
<1>11. Known(m, vs) /\ Known(m, none)
  BY <1>7 DEF none, Known
<1>12. Duplicated(m, n, none)
  <2> SUFFICES ASSUME NEW p \in Allocated(m) PROVE n.obj[p].count = m.obj[p].count + Count(p, none)
    BY <1>3 DEF Duplicated, Extended
  <2>1. p \in Ids
    BY <1>1, MemoryIs
  <2>2. m.obj[p].count \in Nat
    BY <2>1, RestBalance
  <2> QED BY <1>3, <1>5, <2>1, <2>2
<1>13. Good(n, k, l, <<>>, NoCall, Nothing)
  <2>1. ~n.fault
    BY <1>1, <1>3
  <2> QED BY <1>1, <1>2, <1>3, <1>4, <1>6, <1>8, <1>9, <1>10, <1>11, <1>12, <2>1, NewKeeps
<1> QED BY <1>13 DEF n, k, vs, a

LEMMA ObjectIs ==
  ASSUME NEW kind \in {"time", "blob", "adt", "sv", "closure"}, NEW vs \in Seq(GoodValues)
  PROVE  LET object == Object(kind, vs)
         IN  /\ object \in GoodObjects /\ object.kind = kind /\ object.vals = vs
             /\ object.count = 1 /\ object.later_time = Never
<1>1. 1 \in 0..(2^CountBits - 1)
  <2> DEFINE n == 2^CountBits
  <2> HIDE DEF n
  <2>1. n \in Nat /\ MaxRefs \in Nat /\ MaxRefs + 1 < n
    BY CountLimit DEF n
  <2>2. 1 \in 0..(n - 1)
    BY <2>1
  <2> QED BY <2>2 DEF n
<1>2. Marshal(0) \in GoodValues
  BY NothingIsNumber DEF Nothing
<1> DEFINE object == Object(kind, vs)
<1>3. object = [kind |-> kind, count |-> 1, vals |-> vs, tag |-> 0, f |-> "", cap |-> 0,
                later_time |-> Never, later_value |-> Marshal(0), last_updated |-> Never,
                triggers |-> {}]
  BY DEF Object
<1> HIDE DEF object
<1>4. object \in GoodObjects
  BY <1>1, <1>2, <1>3 DEF GoodObjects
<1>5. /\ object.kind = kind /\ object.vals = vs /\ object.count = 1
      /\ object.later_time = Never
  BY <1>3
<1> QED BY <1>4, <1>5 DEF object

\* A closure of which no argument is given, and an ADT object.
Empty(f, cap) == [Object("closure", <<>>) EXCEPT !.f = f, !.cap = cap]
Tagged(v)     == [Object("adt", <<v>>) EXCEPT !.tag = 0]

LEMMA ClosureIs ==
  ASSUME NEW f \in {"", "f"}, NEW cap \in Nat
  PROVE  /\ Empty(f, cap) \in GoodObjects /\ Empty(f, cap).kind = "closure"
         /\ Empty(f, cap).vals = <<>> /\ Empty(f, cap).count = 1
         /\ Empty(f, cap).later_time = Never
<1> DEFINE none == <<>>
           object == Object("closure", none)
           closure == [object EXCEPT !.f = f, !.cap = cap]
<1>1. none \in Seq(GoodValues)
  BY EmptySeq
<1> HIDE DEF none
<1>2. /\ object \in GoodObjects /\ object.kind = "closure" /\ object.vals = none
      /\ object.count = 1 /\ object.later_time = Never
  BY <1>1, ObjectIs
<1> HIDE DEF object
<1>3. /\ closure \in GoodObjects /\ closure.kind = "closure" /\ closure.vals = none
      /\ closure.count = 1 /\ closure.later_time = Never
  BY <1>2 DEF GoodObjects
<1>4. Empty(f, cap) = closure
  BY DEF Empty, object, none
<1> HIDE DEF closure
<1> QED BY <1>3, <1>4 DEF none

LEMMA TaggedIs ==
  ASSUME NEW v \in GoodValues
  PROVE  /\ Tagged(v) \in GoodObjects /\ Tagged(v).kind = "adt"
         /\ Tagged(v).vals = <<v>> /\ Tagged(v).count = 1
         /\ Tagged(v).later_time = Never
<1> DEFINE one == <<v>>
           object == Object("adt", one)
           adt == [object EXCEPT !.tag = 0]
<1>1. one \in Seq(GoodValues)
  OBVIOUS
<1> HIDE DEF one
<1>2. /\ object \in GoodObjects /\ object.kind = "adt" /\ object.vals = one
      /\ object.count = 1 /\ object.later_time = Never
  BY <1>1, ObjectIs
<1> HIDE DEF object
<1>3. /\ adt \in GoodObjects /\ adt.kind = "adt" /\ adt.vals = one
      /\ adt.count = 1 /\ adt.later_time = Never
  BY <1>2 DEF GoodObjects
<1>4. Tagged(v) = adt
  BY DEF Tagged, object, one
<1> HIDE DEF adt
<1> QED BY <1>3, <1>4 DEF one

-----------------------------------------------------------------------------
(***************************************************************************)
(* Closures.                                                               *)
(***************************************************************************)
\* The values of an object change.
LEMMA ValsIs ==
  ASSUME NEW m \in Memories, NEW a \in Allocated(m), NEW vs \in Seq(GoodValues)
  PROVE  LET n == [m EXCEPT !.obj[a].vals = vs]
         IN  /\ n \in Memories /\ Allocated(n) = Allocated(m) /\ n.fault = m.fault
             /\ n.obj[a].vals = vs /\ n.obj[a].count = m.obj[a].count
             /\ n.obj[a].kind = m.obj[a].kind
             /\ n.obj[a].later_time = m.obj[a].later_time
             /\ n.obj[a].later_value = m.obj[a].later_value
             /\ \A p \in Allocated(m) : p # a => n.obj[p] = m.obj[p]
<1> DEFINE n == [m EXCEPT !.obj[a].vals = vs]
           e == [m.obj[a] EXCEPT !.vals = vs]
<1>1. PICK S \in SUBSET Ids : m.obj \in [S -> GoodObjects] /\ S = Allocated(m)
  BY DEF Memories, Allocated
<1>2. m.obj[a] \in GoodObjects
  BY <1>1
<1>3. /\ e \in GoodObjects /\ e.vals = vs /\ e.kind = m.obj[a].kind
      /\ e.count = m.obj[a].count /\ e.later_value = m.obj[a].later_value
      /\ e.later_time = m.obj[a].later_time
  BY <1>2, ObjectWith
<1>4. n.obj = [m.obj EXCEPT ![a] = e] /\ n = [m EXCEPT !.obj = n.obj] /\ n.fault = m.fault
  BY <1>1 DEF Memories
<1> HIDE DEF n, e
<1>5. n.obj \in [S -> GoodObjects]
  BY <1>1, <1>3, <1>4
<1>6. n \in Memories
  BY <1>4, <1>5 DEF Memories
<1>7. \A p \in S : n.obj[p] = IF p = a THEN e ELSE m.obj[p]
  BY <1>1, <1>4
<1> QED BY <1>1, <1>3, <1>4, <1>5, <1>6, <1>7 DEF Allocated, n

LEMMA PushIs ==
  ASSUME NEW m \in Memories, NEW v, v.n \in Allocated(m), NEW arg \in GoodValues
  PROVE  LET n == Push(m, v, arg)
         IN  /\ n \in Memories /\ Allocated(n) = Allocated(m) /\ n.fault = m.fault
             /\ m.obj[v.n].vals \in Seq(GoodValues)
             /\ n.obj[v.n].vals = Append(m.obj[v.n].vals, arg)
             /\ n.obj[v.n].count = m.obj[v.n].count
             /\ n.obj[v.n].kind = m.obj[v.n].kind
             /\ n.obj[v.n].later_time = m.obj[v.n].later_time
             /\ n.obj[v.n].later_value = m.obj[v.n].later_value
             /\ \A p \in Allocated(m) : p # v.n => n.obj[p] = m.obj[p]
<1> DEFINE vs == m.obj[v.n].vals
           more == Append(vs, arg)
<1>1. m.obj[v.n] \in GoodObjects
  BY MemoryIs
<1>2. vs \in Seq(GoodValues)
  BY <1>1 DEF GoodObjects
<1>3. more \in Seq(GoodValues)
  BY <1>2
<1>4. Push(m, v, arg) = [m EXCEPT !.obj[v.n].vals = more]
  BY DEF Push
<1> HIDE DEF more
<1>5. LET n == [m EXCEPT !.obj[v.n].vals = more]
      IN  /\ n \in Memories /\ Allocated(n) = Allocated(m) /\ n.fault = m.fault
          /\ n.obj[v.n].vals = more /\ n.obj[v.n].count = m.obj[v.n].count
          /\ n.obj[v.n].kind = m.obj[v.n].kind
          /\ n.obj[v.n].later_time = m.obj[v.n].later_time
          /\ n.obj[v.n].later_value = m.obj[v.n].later_value
          /\ \A p \in Allocated(m) : p # v.n => n.obj[p] = m.obj[p]
  BY <1>3, ValsIs
<1> DEFINE x == [m EXCEPT !.obj[v.n].vals = more]
<1>6. Push(m, v, arg) = x
  BY <1>4
<1> HIDE DEF x
<1> QED BY <1>2, <1>5, <1>6 DEF more, x

\* What ssm_closure_apply returns when arguments are left to come.
Applied(m, c, arg) == Push(Clone(m, c), Ref(Address(m)), arg)

LEMMA AppliedIs ==
  ASSUME NEW m \in Memories, Cardinality(Allocated(m)) < MaxObjects,
         NEW c, c.n \in Allocated(m), Known(m, Args(m, c)), NEW arg \in GoodValues
  PROVE  LET a == Address(m)
             n == Applied(m, c, arg)
         IN  /\ Args(m, c) \in Seq(GoodValues)
             /\ n \in Memories /\ n.fault = m.fault
             /\ Allocated(n) = Allocated(m) \cup {a}
             /\ n.obj[a].vals = Append(Args(m, c), arg)
             /\ n.obj[a].kind = "closure" /\ n.obj[a].later_time = Never
             /\ Count(a, Args(m, c)) = 0 => n.obj[a].count = 1
             /\ Extended(m, n)
             /\ \A p \in Allocated(m) :
                  m.obj[p].count + Count(p, Args(m, c)) < 2^CountBits =>
                    n.obj[p].count = m.obj[p].count + Count(p, Args(m, c))
<1> DEFINE a == Address(m)
           vs == Args(m, c)
           object == [Object("closure", <<>>) EXCEPT !.f = m.obj[c.n].f, !.cap = m.obj[c.n].cap]
           m1 == Alloc(m, object)
           m2 == Dups(m1, vs)
           m3 == [m2 EXCEPT !.obj[a].vals = vs]
           n == Push(m3, Ref(a), arg)
<1>1. a \in Ids /\ a \notin Allocated(m)
  BY AddressIs
<1>2. m.obj[c.n] \in GoodObjects
  BY MemoryIs
<1>3. vs \in Seq(GoodValues) /\ m.obj[c.n].f \in {"", "f"} /\ m.obj[c.n].cap \in Nat
  BY <1>2 DEF GoodObjects, Args
<1>4. /\ object \in GoodObjects /\ object.kind = "closure" /\ object.count = 1
      /\ object.later_time = Never
  <2>1. object = Empty(m.obj[c.n].f, m.obj[c.n].cap)
    BY DEF Empty
  <2> HIDE DEF object
  <2> QED BY <1>3, <2>1, ClosureIs
<1> HIDE DEF a, object
<1>5. /\ m1 \in Memories /\ m1.fault = m.fault /\ Allocated(m1) = Allocated(m) \cup {a}
      /\ m1.obj[a] = object /\ \A p \in Allocated(m) : m1.obj[p] = m.obj[p]
  BY <1>1, <1>4, AllocIs DEF a
<1>6. m1 = NewClosure(m, m.obj[c.n].f, m.obj[c.n].cap) /\ Args(m1, c) = vs
  BY <1>5 DEF NewClosure, object, Args
<1>7. Known(m1, vs)
  BY <1>5 DEF Known
<1> HIDE DEF m1, vs
<1>8. /\ m2 \in Memories /\ SameContents(m1, m2)
      /\ \A o \in Allocated(m1) : m1.obj[o].count + Count(o, vs) < 2^CountBits =>
           m2.obj[o].count = m1.obj[o].count + Count(o, vs)
  BY <1>3, <1>5, <1>7, DupsIs DEF vs
<1>9. Args(m2, c) = vs /\ a \in Allocated(m2)
  BY <1>5, <1>6, <1>8 DEF SameContents, Args
<1>10. Applied(m, c, arg) = n
  BY <1>6, <1>9 DEF Applied, Clone, a
<1> HIDE DEF m2
<1>11. vs \in Seq(GoodValues)
  BY <1>3 DEF vs
<1>12. /\ m3 \in Memories /\ Allocated(m3) = Allocated(m2) /\ m3.fault = m2.fault
       /\ m3.obj[a].vals = vs /\ m3.obj[a].count = m2.obj[a].count
       /\ m3.obj[a].kind = m2.obj[a].kind
       /\ m3.obj[a].later_time = m2.obj[a].later_time
       /\ \A p \in Allocated(m2) : p # a => m3.obj[p] = m2.obj[p]
  BY <1>8, <1>9, <1>11, ValsIs
<1> HIDE DEF m3
<1>13. Ref(a).n = a
  BY DEF Ref
<1>14. /\ n \in Memories /\ Allocated(n) = Allocated(m3) /\ n.fault = m3.fault
       /\ n.obj[a].vals = Append(vs, arg) /\ n.obj[a].count = m3.obj[a].count
       /\ n.obj[a].kind = m3.obj[a].kind
       /\ n.obj[a].later_time = m3.obj[a].later_time
       /\ \A p \in Allocated(m3) : p # a => n.obj[p] = m3.obj[p]
  <2> DEFINE v == Ref(a)
  <2> HIDE DEF v, n
  <2>1. n = Push(m3, v, arg) /\ v.n = a /\ v.n \in Allocated(m3)
    BY <1>9, <1>12, <1>13 DEF v, n
  <2>2. LET x == Push(m3, v, arg)
        IN  /\ x \in Memories /\ Allocated(x) = Allocated(m3) /\ x.fault = m3.fault
            /\ x.obj[v.n].vals = Append(m3.obj[v.n].vals, arg)
            /\ x.obj[v.n].count = m3.obj[v.n].count
            /\ x.obj[v.n].kind = m3.obj[v.n].kind
            /\ x.obj[v.n].later_time = m3.obj[v.n].later_time
            /\ \A p \in Allocated(m3) : p # v.n => x.obj[p] = m3.obj[p]
    BY <1>12, <2>1, PushIs
  <2> QED BY <1>12, <2>1, <2>2
<1> HIDE DEF n
<1>15. /\ Allocated(n) = Allocated(m) \cup {a} /\ n.fault = m.fault
       /\ n.obj[a].kind = "closure" /\ n.obj[a].later_time = Never
       /\ Allocated(m2) = Allocated(m1) /\ a \in Allocated(m1)
  BY <1>4, <1>5, <1>8, <1>9, <1>12, <1>14 DEF SameContents
<1>16. ASSUME NEW p \in Allocated(m)
       PROVE  /\ n.obj[p].kind = m.obj[p].kind /\ n.obj[p].vals = m.obj[p].vals
              /\ n.obj[p].later_time = m.obj[p].later_time
              /\ n.obj[p].later_value = m.obj[p].later_value
              /\ m.obj[p].count + Count(p, vs) < 2^CountBits =>
                   n.obj[p].count = m.obj[p].count + Count(p, vs)
  <2>1. p # a /\ p \in Allocated(m1) /\ m1.obj[p] = m.obj[p]
    BY <1>1, <1>5
  <2>2. n.obj[p] = m2.obj[p]
    BY <2>1, <1>12, <1>14, <1>15
  <2> QED BY <2>1, <2>2, <1>8 DEF SameContents
<1>17. Count(a, vs) = 0 => n.obj[a].count = 1
  <2> SUFFICES ASSUME Count(a, vs) = 0 PROVE n.obj[a].count = 1
    OBVIOUS
  <2>1. m1.obj[a].count = 1
    BY <1>4, <1>5
  <2>2. 1 < 2^CountBits
    <3> DEFINE top == 2^CountBits
    <3> HIDE DEF top
    <3>1. top \in Nat /\ MaxRefs \in Nat /\ MaxRefs + 1 < top
      BY CountLimit DEF top
    <3>2. 1 < top
      BY <3>1
    <3> QED BY <3>2 DEF top
  <2>3. m1.obj[a].count + Count(a, vs) = 1
    BY <2>1
  <2>4. m2.obj[a].count = m1.obj[a].count + Count(a, vs)
    BY <1>8, <1>15, <2>2, <2>3
  <2> QED BY <1>12, <1>14, <2>3, <2>4
<1>18. Extended(m, n)
  BY <1>16 DEF Extended
<1> QED BY <1>10, <1>11, <1>14, <1>15, <1>16, <1>17, <1>18 DEF vs, a

\* What an object refers to is allocated, and of a lower rank.
LEMMA FieldsKnown ==
  ASSUME NEW m, NEW h, NEW l, Good(m, h, l, <<>>, NoCall, Nothing), NEW p \in Allocated(m)
  PROVE  /\ p \in Ids /\ m.obj[p].vals \in Seq(GoodValues)
         /\ Known(m, m.obj[p].vals)
         /\ \A i \in DOMAIN m.obj[p].vals : \A q \in Ids :
              m.obj[p].vals[i] = Ref(q) => Refers(m, <<>>, NoCall, p, i, q)
         /\ \A rank \in [Ids -> Nat] : Ranked(m, <<>>, NoCall, Nothing, rank) =>
              \A i \in DOMAIN m.obj[p].vals :
                OnHeap(m.obj[p].vals[i]) => rank[m.obj[p].vals[i].n] < rank[p]
<1> DEFINE vs == m.obj[p].vals
<1>1. /\ m \in Memories
      /\ Typed(m, h, l, <<>>, NoCall, Nothing) /\ Balanced(m, h, l, <<>>, NoCall, Nothing)
  BY DEF Good, Typed
<1>2. p \in Ids /\ m.obj[p] \in GoodObjects
  BY <1>1, MemoryIs
<1>3. vs \in Seq(GoodValues)
  BY <1>2 DEF GoodObjects
<1> HIDE DEF vs
<1>4. ASSUME NEW i \in DOMAIN vs, NEW q \in Ids, vs[i] = Ref(q)
      PROVE  Refers(m, <<>>, NoCall, p, i, q) /\ i \in Nat
  <2>1. Len(vs) \in Nat /\ i \in 1..Len(vs)
    BY <1>3
  <2>2. i # 0 /\ i \in Places(m, p) /\ At(m, p, i) = Ref(q)
    BY <1>4, <2>1 DEF Places, At, vs
  <2> QED BY <2>1, <2>2, AtRest DEF Refers
<1>5. ASSUME NEW i \in DOMAIN vs, OnHeap(vs[i])
      PROVE  vs[i].n \in Ids /\ Refers(m, <<>>, NoCall, p, i, vs[i].n) /\ i \in Nat
  <2>1. vs[i] \in GoodValues
    BY <1>3
  <2>2. vs[i].n \in Ids /\ vs[i] = Ref(vs[i].n)
    BY <1>5, <2>1, RefIs
  <2> QED BY <1>4, <2>2
<1>6. Known(m, vs)
  <2>1. ASSUME NEW i \in DOMAIN vs, OnHeap(vs[i]) PROVE vs[i].n \in Allocated(m)
    <3>1. vs[i].n \in Ids /\ Refers(m, <<>>, NoCall, p, i, vs[i].n)
      BY <1>5, <2>1
    <3> QED BY <1>1, <3>1, Present
  <2> QED BY <2>1 DEF Known
<1>7. ASSUME NEW rank \in [Ids -> Nat], Ranked(m, <<>>, NoCall, Nothing, rank),
             NEW i \in DOMAIN vs, OnHeap(vs[i])
      PROVE  rank[vs[i].n] < rank[p]
  BY <1>2, <1>5, <1>7 DEF Ranked
<1> QED BY <1>2, <1>3, <1>4, <1>6, <1>7 DEF vs

\* A closure is applied to one argument of several that it waits for.
LEMMA ApplyKeeps ==
  ASSUME NEW m, NEW h, NEW l, Good(m, h, l, <<>>, NoCall, Nothing),
         Cardinality(Allocated(m)) < MaxObjects,
         NEW c, c.n \in Allocated(m), NEW arg \in GoodValues,
         \A o \in Ids : h[o] >= Count(o, <<arg>>),
         \A o \in Ids : Plus(Minus(h, <<arg>>), <<Ref(Address(m))>>)[o] + l[o]
           + Cardinality(Referrers(Applied(m, c, arg), <<>>, NoCall, o)) <= MaxRefs
  PROVE  Good(Applied(m, c, arg), Plus(Minus(h, <<arg>>), <<Ref(Address(m))>>), l,
              <<>>, NoCall, Nothing)
<1> DEFINE a == Address(m)
           args == Args(m, c)
           one == <<arg>>
           vs == Append(args, arg)
           n == Applied(m, c, arg)
           k == Plus(Minus(h, one), <<Ref(a)>>)
<1>1. /\ m \in Memories /\ ~m.fault /\ h \in [Ids -> Nat] /\ l \in [Ids -> Nat]
      /\ Typed(m, h, l, <<>>, NoCall, Nothing) /\ Balanced(m, h, l, <<>>, NoCall, Nothing)
  BY DEF Good, Typed
<1>2. a \in Ids /\ a \notin Allocated(m)
  BY <1>1, AddressIs
<1>3. Known(m, args) /\ args \in Seq(GoodValues) /\ one \in Seq(GoodValues)
  BY FieldsKnown DEF Args
<1>4. /\ vs \in Seq(GoodValues) /\ Len(args) \in Nat /\ DOMAIN vs = 1..(Len(args) + 1)
      /\ DOMAIN args = 1..Len(args)
      /\ \A i \in DOMAIN args : vs[i] = args[i]
      /\ \A i \in DOMAIN vs : i \in DOMAIN args \/ vs[i] = arg
  BY <1>3
<1>5. /\ n \in Memories /\ n.fault = m.fault
      /\ Allocated(n) = Allocated(m) \cup {a}
      /\ n.obj[a].vals = vs
      /\ n.obj[a].kind = "closure" /\ n.obj[a].later_time = Never
      /\ Count(a, args) = 0 => n.obj[a].count = 1
      /\ Extended(m, n)
      /\ \A p \in Allocated(m) : m.obj[p].count + Count(p, args) < 2^CountBits =>
                                   n.obj[p].count = m.obj[p].count + Count(p, args)
  BY <1>1, <1>3, AppliedIs
<1>6. \A o \in Ids : k[o] + l[o] + Cardinality(Referrers(n, <<>>, NoCall, o)) <= MaxRefs
  OBVIOUS
<1>7. \A o \in Ids : /\ Count(o, args) \in Nat /\ Count(o, one) \in Nat
                     /\ Count(o, vs) = Count(o, args) + Count(o, one)
                     /\ h[o] \in Nat /\ h[o] >= Count(o, one)
                     /\ k[o] = h[o] - Count(o, one) + IF o = a THEN 1 ELSE 0
  <2> SUFFICES ASSUME NEW o \in Ids
               PROVE  /\ Count(o, args) \in Nat /\ Count(o, one) \in Nat
                      /\ Count(o, vs) = Count(o, args) + Count(o, one)
                      /\ h[o] \in Nat /\ h[o] >= Count(o, one)
                      /\ k[o] = h[o] - Count(o, one) + IF o = a THEN 1 ELSE 0
    OBVIOUS
  <2>1. Count(o, args) \in Nat /\ Count(o, one) \in Nat
    BY <1>3, CountFinite
  <2>2. Ref(a) = Ref(o) <=> a = o
    BY DEF Ref
  <2>3. Count(o, <<Ref(a)>>) = IF o = a THEN 1 ELSE 0
    BY <2>2, CountOne
  <2>4. k[o] = (h[o] - Count(o, one)) + Count(o, <<Ref(a)>>)
    BY DEF Plus, Minus
  <2>5. Count(o, vs) = Count(o, args) + Count(o, one)
    BY <1>3, CountAppend
  <2>6. h[o] \in Nat /\ h[o] >= Count(o, one)
    BY <1>1
  <2> QED BY <2>1, <2>3, <2>4, <2>5, <2>6
<1>8. k \in [Ids -> Nat]
  <2>1. \A o \in Ids : k[o] \in Nat
    <3> SUFFICES ASSUME NEW o \in Ids PROVE k[o] \in Nat
      OBVIOUS
    <3> DEFINE x == h[o]
               y == Count(o, one)
               e == IF o = a THEN 1 ELSE 0
               ko == k[o]
    <3>1. x \in Nat /\ y \in Nat /\ x >= y /\ e \in Nat /\ ko = x - y + e
      BY <1>7
    <3> HIDE DEF x, y, e, ko
    <3>2. ko \in Nat
      BY ONLY <3>1
    <3> QED BY <3>2 DEF ko
  <2> QED BY <2>1 DEF Plus
<1> HIDE DEF n, k, vs, one, args, a
<1>9. Owed(h, k, vs, args, a)
  <2> SUFFICES ASSUME NEW o \in Ids
               PROVE  k[o] + Count(o, vs) = h[o] + Count(o, args) + IF o = a THEN 1 ELSE 0
    BY DEF Owed
  <2> DEFINE x == h[o]
             y == Count(o, one)
             z == Count(o, args)
             w == Count(o, vs)
             e == IF o = a THEN 1 ELSE 0
             ko == k[o]
  <2>1. /\ x \in Nat /\ y \in Nat /\ z \in Nat /\ e \in Nat /\ ko = x - y + e /\ w = z + y
    BY <1>7
  <2> HIDE DEF x, y, z, w, e, ko
  <2>2. ko + w = x + z + e
    BY ONLY <2>1
  <2> QED BY <2>2 DEF x, z, w, e, ko
<1>10. ~Pending(n, Ref(a)) /\ Adds(m, n, a, vs)
  <2>1. ~Pending(n, Ref(a))
    BY <1>5 DEF Pending, Ref
  <2> QED BY <1>2, <1>5, <2>1 DEF Adds
<1>11. Known(m, vs)
  <2>1. OnHeap(arg) => arg.n \in Allocated(m)
    <3> SUFFICES ASSUME OnHeap(arg) PROVE arg.n \in Allocated(m)
      OBVIOUS
    <3>1. arg.n \in Ids /\ arg = Ref(arg.n)
      BY RefIs
    <3>2. Count(arg.n, one) = 1
      BY <3>1, CountOne DEF one
    <3>3. h[arg.n] > 0
      BY <1>7, <3>1, <3>2
    <3> QED BY <1>1, <3>1, <3>3, Present
  <2>2. ASSUME NEW i \in DOMAIN vs, OnHeap(vs[i]) PROVE vs[i].n \in Allocated(m)
    <3>1. CASE i \in DOMAIN args
      <4>1. vs[i] = args[i]
        BY <1>4, <3>1
      <4> QED BY <1>3, <2>2, <3>1, <4>1 DEF Known
    <3>2. CASE vs[i] = arg
      BY <2>1, <2>2, <3>2, Zenon
    <3>3. i \in DOMAIN args \/ vs[i] = arg
      BY <1>4, Zenon
    <3> QED BY <3>1, <3>2, <3>3
  <2> QED BY <2>2 DEF Known
<1>12. Bounded(m, vs)
  <2> SUFFICES ASSUME NEW rank \in [Ids -> Nat], Ranked(m, <<>>, NoCall, Nothing, rank)
               PROVE  \E top \in Nat : \A i \in DOMAIN vs : OnHeap(vs[i]) => rank[vs[i].n] < top
    BY DEF Bounded
  <2>1. c.n \in Ids /\ \A i \in DOMAIN args : OnHeap(args[i]) => rank[args[i].n] < rank[c.n]
    BY FieldsKnown DEF args, Args
  <2> DEFINE x == rank[c.n]
             y == IF OnHeap(arg) THEN rank[arg.n] ELSE 0
  <2>2. \A o \in Ids : rank[o] \in Nat
    OBVIOUS
  <2>3. Allocated(m) \subseteq Ids
    BY <1>1, MemoryIs
  <2>4. x \in Nat /\ y \in Nat /\ (OnHeap(arg) => y = rank[arg.n])
    BY <2>1, <2>2, RefIs
  <2> HIDE DEF x, y
  <2>5. x + y + 1 \in Nat /\ x < x + y + 1 /\ y < x + y + 1
    BY <2>4
  <2>6. ASSUME NEW i \in DOMAIN vs, OnHeap(vs[i])
        PROVE  rank[vs[i].n] < x + y + 1
    <3>1. CASE i \in DOMAIN args
      <4>1. vs[i] = args[i]
        BY <1>4, <3>1
      <4>2. rank[vs[i].n] < x
        BY <2>1, <2>6, <3>1, <4>1 DEF x
      <4>3. vs[i].n \in Ids
        BY <1>11, <2>3, <2>6 DEF Known
      <4>4. rank[vs[i].n] \in Nat
        BY <2>2, <4>3
      <4> QED BY <2>4, <2>5, <4>2, <4>4
    <3>2. CASE vs[i] = arg
      <4>1. rank[vs[i].n] = y
        BY <2>4, <2>6, <3>2, Zenon
      <4> QED BY <2>5, <4>1
    <3>3. i \in DOMAIN args \/ vs[i] = arg
      BY <1>4, Zenon
    <3> QED BY <3>1, <3>2, <3>3
  <2> QED BY <2>5, <2>6
<1>13. Duplicated(m, n, args)
  <2> SUFFICES ASSUME NEW p \in Allocated(m) PROVE n.obj[p].count = m.obj[p].count + Count(p, args)
    BY <1>5 DEF Duplicated
  <2> DEFINE x == m.obj[p].count
             z == Count(p, args)
             y == Count(p, one)
             d == Cardinality(Referrers(m, <<>>, NoCall, p))
             e == IF p = a THEN 1 ELSE 0
             w == Count(p, vs)
             hp == h[p]
             lp == l[p]
             kp == k[p]
             dn == Cardinality(Referrers(n, <<>>, NoCall, p))
  <2>1. p \in Ids
    BY <1>1, MemoryIs
  <2>2. hp \in Nat /\ lp \in Nat /\ d \in Nat /\ hp + lp + d = x
    BY <2>1, RestBalance
  <2>3. y \in Nat /\ z \in Nat /\ w = z + y /\ e \in Nat /\ kp = hp - y + e
    BY <1>7, <2>1
  <2>4. dn = d + w
    BY <1>1, <1>2, <1>4, <1>5, <1>10, NewReferrers
  <2>5. kp + lp + dn <= MaxRefs /\ MaxRefs \in Nat
    BY <1>6, <2>1, CountLimit
  <2> DEFINE top == 2^CountBits
  <2>6. MaxRefs + 1 < top /\ top \in Nat
    BY CountLimit
  <2> HIDE DEF x, y, z, d, e, w, hp, lp, kp, dn, top
  <2>7. x + z < top
    BY ONLY <2>2, <2>3, <2>4, <2>5, <2>6
  <2> QED BY <1>5, <2>7 DEF x, z, top
<1>14. n.obj[a].count = 1
  <2>1. \A i \in DOMAIN args : args[i] \in GoodValues
    BY <1>3
  <2>2. \A i \in DOMAIN args : args[i] # Ref(a)
    BY <1>2, <1>3, <2>1, RefIs DEF Known
  <2>3. Count(a, args) = 0
    BY <2>2, FS_EmptySet DEF Count
  <2> QED BY <1>5, <2>3
<1>15. ~n.fault /\ (n.obj[a].kind = "sv" => Len(vs) = 1)
  BY <1>1, <1>5
<1>16. Good(n, k, l, <<>>, NoCall, Nothing)
  BY <1>2, <1>3, <1>4, <1>5, <1>8, <1>9, <1>10, <1>11, <1>12, <1>13, <1>14, <1>15, NewKeeps
<1> QED BY <1>16 DEF n, k, one, a

\* What is held and counted once is not referred to.
LEMMA SoleReference ==
  ASSUME NEW m, NEW h, NEW l, Good(m, h, l, <<>>, NoCall, Nothing),
         NEW x \in Allocated(m), m.obj[x].count = 1, h[x] > 0
  PROVE  /\ x \in Ids /\ h[x] = 1 /\ l[x] = 0
         /\ Cardinality(Referrers(m, <<>>, NoCall, x)) = 0
         /\ \A p, i : ~Refers(m, <<>>, NoCall, p, i, x)
<1>1. m \in Memories /\ x \in Ids
  BY MemoryIs DEF Good, Typed
<1> DEFINE R == Referrers(m, <<>>, NoCall, x)
<1>2. /\ h[x] \in Nat /\ l[x] \in Nat /\ Cardinality(R) \in Nat
      /\ h[x] + l[x] + Cardinality(R) = 1
  BY <1>1, RestBalance
<1>3. h[x] = 1 /\ l[x] = 0 /\ Cardinality(R) = 0
  BY <1>2
<1>4. IsFiniteSet(R)
  BY <1>1, ReferrersFinite
<1>5. R = {}
  BY <1>3, <1>4, FS_EmptySet
<1>6. \A p, i : ~Refers(m, <<>>, NoCall, p, i, x)
  BY <1>5, ReferrersAre
<1> QED BY <1>1, <1>3, <1>6

\* A closure that is not shared gets its last argument.
LEMMA FinalKeeps ==
  ASSUME NEW m, NEW h, NEW l, Good(m, h, l, <<>>, NoCall, Nothing),
         NEW x \in Allocated(m), m.obj[x].count = 1, h[x] > 0, m.obj[x].kind = "closure"
  PROVE  Good(Free(m, Ref(x)), Plus(Minus(h, <<Ref(x)>>), Args(m, Ref(x))), l,
              <<>>, NoCall, Nothing)
<1> DEFINE args == Args(m, Ref(x))
           one == <<Ref(x)>>
           n == Free(m, Ref(x))
           k == Plus(Minus(h, one), args)
<1>1. /\ m \in Memories /\ ~m.fault /\ Shapes(m) /\ h \in [Ids -> Nat] /\ l \in [Ids -> Nat]
  BY DEF Good, Typed
<1>2. /\ x \in Ids /\ h[x] = 1 /\ l[x] = 0
      /\ Cardinality(Referrers(m, <<>>, NoCall, x)) = 0
      /\ \A p, i : ~Refers(m, <<>>, NoCall, p, i, x)
  BY SoleReference
<1>3. /\ args = m.obj[x].vals /\ args \in Seq(GoodValues)
      /\ \A i \in DOMAIN args : \A q \in Ids : args[i] = Ref(q) => Refers(m, <<>>, NoCall, x, i, q)
  BY FieldsKnown DEF Args, Ref
<1>4. Len(args) \in Nat /\ DOMAIN args = 1..Len(args)
  BY <1>3
<1>5. Ref(x).n = x
  BY DEF Ref
<1>6. /\ n \in Memories /\ Allocated(n) = Allocated(m) \ {x} /\ n.fault = m.fault
      /\ \A p \in Allocated(m) \ {x} : n.obj[p] = m.obj[p]
      /\ \A p, i, o : Refers(n, <<>>, NoCall, p, i, o) <=>
                        Refers(m, <<>>, NoCall, p, i, o) /\ p # x
  BY <1>1, <1>5, FreeIs
<1> HIDE DEF n
<1>7. \A i, o : Refers(m, <<>>, NoCall, x, i, o) <=> i \in DOMAIN args /\ args[i] = Ref(o)
  <2>1. ~Pending(m, Ref(x))
    BY <1>1 DEF Shapes
  <2>2. At(m, x, 0) = Nothing /\ \A i : i # 0 => At(m, x, i) = args[i]
    BY <1>3, <2>1 DEF At
  <2>3. \A i : i \in Places(m, x) <=> i = 0 \/ i \in DOMAIN args
    BY <1>3, <1>4 DEF Places
  <2>4. 0 \notin DOMAIN args
    BY <1>4
  <2> HIDE DEF args
  <2> QED BY <2>2, <2>3, <2>4, AtRest, NothingIsNumber DEF Refers
<1> HIDE DEF args
<1>8. ASSUME NEW o \in Ids
      PROVE  Cardinality(Referrers(m, <<>>, NoCall, o)) =
               Cardinality(Referrers(n, <<>>, NoCall, o)) + Count(o, args)
  <2>1. HasMore(n, m, o, x, args)
    BY <1>6, <1>7 DEF HasMore
  <2> QED BY <1>1, <1>3, <1>6, <2>1, MoreReferrers
<1>9. \A o \in Ids : /\ Count(o, args) \in Nat /\ h[o] \in Nat
                     /\ k[o] = h[o] - (IF o = x THEN 1 ELSE 0) + Count(o, args)
  <2> SUFFICES ASSUME NEW o \in Ids
               PROVE  /\ Count(o, args) \in Nat /\ h[o] \in Nat
                      /\ k[o] = h[o] - (IF o = x THEN 1 ELSE 0) + Count(o, args)
    OBVIOUS
  <2>1. Count(o, args) \in Nat
    BY <1>3, CountFinite
  <2>2. Ref(x) = Ref(o) <=> x = o
    BY DEF Ref
  <2>3. Count(o, one) = IF o = x THEN 1 ELSE 0
    BY <2>2, CountOne
  <2>4. k[o] = (h[o] - Count(o, one)) + Count(o, args)
    BY DEF Plus, Minus
  <2> QED BY <1>1, <2>1, <2>3, <2>4
<1>10. k \in [Ids -> Nat]
  <2>1. \A o \in Ids : k[o] \in Nat
    <3> SUFFICES ASSUME NEW o \in Ids PROVE k[o] \in Nat
      OBVIOUS
    <3> DEFINE e == IF o = x THEN 1 ELSE 0
               ho == h[o]
               y == Count(o, args)
               ko == k[o]
    <3>1. ho \in Nat /\ y \in Nat /\ e \in Nat /\ ho >= e /\ ko = ho - e + y
      BY <1>2, <1>9
    <3> HIDE DEF e, ho, y, ko
    <3>2. ko \in Nat
      BY ONLY <3>1
    <3> QED BY <3>2 DEF ko
  <2> QED BY <2>1 DEF Plus
<1> HIDE DEF k
<1>11. ASSUME NEW o \in Ids
       PROVE  k[o] + l[o] + Cardinality(Referrers(n, <<>>, NoCall, o)) =
                IF o \in Allocated(n) THEN n.obj[o].count ELSE 0
  <2> DEFINE e == IF o = x THEN 1 ELSE 0
             ho == h[o]
             lo == l[o]
             y == Count(o, args)
             ko == k[o]
             d == Cardinality(Referrers(m, <<>>, NoCall, o))
             dn == Cardinality(Referrers(n, <<>>, NoCall, o))
             was == IF o \in Allocated(m) THEN m.obj[o].count ELSE 0
             is == IF o \in Allocated(n) THEN n.obj[o].count ELSE 0
  <2>1. ho \in Nat /\ lo \in Nat /\ d \in Nat /\ ho + lo + d = was
    BY RestBalance
  <2>2. y \in Nat /\ e \in Nat /\ ko = ho - e + y
    BY <1>9
  <2>3. dn \in Nat /\ d = dn + y
    BY <1>6, <1>8, ReferrersFinite
  <2>4. was = is + e /\ is \in Nat
    <3>1. CASE o = x
      BY <1>6, <3>1
    <3>2. CASE o # x
      <4>1. o \in Allocated(m) => m.obj[o].count \in Nat
        BY RestBalance
      <4> QED BY <1>6, <3>2, <4>1
    <3> QED BY <3>1, <3>2
  <2> HIDE DEF e, ho, lo, y, ko, d, dn, was, is
  <2>5. ko + lo + dn = is
    BY ONLY <2>1, <2>2, <2>3, <2>4
  <2> QED BY <2>5 DEF ko, lo, dn, is
<1>12. \A o \in Allocated(n) : n.obj[o].count # 0
  <2> SUFFICES ASSUME NEW o \in Allocated(m) \ {x} PROVE m.obj[o].count # 0
    BY <1>6
  <2>1. o \in Ids
    BY <1>1, MemoryIs
  <2> QED BY <2>1, RestBalance
<1>13. Shapes(n)
  <2>1. \A p \in Allocated(m) \ {x} : Pending(n, Ref(p)) <=> Pending(m, Ref(p))
    BY <1>6 DEF Pending, Ref
  <2> QED BY <1>1, <1>6, <2>1 DEF Shapes
<1>14. \E rank \in [Ids -> Nat] : Ranked(n, <<>>, NoCall, Nothing, rank)
  <2>1. PICK rank \in [Ids -> Nat] : Ranked(m, <<>>, NoCall, Nothing, rank)
    BY DEF Good
  <2>2. Ranked(n, <<>>, NoCall, Nothing, rank)
    BY <1>6, <2>1 DEF Ranked
  <2> QED BY <2>2
<1>15. ~n.fault
  BY <1>1, <1>6
<1>16. Good(n, k, l, <<>>, NoCall, Nothing)
  BY <1>6, <1>10, <1>11, <1>12, <1>13, <1>14, <1>15, BalanceKeeps
<1> QED BY <1>16 DEF n, k, args

\* A closure that is not shared gets one of several arguments that it waits for.
LEMMA FinalPushKeeps ==
  ASSUME NEW m, NEW h, NEW l, Good(m, h, l, <<>>, NoCall, Nothing),
         NEW x \in Allocated(m), m.obj[x].count = 1, h[x] > 0, m.obj[x].kind = "closure",
         NEW arg \in GoodValues, arg # Ref(x), \A o \in Ids : h[o] >= Count(o, <<arg>>)
  PROVE  Good(Push(m, Ref(x), arg), Minus(h, <<arg>>), l, <<>>, NoCall, Nothing)
<1> DEFINE vs == m.obj[x].vals
           j == Len(vs) + 1
           one == <<arg>>
           n == Push(m, Ref(x), arg)
           k == Minus(h, one)
<1>1. /\ m \in Memories /\ ~m.fault /\ Shapes(m) /\ h \in [Ids -> Nat] /\ l \in [Ids -> Nat]
  BY DEF Good, Typed
<1>2. x \in Ids /\ \A p, i : ~Refers(m, <<>>, NoCall, p, i, x)
  BY SoleReference
<1>3. /\ n \in Memories /\ Allocated(n) = Allocated(m) /\ n.fault = m.fault
      /\ vs \in Seq(GoodValues)
      /\ n.obj[x].vals = Append(vs, arg)
      /\ n.obj[x].count = m.obj[x].count
      /\ n.obj[x].kind = m.obj[x].kind
      /\ n.obj[x].later_time = m.obj[x].later_time
      /\ n.obj[x].later_value = m.obj[x].later_value
      /\ \A p \in Allocated(m) : p # x => n.obj[p] = m.obj[p]
  <2> DEFINE v == Ref(x)
  <2>1. v.n = x
    BY DEF Ref
  <2> HIDE DEF v
  <2>2. LET r == Push(m, v, arg)
        IN  /\ r \in Memories /\ Allocated(r) = Allocated(m) /\ r.fault = m.fault
            /\ m.obj[v.n].vals \in Seq(GoodValues)
            /\ r.obj[v.n].vals = Append(m.obj[v.n].vals, arg)
            /\ r.obj[v.n].count = m.obj[v.n].count
            /\ r.obj[v.n].kind = m.obj[v.n].kind
            /\ r.obj[v.n].later_time = m.obj[v.n].later_time
            /\ r.obj[v.n].later_value = m.obj[v.n].later_value
            /\ \A p \in Allocated(m) : p # v.n => r.obj[p] = m.obj[p]
    BY <1>1, <2>1, PushIs
  <2> QED BY <2>1, <2>2 DEF v
<1> HIDE DEF n
<1>4. \A p \in Allocated(m) : Pending(n, Ref(p)) <=> Pending(m, Ref(p))
  BY <1>3 DEF Pending, Ref
<1>5. /\ Len(vs) \in Nat /\ Len(Append(vs, arg)) = j
      /\ \A i \in 1..Len(vs) : Append(vs, arg)[i] = vs[i]
      /\ Append(vs, arg)[j] = arg
  BY <1>3
<1>6. /\ \A p \in Allocated(m) : p # x => /\ Places(n, p) = Places(m, p)
                                          /\ \A i : At(n, p, i) = At(m, p, i)
      /\ Places(m, x) = 0..Len(vs) /\ Places(n, x) = 0..j
      /\ \A i \in 0..Len(vs) : At(n, x, i) = At(m, x, i)
      /\ At(n, x, j) = arg
  <2>1. ASSUME NEW p \in Allocated(m), p # x
        PROVE  Places(n, p) = Places(m, p) /\ \A i : At(n, p, i) = At(m, p, i)
    BY <1>3, <2>1 DEF Places, At, Pending, LaterValue, Ref
  <2>2. Places(m, x) = 0..Len(vs) /\ Places(n, x) = 0..j
    BY <1>3, <1>5 DEF Places
  <2>3. /\ At(n, x, 0) = At(m, x, 0)
        /\ \A i : i # 0 => At(n, x, i) = Append(vs, arg)[i] /\ At(m, x, i) = vs[i]
    BY <1>3, <1>4 DEF At, LaterValue, Ref
  <2> HIDE DEF vs
  <2>4. \A i \in 0..Len(vs) : At(n, x, i) = At(m, x, i)
    BY <1>5, <2>3
  <2>5. At(n, x, j) = arg
    BY <1>5, <2>3
  <2> QED BY <2>1, <2>2, <2>4, <2>5
<1> HIDE DEF vs
<1>7. /\ j \in Nat /\ j \notin 0..Len(vs) /\ j \in 0..j
      /\ \A i : i \in 0..j <=> i \in 0..Len(vs) \/ i = j
  BY <1>5
<1> HIDE DEF j
<1>8. \A p, i, o : Refers(m, <<>>, NoCall, p, i, o) <=>
                     Refers(n, <<>>, NoCall, p, i, o) /\ ~(p = x /\ i = j)
  BY <1>3, <1>6, <1>7, AtRest DEF Refers
<1>9. \A o : Refers(n, <<>>, NoCall, x, j, o) <=> arg = Ref(o)
  BY <1>3, <1>6, <1>7, AtRest DEF Refers
<1>10. ASSUME NEW o \in Ids
       PROVE  /\ Cardinality(Referrers(n, <<>>, NoCall, o)) =
                   Cardinality(Referrers(m, <<>>, NoCall, o)) + Count(o, one)
              /\ Count(o, one) \in Nat /\ h[o] >= Count(o, one)
              /\ h[o] \in Nat /\ k[o] = h[o] - Count(o, one)
  <2>1. Count(o, one) = IF arg = Ref(o) THEN 1 ELSE 0
    BY CountOne
  <2>2. Cardinality(Referrers(m, <<>>, NoCall, o)) =
          Cardinality(Referrers(n, <<>>, NoCall, o)) -
            IF Refers(n, <<>>, NoCall, x, j, o) THEN 1 ELSE 0
    BY <1>1, <1>3, <1>8, ReferrersButOne
  <2>3. /\ Cardinality(Referrers(m, <<>>, NoCall, o)) \in Nat
        /\ Cardinality(Referrers(n, <<>>, NoCall, o)) \in Nat
    BY <1>1, <1>3, ReferrersFinite
  <2>4. h[o] >= Count(o, one) /\ h[o] \in Nat /\ k[o] = h[o] - Count(o, one)
    BY <1>1 DEF Minus
  <2> HIDE DEF one, k
  <2> QED BY <1>9, <2>1, <2>2, <2>3, <2>4
<1>11. k \in [Ids -> Nat]
  <2>1. \A o \in Ids : k[o] \in Nat
    <3> SUFFICES ASSUME NEW o \in Ids PROVE k[o] \in Nat
      OBVIOUS
    <3> DEFINE ho == h[o]
               y == Count(o, one)
               ko == k[o]
    <3>1. ho \in Nat /\ y \in Nat /\ ho >= y /\ ko = ho - y
      BY <1>10
    <3> HIDE DEF ho, y, ko
    <3>2. ko \in Nat
      BY ONLY <3>1
    <3> QED BY <3>2 DEF ko
  <2> QED BY <2>1 DEF Minus
<1> HIDE DEF k, one
<1>12. ASSUME NEW o \in Ids
       PROVE  k[o] + l[o] + Cardinality(Referrers(n, <<>>, NoCall, o)) =
                IF o \in Allocated(n) THEN n.obj[o].count ELSE 0
  <2> DEFINE ho == h[o]
             lo == l[o]
             y == Count(o, one)
             ko == k[o]
             d == Cardinality(Referrers(m, <<>>, NoCall, o))
             dn == Cardinality(Referrers(n, <<>>, NoCall, o))
             is == IF o \in Allocated(n) THEN n.obj[o].count ELSE 0
  <2>1. is = IF o \in Allocated(m) THEN m.obj[o].count ELSE 0
    BY <1>3
  <2>2. ho \in Nat /\ lo \in Nat /\ d \in Nat /\ ho + lo + d = is
    BY <2>1, RestBalance
  <2>3. y \in Nat /\ ko = ho - y /\ dn = d + y
    BY <1>10
  <2> HIDE DEF ho, lo, y, ko, d, dn, is
  <2>4. ko + lo + dn = is
    BY ONLY <2>2, <2>3
  <2> QED BY <2>4 DEF ko, lo, dn, is
<1>13. \A o \in Allocated(n) : n.obj[o].count # 0
  <2> SUFFICES ASSUME NEW o \in Allocated(m) PROVE m.obj[o].count # 0
    BY <1>3
  <2>1. o \in Ids
    BY <1>1, MemoryIs
  <2> QED BY <2>1, RestBalance
<1>14. Shapes(n)
  BY <1>1, <1>3, <1>4 DEF Shapes
<1>15. \E rank \in [Ids -> Nat] : Ranked(n, <<>>, NoCall, Nothing, rank)
  <2>1. PICK rank \in [Ids -> Nat] : Ranked(m, <<>>, NoCall, Nothing, rank)
    BY DEF Good
  <2> DEFINE top == IF OnHeap(arg) THEN rank[arg.n] + 1 ELSE 0
             new == [rank EXCEPT ![x] = @ + top]
  <2>2. top \in Nat /\ (OnHeap(arg) => arg.n \in Ids /\ rank[arg.n] < top)
    BY RefIs
  <2> HIDE DEF top
  <2>3. /\ new \in [Ids -> Nat] /\ Ranked(m, <<>>, NoCall, Nothing, new)
        /\ new[x] >= top /\ \A o \in Ids : o # x => new[o] = rank[o]
    BY <1>2, <2>1, <2>2, RankedAbove
  <2> HIDE DEF new
  <2>4. ASSUME NEW q \in Ids, arg = Ref(q) PROVE new[q] < new[x]
    <3>1. OnHeap(arg) /\ arg.n = q /\ q # x
      BY <2>4 DEF OnHeap, Ref
    <3>2. rank[q] < top /\ new[q] = rank[q] /\ rank[q] \in Nat /\ new[x] \in Nat
      BY <1>2, <2>2, <2>3, <3>1
    <3> QED BY <2>2, <2>3, <3>2
  <2>5. ASSUME NEW p \in Ids, NEW q \in Ids, NEW i \in Nat, Refers(n, <<>>, NoCall, p, i, q)
        PROVE  new[q] < new[p]
    <3>1. CASE p = x /\ i = j
      BY <1>9, <2>4, <2>5, <3>1
    <3>2. CASE ~(p = x /\ i = j)
      BY <1>8, <2>3, <2>5, <3>2 DEF Ranked
    <3> QED BY <3>1, <3>2
  <2>6. Ranked(n, <<>>, NoCall, Nothing, new)
    BY <2>5, AtRest, NothingIsNumber DEF Ranked
  <2> QED BY <2>3, <2>6
<1>16. ~n.fault
  BY <1>1, <1>3
<1>17. Good(n, k, l, <<>>, NoCall, Nothing)
  BY <1>3, <1>11, <1>12, <1>13, <1>14, <1>15, <1>16, BalanceKeeps
<1> QED BY <1>17 DEF n, k, one

-----------------------------------------------------------------------------
(***************************************************************************)
(* The steps.                                                              *)
(***************************************************************************)
Within == \A o \in Ids : References(o) <= MaxRefs
RefInv   == Good(mem, held, lost, frames, call, Nothing) /\ Within

\* Between calls, what can be named is allocated.
LEMMA ValuesKnown ==
  ASSUME RefInv, Idle
  PROVE  /\ Good(mem, held, lost, <<>>, NoCall, Nothing)
         /\ \A v \in Holding : /\ v \in GoodValues /\ OnHeap(v) /\ v = Ref(v.n)
                               /\ v.n \in Allocated(mem) /\ v.n \in Ids /\ held[v.n] > 0
         /\ \A v \in Vals : /\ v \in GoodValues
                            /\ \A o \in Ids : held[o] >= Count(o, <<v>>)
         /\ \A v \in Borrowed : v \in GoodValues /\ (OnHeap(v) => v.n \in Allocated(mem))
<1>1. Good(mem, held, lost, <<>>, NoCall, Nothing)
  BY DEF RefInv, Idle
<1>2. /\ Typed(mem, held, lost, <<>>, NoCall, Nothing)
      /\ Balanced(mem, held, lost, <<>>, NoCall, Nothing)
  BY <1>1 DEF Good
<1>3. ASSUME NEW v \in Holding
      PROVE  /\ v \in GoodValues /\ OnHeap(v) /\ v = Ref(v.n)
             /\ v.n \in Allocated(mem) /\ v.n \in Ids /\ held[v.n] > 0
  <2>1. PICK o \in Ids : v = Ref(o) /\ held[o] > 0
    BY DEF Holding
  <2>2. v \in GoodValues /\ OnHeap(v) /\ v.n = o
    BY <2>1, RefIs
  <2>3. o \in Allocated(mem)
    BY <1>2, <2>1, Present
  <2> QED BY <2>1, <2>2, <2>3
<1>4. ASSUME NEW v \in Vals
      PROVE  v \in GoodValues /\ \A o \in Ids : held[o] >= Count(o, <<v>>)
  <2>1. \A o \in Ids : held[o] \in Nat
    BY <1>2 DEF Typed
  <2>2. CASE v = Nothing
    BY <2>1, <2>2, NothingIsNumber, CountOne
  <2>3. CASE v \in Holding
    <3>1. v \in GoodValues /\ v = Ref(v.n) /\ held[v.n] > 0
      BY <1>3, <2>3
    <3>2. ASSUME NEW o \in Ids PROVE held[o] >= Count(o, <<v>>)
      <4>1. CASE v = Ref(o)
        <5>1. v.n = o
          BY <4>1 DEF Ref
        <5> QED BY <2>1, <3>1, <4>1, <5>1, CountOne
      <4>2. CASE v # Ref(o)
        BY <2>1, <4>2, CountOne
      <4> QED BY <4>1, <4>2
    <3> QED BY <3>1, <3>2
  <2> QED BY <2>2, <2>3 DEF Vals
<1>5. ASSUME NEW v \in Borrowed
      PROVE  v \in GoodValues /\ (OnHeap(v) => v.n \in Allocated(mem))
  <2>1. CASE v = Nothing
    BY <2>1, NothingIsNumber
  <2>2. CASE v \in Holding
    BY <1>3, <2>2
  <2>3. CASE \E r \in Holding : v \in Range(mem.obj[r.n].vals)
    <3>1. PICK r \in Holding : v \in Range(mem.obj[r.n].vals)
      BY <2>3
    <3> DEFINE vs == mem.obj[r.n].vals
    <3>2. vs \in Seq(GoodValues) /\ Known(mem, vs)
      BY <1>1, <1>3, FieldsKnown
    <3> HIDE DEF vs
    <3>3. PICK i \in DOMAIN vs : v = vs[i]
      BY <3>1 DEF Range, vs
    <3> QED BY <3>2, <3>3 DEF Known
  <2> QED BY <2>1, <2>2, <2>3 DEF Borrowed, Vals
<1> QED BY <1>1, <1>3, <1>4, <1>5

\* Between calls, no count exceeds the bound.
LEMMA CountsWithin ==
  ASSUME RefInv, Idle
  PROVE  \A o \in Allocated(mem) : mem.obj[o].count + 1 < 2^CountBits
<1> SUFFICES ASSUME NEW o \in Allocated(mem) PROVE mem.obj[o].count + 1 < 2^CountBits
  OBVIOUS
<1>1. Good(mem, held, lost, <<>>, NoCall, Nothing) /\ o \in Ids
  BY ValuesKnown, FieldsKnown
<1> DEFINE x == mem.obj[o].count
           top == 2^CountBits
           ho == held[o]
           lo == lost[o]
           d == Cardinality(Referrers(mem, <<>>, NoCall, o))
<1>2. ho \in Nat /\ lo \in Nat /\ d \in Nat /\ ho + lo + d = x
  BY <1>1, RestBalance
<1>3. References(o) = ho + lo + d + Count(o, <<Nothing>>)
  BY AtRest DEF References, Idle
<1>4. Count(o, <<Nothing>>) = 0
  BY NothingIsNumber, CountOne
<1>5. References(o) <= MaxRefs
  BY <1>1 DEF RefInv, Within
<1>6. MaxRefs + 1 < top /\ top \in Nat /\ MaxRefs \in Nat
  BY CountLimit
<1> HIDE DEF x, top, ho, lo, d
<1>7. ho + lo + d <= MaxRefs
  BY <1>2, <1>3, <1>4, <1>5
<1>8. x + 1 < top
  BY ONLY <1>2, <1>6, <1>7
<1> QED BY <1>8 DEF x, top

\* After a call, the references are what is held, lost and in places.
LEMMA WithinAfter ==
  ASSUME NEW m, NEW h, Step(m, h), Within', NEW o \in Ids,
         h[o] \in Nat, lost[o] \in Nat, Cardinality(Referrers(m, <<>>, NoCall, o)) \in Nat
  PROVE  h[o] + lost[o] + Cardinality(Referrers(m, <<>>, NoCall, o)) <= MaxRefs
<1> DEFINE x == h[o]
           y == lost[o]
           d == Cardinality(Referrers(m, <<>>, NoCall, o))
<1>1. Count(o, <<NoCall.val>>) = 0
  BY NothingIsNumber, AtRest, CountOne
<1>2. x + y + d + Count(o, <<NoCall.val>>) <= MaxRefs
  BY DEF Step, Idle, Within, References
<1>3. x \in Nat /\ y \in Nat /\ d \in Nat
  OBVIOUS
<1> HIDE DEF x, y, d
<1>4. x + y + d <= MaxRefs
  BY <1>1, <1>2, <1>3
<1> QED BY <1>4 DEF x, y, d

\* What is still to show of a call that drops nothing.
LEMMA StepIs ==
  ASSUME NEW m, NEW h, Step(m, h), Good(m, h, lost, <<>>, NoCall, Nothing)
  PROVE  Good(mem, held, lost, frames, call, Nothing)'
BY DEF Step, Idle

LEMMA CreateStep ==
  ASSUME RefInv, Room, NEW object \in GoodObjects, object.count = 1, object.later_time = Never,
         object.kind = "sv" => Len(object.vals) = 1,
         NEW v \in GoodValues, object.vals \in {<<>>, <<v>>},
         \A o \in Ids : held[o] >= Count(o, object.vals),
         Creates(Alloc(mem, object), object.vals)
  PROVE  Good(mem, held, lost, frames, call, Nothing)'
<1> DEFINE h == Plus(Minus(held, object.vals), <<Ref(Address(mem))>>)
<1>1. Step(Alloc(mem, object), h)
  BY DEF Creates
<1>2. Idle
  BY <1>1 DEF Step
<1>3. Good(mem, held, lost, <<>>, NoCall, Nothing)
  BY <1>2, ValuesKnown
<1>4. Cardinality(Allocated(mem)) < MaxObjects
  BY DEF Room
<1>5. Good(Alloc(mem, object), h, lost, <<>>, NoCall, Nothing)
  BY <1>3, <1>4, CreateKeeps
<1> QED BY <1>1, <1>5, StepIs

LEMMA CreateLeafKeeps ==
  ASSUME RefInv, NEW kind \in Leaves, CreateLeaf(kind)
  PROVE  Good(mem, held, lost, frames, call, Nothing)'
<1> DEFINE none == <<>>
           object == Object(kind, none)
<1>1. kind \in {"time", "blob"} /\ kind \in {"time", "blob", "adt", "sv", "closure"}
  BY RefCountAssumption
<1>2. none \in Seq(GoodValues)
  BY EmptySeq
<1>3. Room /\ Creates(Alloc(mem, object), none) /\ Idle
  BY DEF CreateLeaf, NewLeaf, Creates, Step
<1> HIDE DEF none
<1>4. /\ object \in GoodObjects /\ object.kind = kind /\ object.vals = none
      /\ object.count = 1 /\ object.later_time = Never
  BY <1>1, <1>2, ObjectIs
<1> HIDE DEF object
<1>5. \A o \in Ids : held[o] >= Count(o, none)
  <2>1. \A o \in Ids : held[o] \in Nat
    BY DEF RefInv, Good, Typed
  <2> QED BY <2>1, CountNone DEF none
<1>6. object.vals \in {<<>>, <<Nothing>>} /\ object.kind # "sv"
  BY <1>1, <1>4 DEF none
<1> QED BY <1>3, <1>4, <1>5, <1>6, NothingIsNumber, CreateStep

LEMMA CreateClosureKeeps ==
  ASSUME RefInv, NEW cap \in Caps, CreateClosure(cap)
  PROVE  Good(mem, held, lost, frames, call, Nothing)'
<1> DEFINE none == <<>>
           object == Empty("f", cap)
<1>1. cap \in Nat
  BY RefCountAssumption
<1>2. none \in Seq(GoodValues)
  BY EmptySeq
<1>3. Room /\ Creates(Alloc(mem, object), none) /\ Idle
  BY DEF CreateClosure, NewClosure, Creates, Step, Empty
<1>4. /\ object \in GoodObjects /\ object.kind = "closure" /\ object.vals = none
      /\ object.count = 1 /\ object.later_time = Never
  BY <1>1, ClosureIs
<1> HIDE DEF object, none
<1>5. \A o \in Ids : held[o] >= Count(o, none)
  <2>1. \A o \in Ids : held[o] \in Nat
    BY DEF RefInv, Good, Typed
  <2> QED BY <2>1, CountNone DEF none
<1>6. object.vals \in {<<>>, <<Nothing>>} /\ object.kind # "sv"
  BY <1>4 DEF none
<1> QED BY <1>3, <1>4, <1>5, <1>6, NothingIsNumber, CreateStep

LEMMA CreateSvKeeps ==
  ASSUME RefInv, NEW v \in Vals, CreateSv(v)
  PROVE  Good(mem, held, lost, frames, call, Nothing)'
<1> DEFINE one == <<v>>
           kind == "sv"
           object == Object(kind, one)
<1>1. Room /\ Creates(Alloc(mem, object), one) /\ Idle
  BY DEF CreateSv, NewSv, Creates, Step
<1>2. v \in GoodValues /\ \A o \in Ids : held[o] >= Count(o, one)
  BY <1>1, ValuesKnown
<1>3. one \in Seq(GoodValues) /\ Len(one) = 1
  BY <1>2
<1> HIDE DEF one
<1>4. /\ object \in GoodObjects /\ object.vals = one
      /\ object.count = 1 /\ object.later_time = Never
  BY <1>3, ObjectIs
<1> HIDE DEF object
<1>5. object.vals \in {<<>>, <<v>>}
  BY <1>4 DEF one
<1> QED BY <1>1, <1>2, <1>3, <1>4, <1>5, CreateStep

LEMMA CreateAdtKeeps ==
  ASSUME RefInv, NEW v \in Vals, CreateAdt(v)
  PROVE  Good(mem, held, lost, frames, call, Nothing)'
<1> DEFINE one == <<v>>
           object == Tagged(v)
<1>1. Room /\ Creates(Alloc(mem, object), one) /\ Idle
  BY DEF CreateAdt, NewAdt, Creates, Step, Tagged
<1>2. v \in GoodValues /\ \A o \in Ids : held[o] >= Count(o, one)
  BY <1>1, ValuesKnown
<1>3. /\ object \in GoodObjects /\ object.vals = one /\ object.kind = "adt"
      /\ object.count = 1 /\ object.later_time = Never
  BY <1>2, TaggedIs
<1> HIDE DEF object, one
<1>4. object.vals \in {<<>>, <<v>>}
  BY <1>3 DEF one
<1> QED BY <1>1, <1>2, <1>3, <1>4, CreateStep

\* What is duplicated is kept.
LEMMA DupsStep ==
  ASSUME RefInv, NEW vs \in Seq(GoodValues), Known(mem, vs),
         Step(Dups(mem, vs), Plus(held, vs)), Within'
  PROVE  Good(mem, held, lost, frames, call, Nothing)'
<1> DEFINE n == Dups(mem, vs)
           h == Plus(held, vs)
<1>1. Good(mem, held, lost, <<>>, NoCall, Nothing)
  BY ValuesKnown DEF Step
<1>2. mem \in Memories /\ held \in [Ids -> Nat] /\ lost \in [Ids -> Nat]
  BY <1>1 DEF Good, Typed
<1>3. n \in Memories
  BY <1>2, DupsIs
<1>4. \A o \in Ids : h[o] \in Nat
  <2>1. \A o \in Ids : Count(o, vs) \in Nat /\ held[o] \in Nat
    BY <1>2, CountFinite
  <2> QED BY <2>1 DEF Plus
<1>5. Step(n, h)
  OBVIOUS
<1> HIDE DEF n, h
<1>6. \A o \in Ids : h[o] + lost[o] + Cardinality(Referrers(n, <<>>, NoCall, o)) <= MaxRefs
  <2> SUFFICES ASSUME NEW o \in Ids
               PROVE  h[o] + lost[o] + Cardinality(Referrers(n, <<>>, NoCall, o)) <= MaxRefs
    OBVIOUS
  <2>1. Cardinality(Referrers(n, <<>>, NoCall, o)) \in Nat
    BY <1>3, ReferrersFinite
  <2> QED BY <1>2, <1>4, <1>5, <2>1, WithinAfter
<1>7. Good(n, h, lost, <<>>, NoCall, Nothing)
  BY <1>1, <1>6, DupsKeep DEF n, h
<1> QED BY <1>5, <1>7, StepIs

LEMMA DupHeldKeeps ==
  ASSUME RefInv, NEW v \in Holding, DupHeld(v), Within'
  PROVE  Good(mem, held, lost, frames, call, Nothing)'
<1> DEFINE one == <<v>>
<1>1. Step(Dups(mem, one), Plus(held, one))
  BY DEF DupHeld, Dup
<1>2. v \in GoodValues /\ v.n \in Allocated(mem)
  BY <1>1, ValuesKnown DEF Step
<1>3. one \in Seq(GoodValues) /\ Known(mem, one)
  BY <1>2 DEF Known
<1> HIDE DEF one
<1> QED BY <1>1, <1>3, DupsStep

LEMMA DupFieldKeeps ==
  ASSUME RefInv, NEW v \in Holding, DupField(v), Within'
  PROVE  Good(mem, held, lost, frames, call, Nothing)'
<1> DEFINE vs == mem.obj[v.n].vals
<1>1. PICK i \in DOMAIN vs : OnHeap(vs[i]) /\ Step(Dups(mem, <<vs[i]>>), Plus(held, <<vs[i]>>))
  BY DEF DupField, Dup, Field
<1>2. Good(mem, held, lost, <<>>, NoCall, Nothing) /\ v.n \in Allocated(mem)
  BY <1>1, ValuesKnown DEF Step
<1>3. vs \in Seq(GoodValues) /\ Known(mem, vs)
  BY <1>2, FieldsKnown
<1> HIDE DEF vs
<1>4. vs[i] \in GoodValues /\ vs[i].n \in Allocated(mem)
  BY <1>1, <1>3 DEF Known
<1> DEFINE w == vs[i]
           one == <<w>>
<1>5. Step(Dups(mem, one), Plus(held, one))
  BY <1>1
<1>6. w \in GoodValues /\ w.n \in Allocated(mem)
  BY <1>4
<1> HIDE DEF w
<1>7. one \in Seq(GoodValues) /\ Known(mem, one)
  BY <1>6 DEF Known
<1> HIDE DEF one
<1> QED BY <1>5, <1>7, DupsStep

\* A value is dropped.
LEMMA DropStep ==
  ASSUME NEW m, NEW h, NEW fs, NEW c, NEW v, Good(m, h, lost, fs, c, v), Drop(m, v, fs)
  PROVE  Good(mem', h, lost', frames', c, Nothing)
<1>1. Drops(m, v, fs, lost, mem', frames', lost')
  BY DEF Drop, Drops
<1> QED BY <1>1, DropKeeps

LEMMA DropHeldKeeps ==
  ASSUME RefInv, NEW v \in Holding, DropHeld(v)
  PROVE  Good(mem, held, lost, frames, call, Nothing)'
<1>1. Idle /\ Drop(mem, v, <<>>) /\ held' = Minus(held, <<v>>) /\ call' = call
  BY DEF DropHeld
<1>2. /\ Good(mem, held, lost, <<>>, NoCall, Nothing)
      /\ v = Ref(v.n) /\ v.n \in Ids /\ held[v.n] > 0
  BY <1>1, ValuesKnown
<1>3. Good(mem, Minus(held, <<v>>), lost, <<>>, NoCall, v)
  BY <1>2, DropBegins
<1>4. Good(mem', Minus(held, <<v>>), lost', frames', NoCall, Nothing)
  BY <1>1, <1>3, DropStep
<1> QED BY <1>1, <1>4 DEF Idle

LEMMA DropNextKeeps ==
  ASSUME RefInv, DropNext
  PROVE  Good(mem, held, lost, frames, call, Nothing)'
<1> DEFINE frame  == Last(frames)
           values == Payload(mem, Ref(frame.o))
           rest   == Append(Front(frames), [frame EXCEPT !.i = @ + 1])
<1>1. Good(mem, held, lost, frames, call, Nothing) /\ frames # <<>>
      /\ held' = held /\ call' = call
  BY DEF RefInv, DropNext
<1>2. CASE frame.i <= Len(values)
  <2>1. Drop(mem, values[frame.i], rest)
    BY <1>2 DEF DropNext
  <2>2. Good(mem, held, lost, rest, call, values[frame.i])
    BY <1>1, <1>2, NextValue
  <2> HIDE DEF rest, values, frame
  <2>3. Good(mem', held, lost', frames', call, Nothing)
    BY <2>1, <2>2, DropStep
  <2> QED BY <1>1, <2>3
<1>3. CASE ~(frame.i <= Len(values))
  <2>1. mem' = Free(mem, Ref(frame.o)) /\ frames' = Front(frames) /\ lost' = lost
    BY <1>3 DEF DropNext
  <2>2. Good(Free(mem, Ref(frame.o)), held, lost, Front(frames), call, Nothing)
    BY <1>1, <1>3, LastValue
  <2> QED BY <1>1, <2>1, <2>2
<1> QED BY <1>2, <1>3

\* A value that does not lead to a variable may be ranked below it.
LEMMA FitsRank ==
  ASSUME RefInv, Idle, ~Cycles, NEW var \in Holding, NEW val \in Borrowed, Fits(var, val)
  PROVE  /\ var.n \in Allocated(mem) /\ mem.obj[var.n].kind = "sv" /\ var = Ref(var.n)
         /\ val \in GoodValues
         /\ OnHeap(val) => val.n \in Allocated(mem) /\ mem.obj[val.n].count + 1 < 2^CountBits
         /\ \E rank \in [Ids -> Nat] : /\ Ranked(mem, <<>>, NoCall, Nothing, rank)
                                       /\ OnHeap(val) => rank[val.n] < rank[var.n]
<1>1. /\ Good(mem, held, lost, <<>>, NoCall, Nothing)
      /\ var.n \in Allocated(mem) /\ var = Ref(var.n) /\ var.n \in Ids
      /\ val \in GoodValues /\ (OnHeap(val) => val.n \in Allocated(mem))
  BY ValuesKnown
<1>2. mem.obj[var.n].kind = "sv" /\ Avoids(val, var.n)
  BY DEF Fits, Holds
<1>3. PICK S \in SUBSET Ids : /\ var.n \notin S
                              /\ OnHeap(val) => val.n \in S
                              /\ \A e \in Edges : e[1] \in S => e[2] \in S
  BY <1>2 DEF Avoids
<1>4. ASSUME NEW p \in S, NEW q \in Ids, NEW i \in Nat, Refers(mem, <<>>, NoCall, p, i, q)
      PROVE  q \in S
  <2>1. p \in Allocated(mem) /\ i \in Places(mem, p) /\ At(mem, p, i) = Ref(q)
    BY <1>4 DEF Refers
  <2>2. OnHeap(At(mem, p, i)) /\ At(mem, p, i).n = q
    BY <2>1 DEF OnHeap, Ref
  <2> DEFINE row == {<<p, At(mem, p, j).n>> : j \in {k \in Places(mem, p) : OnHeap(At(mem, p, k))}}
  <2>3. <<p, q>> \in row
    BY <2>1, <2>2
  <2> HIDE DEF row
  <2>4. <<p, q>> \in Edges
    BY <2>1, <2>3 DEF Edges, row
  <2> DEFINE e == <<p, q>>
  <2>5. e \in Edges /\ e[1] = p /\ e[2] = q
    BY <2>4
  <2> HIDE DEF e
  <2> QED BY <1>3, <2>5
<1>5. \E rank \in [Ids -> Nat] : /\ Ranked(mem, <<>>, NoCall, Nothing, rank)
                                 /\ OnHeap(val) => rank[val.n] < rank[var.n]
  BY <1>1, <1>3, <1>4, Reranked
<1> QED BY <1>1, <1>2, <1>5, CountsWithin

LEMMA AssignKeeps ==
  ASSUME RefInv, ~Cycles, NEW var \in Holding, NEW val \in Borrowed, AssignSv(var, val)
  PROVE  Good(mem, held, lost, frames, call, Nothing)'
<1> DEFINE c == [op |-> "assign", var |-> var, val |-> val]
           v == Deref(mem, var)
           n == Dup(mem, val)
<1>1. Idle /\ Fits(var, val) /\ Drop(n, v, <<>>) /\ call' = c /\ held' = held
  BY DEF AssignSv, Calls
<1>2. Good(mem, held, lost, <<>>, NoCall, Nothing)
  BY <1>1, ValuesKnown
<1>3. Good(n, held, lost, <<>>, c, v)
  BY <1>1, <1>2, FitsRank, AssignBegins
<1> HIDE DEF c, v, n
<1>4. Good(mem', held, lost', frames', c, Nothing)
  BY <1>1, <1>3, DropStep
<1> QED BY <1>1, <1>4

LEMMA LaterKeeps ==
  ASSUME RefInv, ~Cycles, NEW var \in Holding, NEW val \in Borrowed, LaterSv(var, val)
  PROVE  Good(mem, held, lost, frames, call, Nothing)'
<1> DEFINE c == [op |-> "later", var |-> var, val |-> val]
           v == At(mem, var.n, 0)
           n == Schedule(Dup(mem, val), var, Soon)
<1>1. Idle /\ Fits(var, val) /\ Drop(n, v, <<>>) /\ call' = c /\ held' = held
  BY DEF LaterSv, Calls
<1>2. Good(mem, held, lost, <<>>, NoCall, Nothing)
  BY <1>1, ValuesKnown
<1>3. Good(n, held, lost, <<>>, c, v)
  BY <1>1, <1>2, FitsRank, LaterBegins
<1> HIDE DEF c, v, n
<1>4. Good(mem', held, lost', frames', c, Nothing)
  BY <1>1, <1>3, DropStep
<1> QED BY <1>1, <1>4

LEMMA UpdateKeeps ==
  ASSUME RefInv, NEW o \in Ids, UpdateSv(o)
  PROVE  Good(mem, held, lost, frames, call, Nothing)'
<1> DEFINE c == [op |-> "update", var |-> Ref(o), val |-> Nothing]
           v == Deref(mem, Ref(o))
<1>1. /\ Idle /\ o \in Allocated(mem) /\ mem.obj[o].kind = "sv" /\ Pending(mem, Ref(o))
      /\ Drop(mem, v, <<>>) /\ call' = c /\ held' = held
  BY DEF UpdateSv, Calls
<1>2. Good(mem, held, lost, <<>>, NoCall, Nothing)
  BY <1>1, ValuesKnown
<1>3. Good(mem, held, lost, <<>>, c, v)
  BY <1>1, <1>2, UpdateBegins
<1> HIDE DEF c, v
<1>4. Good(mem', held, lost', frames', c, Nothing)
  BY <1>1, <1>3, DropStep
<1> QED BY <1>1, <1>4

LEMMA FinishKeeps ==
  ASSUME RefInv, Finish
  PROVE  Good(mem, held, lost, frames, call, Nothing)'
<1>1. /\ frames = <<>> /\ call # NoCall
      /\ mem' = Finished /\ call' = NoCall
      /\ held' = held /\ lost' = lost /\ frames' = frames
  BY DEF Finish
<1>2. Good(mem, held, lost, <<>>, call, Nothing)
  BY <1>1 DEF RefInv
<1>3. call.op \in {"assign", "later", "update"}
  <2>1. call.op # "none"
    BY <1>1, <1>2 DEF Good, CallOK
  <2>2. call.op \in {"none", "assign", "later", "update"}
    BY <1>2 DEF Good, Typed, GoodCalls
  <2> QED BY <2>1, <2>2
<1>4. Good(Finished, held, lost, <<>>, NoCall, Nothing)
  <2>1. CASE call.op = "assign"
    BY <1>2, <2>1, AssignReturns DEF Finished
  <2>2. CASE call.op = "later"
    BY <1>2, <2>2, LaterReturns DEF Finished
  <2>3. CASE call.op = "update"
    BY <1>2, <2>3, UpdateReturns DEF Finished
  <2> QED BY <1>3, <2>1, <2>2, <2>3
<1> QED BY <1>1, <1>4

\* A closure and an argument of its own are held.
LEMMA OwnedPair ==
  ASSUME RefInv, Idle, NEW c \in Holding, NEW arg \in Vals, Owns(<<c, arg>>)
  PROVE  /\ arg \in GoodValues /\ \A o \in Ids : held[o] >= Count(o, <<arg>>)
         /\ held[c.n] = 1 => arg # c
<1>1. arg \in GoodValues /\ \A o \in Ids : held[o] >= Count(o, <<arg>>)
  BY ValuesKnown
<1>2. c.n \in Ids /\ c = Ref(c.n) /\ c \in GoodValues
  BY ValuesKnown
<1>3. ASSUME arg = c, held[c.n] = 1 PROVE FALSE
  <2> DEFINE x == c.n
             one == <<c>>
             two == <<c, c>>
  <2>1. two = Append(one, c) /\ one \in Seq(GoodValues)
    BY <1>2
  <2>2. Count(x, two) = Count(x, one) + Count(x, <<c>>)
    BY <1>2, <2>1, CountAppend
  <2>3. Count(x, two) = 2
    BY <1>2, <2>2, CountOne
  <2>4. held[x] >= 2
    BY <1>2, <1>3, <2>3 DEF Owns
  <2> QED BY <1>3, <2>4
<1> QED BY <1>1, <1>3

LEMMA ApplyHeldKeeps ==
  ASSUME RefInv, NEW c \in Holding, NEW arg \in Vals, ApplyHeld(c, arg), Within'
  PROVE  Good(mem, held, lost, frames, call, Nothing)'
<1>1. Idle /\ Owns(<<c, arg>>)
  BY DEF ApplyHeld, Step
<1>2. /\ Good(mem, held, lost, <<>>, NoCall, Nothing)
      /\ c.n \in Allocated(mem) /\ c.n \in Ids
  BY <1>1, ValuesKnown
<1>3. arg \in GoodValues /\ \A o \in Ids : held[o] >= Count(o, <<arg>>)
  BY <1>1, OwnedPair
<1>4. CASE Completes(mem, c)
  <2> DEFINE args == Args(mem, c)
  <2>1. Step(Dups(mem, args), Plus(held, args))
    BY <1>4 DEF ApplyHeld, Apply
  <2>2. args \in Seq(GoodValues) /\ Known(mem, args)
    BY <1>2, FieldsKnown DEF Args
  <2> HIDE DEF args
  <2> QED BY <2>1, <2>2, DupsStep
<1>5. CASE ~Completes(mem, c)
  <2> DEFINE n == Applied(mem, c, arg)
             h == Plus(Minus(held, <<arg>>), <<Ref(Address(mem))>>)
  <2>1. Step(n, h) /\ Cardinality(Allocated(mem)) < MaxObjects
    BY <1>5 DEF ApplyHeld, Apply, Applied, Room
  <2>2. mem \in Memories /\ held \in [Ids -> Nat] /\ lost \in [Ids -> Nat]
    BY <1>2 DEF Good, Typed
  <2>3. n \in Memories
    <3>1. Known(mem, Args(mem, c))
      BY <1>2, FieldsKnown DEF Args
    <3> QED BY <1>2, <1>3, <2>1, <2>2, <3>1, AppliedIs
  <2>4. \A o \in Ids : h[o] \in Nat
    <3> SUFFICES ASSUME NEW o \in Ids PROVE h[o] \in Nat
      OBVIOUS
    <3>1. Count(o, <<arg>>) \in Nat /\ Count(o, <<Ref(Address(mem))>>) \in Nat
      BY CountOne
    <3>2. h[o] = (held[o] - Count(o, <<arg>>)) + Count(o, <<Ref(Address(mem))>>)
      BY DEF Plus, Minus
    <3> DEFINE x == held[o]
               y == Count(o, <<arg>>)
               z == Count(o, <<Ref(Address(mem))>>)
               ho == h[o]
    <3>3. x \in Nat /\ y \in Nat /\ z \in Nat /\ x >= y /\ ho = x - y + z
      BY <1>3, <2>2, <3>1, <3>2
    <3> HIDE DEF x, y, z, ho
    <3>4. ho \in Nat
      BY ONLY <3>3
    <3> QED BY <3>4 DEF ho
  <2> HIDE DEF n, h
  <2>5. \A o \in Ids : h[o] + lost[o] + Cardinality(Referrers(n, <<>>, NoCall, o)) <= MaxRefs
    <3> SUFFICES ASSUME NEW o \in Ids
                 PROVE  h[o] + lost[o] + Cardinality(Referrers(n, <<>>, NoCall, o)) <= MaxRefs
      OBVIOUS
    <3>1. Cardinality(Referrers(n, <<>>, NoCall, o)) \in Nat
      BY <2>3, ReferrersFinite
    <3> QED BY <2>1, <2>2, <2>4, <3>1, WithinAfter
  <2>6. Good(n, h, lost, <<>>, NoCall, Nothing)
    BY <1>2, <1>3, <2>1, <2>5, ApplyKeeps DEF n, h
  <2> QED BY <2>1, <2>6, StepIs
<1> QED BY <1>4, <1>5

LEMMA ApplyFinalHeldKeeps ==
  ASSUME RefInv, NEW c \in Holding, NEW arg \in Vals, ApplyFinalHeld(c, arg)
  PROVE  Good(mem, held, lost, frames, call, Nothing)'
<1> DEFINE x == c.n
<1>1. Idle /\ Owns(<<c, arg>>) /\ mem.obj[x].kind = "closure"
  BY DEF ApplyFinalHeld, Step, Holds
<1>2. /\ Good(mem, held, lost, <<>>, NoCall, Nothing)
      /\ x \in Allocated(mem) /\ x \in Ids /\ c = Ref(x) /\ held[x] > 0
  BY <1>1, ValuesKnown
<1>3. mem.obj[x].count = 1
  BY DEF ApplyFinalHeld, IsShared
<1>4. arg \in GoodValues /\ (\A o \in Ids : held[o] >= Count(o, <<arg>>)) /\ arg # c
  <2>1. held[x] = 1
    BY <1>2, <1>3, SoleReference
  <2> QED BY <1>1, <2>1, OwnedPair
<1> HIDE DEF x
<1>5. CASE Completes(mem, c)
  <2>1. Step(Free(mem, c), Plus(Minus(held, <<c>>), Args(mem, c)))
    BY <1>5 DEF ApplyFinalHeld, ApplyFinal
  <2>2. Good(Free(mem, c), Plus(Minus(held, <<c>>), Args(mem, c)), lost, <<>>, NoCall, Nothing)
    BY <1>1, <1>2, <1>3, FinalKeeps
  <2> QED BY <2>1, <2>2, StepIs
<1>6. CASE ~Completes(mem, c)
  <2>1. Step(Push(mem, c, arg), Minus(held, <<arg>>))
    BY <1>6 DEF ApplyFinalHeld, ApplyFinal
  <2>2. Good(Push(mem, c, arg), Minus(held, <<arg>>), lost, <<>>, NoCall, Nothing)
    BY <1>1, <1>2, <1>3, <1>4, FinalPushKeeps
  <2> QED BY <2>1, <2>2, StepIs
<1> QED BY <1>5, <1>6

-----------------------------------------------------------------------------
(***************************************************************************)
(* The theorems.                                                           *)
(***************************************************************************)
LEMMA RefInitHolds == RefInit => RefInv
<1> SUFFICES ASSUME RefInit PROVE RefInv
  OBVIOUS
<1> DEFINE none == [o \in Ids |-> 0]
           empty == [obj |-> <<>>, fault |-> FALSE]
           calm == <<>>
<1>1. mem = empty /\ held = none /\ lost = none /\ frames = calm /\ call = NoCall
  BY DEF RefInit
<1>2. none \in [Ids -> Nat] /\ \A o \in Ids : none[o] = 0
  OBVIOUS
<1>3. empty.obj = <<>> /\ empty.fault = FALSE /\ Allocated(empty) = {}
  BY DEF Allocated
<1>4. empty \in Memories
  <2>1. <<>> \in [{} -> GoodObjects]
    OBVIOUS
  <2>2. empty.obj \in UNION {[S -> GoodObjects] : S \in SUBSET Ids}
    BY <1>3, <2>1
  <2> QED BY <1>3, <2>2 DEF Memories
<1>5. calm \in GoodFrames /\ DOMAIN calm = {}
  BY EmptySeq DEF GoodFrames
<1>6. NoCall \in GoodCalls
  BY NothingIsNumber DEF NoCall, GoodCalls
<1> HIDE DEF none, empty, calm
<1>7. ASSUME NEW o \in Ids
      PROVE  /\ Cardinality(Referrers(empty, calm, NoCall, o)) = 0
             /\ Count(o, <<NoCall.val>>) = 0 /\ Count(o, <<Nothing>>) = 0
  <2>1. Referrers(empty, calm, NoCall, o) = {}
    BY <1>3 DEF Referrers
  <2>2. Count(o, <<NoCall.val>>) = 0 /\ Count(o, <<Nothing>>) = 0
    BY NothingIsNumber, AtRest, CountOne
  <2> QED BY <2>1, <2>2, FS_EmptySet
<1>8. Typed(empty, none, none, calm, NoCall, Nothing)
  BY <1>2, <1>3, <1>4, <1>5, <1>6, NothingIsNumber DEF Typed
<1>9. FramesOK(empty, calm) /\ Alive(empty, calm) /\ Shapes(empty)
  BY <1>3, <1>5 DEF FramesOK, Alive, Shapes
<1>10. CallOK(empty, calm, NoCall)
  BY AtRest DEF CallOK, NoCall
<1>11. Balanced(empty, none, none, calm, NoCall, Nothing)
  <2> SUFFICES ASSUME NEW o \in Ids PROVE Due(empty, none, none, calm, NoCall, Nothing, o) = 0
    BY <1>3 DEF Balanced
  <2> DEFINE d == Cardinality(Referrers(empty, calm, NoCall, o))
             y == Count(o, <<NoCall.val>>)
             z == Count(o, <<Nothing>>)
  <2>1. Due(empty, none, none, calm, NoCall, Nothing, o) = none[o] + none[o] + d + y + z
    BY DEF Due
  <2>2. none[o] = 0 /\ d = 0 /\ y = 0 /\ z = 0
    BY <1>2, <1>7
  <2> HIDE DEF d, y, z
  <2> QED BY <2>1, <2>2
<1>12. Ranked(empty, calm, NoCall, Nothing, none)
  <2>1. \A p, i, q : ~Refers(empty, calm, NoCall, p, i, q)
    BY <1>3 DEF Refers
  <2> QED BY <2>1, AtRest, NothingIsNumber DEF Ranked
<1>13. Good(mem, held, lost, frames, call, Nothing)
  BY <1>1, <1>2, <1>8, <1>9, <1>10, <1>11, <1>12 DEF Good
<1>14. Within
  <2> SUFFICES ASSUME NEW o \in Ids PROVE References(o) <= MaxRefs
    BY DEF Within
  <2>1. References(o) = 0
    BY <1>1, <1>2, <1>7 DEF References
  <2> QED BY <2>1, CountLimit
<1> QED BY <1>13, <1>14 DEF RefInv

LEMMA RefNextKeeps ==
  ASSUME RefInv, ~Cycles, RefNext
  PROVE  RefInv'
<1>1. Within'
  BY DEF RefNext, Within
<1>2. Good(mem, held, lost, frames, call, Nothing)'
  <2>1. CASE \E kind \in Leaves : CreateLeaf(kind)
    BY <2>1, CreateLeafKeeps
  <2>2. CASE \E v \in Vals : CreateSv(v) \/ CreateAdt(v)
    BY <2>2, CreateSvKeeps, CreateAdtKeeps
  <2>3. CASE \E cap \in Caps : CreateClosure(cap)
    BY <2>3, CreateClosureKeeps
  <2>4. CASE \E v \in Holding : DupHeld(v) \/ DropHeld(v) \/ DupField(v)
    BY <1>1, <2>4, DupHeldKeeps, DropHeldKeeps, DupFieldKeeps
  <2>5. CASE \E var \in Holding, val \in Borrowed : AssignSv(var, val) \/ LaterSv(var, val)
    BY <2>5, AssignKeeps, LaterKeeps
  <2>6. CASE \E o \in Ids : UpdateSv(o)
    BY <2>6, UpdateKeeps
  <2>7. CASE DropNext
    BY <2>7, DropNextKeeps
  <2>8. CASE Finish
    BY <2>8, FinishKeeps
  <2>9. CASE \E c \in Holding, arg \in Vals : ApplyHeld(c, arg) \/ ApplyFinalHeld(c, arg)
    BY <1>1, <2>9, ApplyHeldKeeps, ApplyFinalHeldKeeps
  <2> QED BY <2>1, <2>2, <2>3, <2>4, <2>5, <2>6, <2>7, <2>8, <2>9 DEF RefNext
<1> QED BY <1>1, <1>2 DEF RefInv

LEMMA StutterKeeps == RefInv /\ UNCHANGED refVars => RefInv'
BY DEF RefInv, Within, References, refVars

\* In every state, also in the middle of a call, an object's count is the number
\* of the references to it.
LEMMA CountsFollow == RefInv => CountsAreReferences
<1> SUFFICES ASSUME RefInv, NEW o \in Allocated(mem) PROVE mem.obj[o].count = References(o)
  BY DEF CountsAreReferences
<1>1. /\ Typed(mem, held, lost, frames, call, Nothing)
      /\ Balanced(mem, held, lost, frames, call, Nothing)
  BY DEF RefInv, Good
<1>2. o \in Ids
  BY <1>1, MemoryIs DEF Typed
<1>3. /\ held[o] \in Nat /\ lost[o] \in Nat
      /\ Cardinality(Referrers(mem, frames, call, o)) \in Nat
      /\ Count(o, <<call.val>>) \in Nat /\ Count(o, <<Nothing>>) = 0
  BY <1>1, <1>2, Summands, NothingIsNumber, CountOne
<1>4. References(o) + Count(o, <<Nothing>>) = mem.obj[o].count
  BY <1>1, <1>2 DEF Balanced, Due, References
<1> QED BY <1>3, <1>4 DEF References

LEMMA TypesFollow == RefInv => RefTypeOK
<1> SUFFICES ASSUME RefInv PROVE RefTypeOK
  OBVIOUS
<1>1. Typed(mem, held, lost, frames, call, Nothing)
  BY DEF RefInv, Good
<1>2. Allocated(mem) \subseteq Ids /\ held \in [Ids -> Nat] /\ lost \in [Ids -> Nat]
  BY <1>1, MemoryIs DEF Typed
<1>3. ASSUME NEW o \in Ids
      PROVE  held[o] \in 0..MaxRefs /\ References(o) \in 0..MaxRefs
  <2> DEFINE x == held[o]
             y == lost[o]
             d == Cardinality(Referrers(mem, frames, call, o))
             z == Count(o, <<call.val>>)
  <2>1. x \in Nat /\ y \in Nat /\ d \in Nat /\ z \in Nat
    <3>1. x \in Nat /\ y \in Nat /\ d \in Nat
      BY <1>1, Summands
    <3>2. z = IF call.val = Ref(o) THEN 1 ELSE 0
      BY CountOne
    <3> HIDE DEF x, y, d, z
    <3> QED BY <3>1, <3>2
  <2>2. References(o) = x + y + d + z /\ References(o) <= MaxRefs /\ MaxRefs \in Nat
    BY CountLimit DEF References, RefInv, Within
  <2> HIDE DEF x, y, d, z
  <2>3. x \in 0..MaxRefs /\ x + y + d + z \in 0..MaxRefs
    BY <2>1, <2>2
  <2> QED BY <2>2, <2>3 DEF x
<1>4. held \in [Ids -> 0..MaxRefs]
  BY <1>2, <1>3
<1>5. \A o \in Allocated(mem) : mem.obj[o].count \in 0..MaxRefs
  BY <1>2, <1>3, CountsFollow DEF CountsAreReferences
<1> QED BY <1>2, <1>4, <1>5 DEF RefTypeOK

\* The memory has objects of the program's addresses, and no count exceeds the
\* bound on the references: none wraps.
THEOREM RefTypeCorrect == ASSUME ~Cycles PROVE RefSpec => []RefTypeOK
<1>1. RefInit => RefInv
  BY RefInitHolds
<1>2. RefInv /\ [RefNext]_refVars => RefInv'
  BY RefNextKeeps, StutterKeeps
<1>3. RefInv => RefTypeOK
  BY TypesFollow
<1> QED BY <1>1, <1>2, <1>3, PTL DEF RefSpec

\* In the middle of calls too, an object's count is the number of references to it.
THEOREM Counted == ASSUME ~Cycles PROVE RefSpec => []CountsAreReferences
<1>1. RefInit => RefInv
  BY RefInitHolds
<1>2. RefInv /\ [RefNext]_refVars => RefInv'
  BY RefNextKeeps, StutterKeeps
<1>3. RefInv => CountsAreReferences
  BY CountsFollow
<1> QED BY <1>1, <1>2, <1>3, PTL DEF RefSpec

\* Nothing that ssm_mem_free has got is read, counted, written or freed again.
THEOREM FreedMemory == ASSUME ~Cycles PROVE RefSpec => []NoFreedMemoryUsed
<1>1. RefInit => RefInv
  BY RefInitHolds
<1>2. RefInv /\ [RefNext]_refVars => RefInv'
  BY RefNextKeeps, StutterKeeps
<1>3. RefInv => NoFreedMemoryUsed
  BY DEF RefInv, Good, Typed, NoFreedMemoryUsed
<1> QED BY <1>1, <1>2, <1>3, PTL DEF RefSpec

-----------------------------------------------------------------------------
(***************************************************************************)
(* What is seen of the objects, and what of them is within reach.          *)
(***************************************************************************)
\* What is seen of an object.
Look(m, p) == [i \in Places(m, p) |-> Name(At(m, p, i))]

LEMMA SeenIs ==
  ASSUME NEW m
  PROVE  /\ DOMAIN Contents(m) = Allocated(m)
         /\ \A p \in Allocated(m) : Contents(m)[p] = Look(m, p)
         /\ Contents(m) = [p \in Allocated(m) |-> Contents(m)[p]]
BY DEF Contents, Look

\* The references of store t, from roots r on, lead to all of D and to no others.
Spanned(D, t, r) ==
  /\ Promised!Held(r) \subseteq D
  /\ \A p \in D : Promised!Refs(t, p) \subseteq D
  /\ \A S \in SUBSET Ids :
       Promised!Held(r) \subseteq S /\ (\A p \in S \cap D : Promised!Refs(t, p) \subseteq S)
         => D \subseteq S

\* Then what a collection of a store with more objects leaves is D.
LEMMA CollectedIs ==
  ASSUME NEW D \in SUBSET Ids, NEW t, t = [p \in D |-> t[p]], NEW u,
         \A p \in D : p \in DOMAIN u /\ t[p] = u[p],
         NEW r, Spanned(D, t, r)
  PROVE  t = Promised!Collected(u, r)
<1>0. /\ Promised!Held(r) \subseteq D
      /\ \A p \in D : Promised!Refs(t, p) \subseteq D
      /\ \A S \in SUBSET Ids :
           Promised!Held(r) \subseteq S /\ (\A p \in S \cap D : Promised!Refs(t, p) \subseteq S)
             => D \subseteq S
  BY DEF Spanned
<1> DEFINE from == Promised!Held(r)
           edges == UNION {{p} \X Promised!Refs(u, p) : p \in DOMAIN u}
           closed == {S \in SUBSET Ids :
                        from \subseteq S /\ \A e \in edges : e[1] \in S => e[2] \in S}
           reach == {o \in Ids : \A S \in closed : o \in S}
<1>1. Promised!Collected(u, r) = [o \in DOMAIN u \cap reach |-> u[o]]
  BY DEF Promised!Collected, Promised!ReachableIn
<1>2. \A p \in D : Promised!Refs(u, p) = Promised!Refs(t, p)
  BY DEF Promised!Refs
<1>3. \A e \in edges : e[1] \in DOMAIN u /\ e[2] \in Promised!Refs(u, e[1])
  OBVIOUS
<1>4. \A p \in DOMAIN u : \A q \in Promised!Refs(u, p) : <<p, q>> \in edges
  OBVIOUS
<1> HIDE DEF edges
<1>5. D \in closed
  BY <1>0, <1>2, <1>3
<1>6. \A S \in closed : D \subseteq S
  <2> SUFFICES ASSUME NEW S \in closed PROVE D \subseteq S
    OBVIOUS
  <2>1. \A p \in S \cap D : Promised!Refs(t, p) \subseteq S
    <3> SUFFICES ASSUME NEW p \in S \cap D, NEW q \in Promised!Refs(t, p) PROVE q \in S
      OBVIOUS
    <3> DEFINE e == <<p, q>>
    <3>1. e \in edges /\ e[1] = p /\ e[2] = q
      BY <1>2, <1>4
    <3> HIDE DEF e
    <3> QED BY <3>1
  <2> QED BY <1>0, <2>1
<1> HIDE DEF closed
<1>7. DOMAIN u \cap reach = D
  BY <1>5, <1>6
<1> HIDE DEF reach
<1>8. [o \in D |-> u[o]] = [o \in D |-> t[o]]
  OBVIOUS
<1> QED BY <1>1, <1>7, <1>8

\* The references that are seen are those that count.
LEMMA SeenReferences ==
  ASSUME NEW m, NEW h, NEW l, Good(m, h, l, <<>>, NoCall, Nothing),
         NEW p \in Allocated(m), NEW q \in Ids
  PROVE  q \in Promised!Refs(Contents(m), p) <=>
           \E i \in Nat : Refers(m, <<>>, NoCall, p, i, q)
<1>1. /\ m \in Memories
      /\ \A i \in Places(m, p) : At(m, p, i) \in GoodValues
      /\ Places(m, p) \subseteq Nat
  BY MemoryIs DEF Good, Typed, Places
<1>2. q \notin {0}
  BY DEF Ids
<1>3. \A i \in Places(m, p) : Name(At(m, p, i)) = q <=> At(m, p, i) = Ref(q)
  BY <1>1, <1>2, RefIs DEF Name
<1>4. /\ DOMAIN Contents(m)[p] = Places(m, p)
      /\ \A i \in Places(m, p) : Contents(m)[p][i] = Name(At(m, p, i))
  <2>1. Contents(m)[p] = [i \in Places(m, p) |-> Name(At(m, p, i))]
    BY SeenIs, Zenon DEF Look
  <2> QED BY <2>1
<1>5. q \in Promised!Refs(Contents(m), p) <=> \E i \in Places(m, p) : Name(At(m, p, i)) = q
  BY <1>4 DEF Promised!Refs
<1> QED BY <1>1, <1>3, <1>5, AtRest DEF Refers

\* Numbers for 1 to n have a bound.
LEMMA Limited ==
  ASSUME NEW N \in Nat, NEW f \in [1..N -> Nat]
  PROVE  \E top \in Nat : \A i \in 1..N : f[i] <= top
<1> DEFINE Below(n) == \E top \in Nat : \A i \in 1..n : f[i] <= top
           T == {n \in 0..N : ~Below(n)}
<1>0. Below(0)
  OBVIOUS
<1>1. ASSUME T # {} PROVE FALSE
  <2> HIDE DEF Below
  <2>0. T \in SUBSET Nat
    OBVIOUS
  <2>1. PICK n \in T : \A k \in T : n <= k
    BY <1>1, <2>0, NatMin
  <2>2. n # 0
    BY <1>0, <2>1
  <2>3. n - 1 \in 0..N /\ n \in 1..N
    BY <2>1, <2>2
  <2> DEFINE b == n - 1
  <2>9. b \in 0..N /\ b < n /\ n \in Nat
    BY <2>3
  <2>10. Below(b)
    <3> HIDE DEF b
    <3>1. b \notin T
      BY <2>1, <2>9
    <3> QED BY <2>9, <3>1
  <2> USE DEF Below
  <2>4. PICK top \in Nat : \A i \in 1..(n - 1) : f[i] <= top
    BY <2>10 DEF b
  <2>5. f[n] \in Nat
    BY <2>3
  <2>6. \A i \in 1..n : f[i] <= top + f[n]
    <3> SUFFICES ASSUME NEW i \in 1..n PROVE f[i] <= top + f[n]
      OBVIOUS
    <3>1. i \in 1..N /\ f[i] \in Nat
      BY <2>3
    <3>2. CASE i = n
      BY <2>5, <3>2
    <3>3. CASE i # n
      <4>1. i \in 1..(n - 1)
        BY <2>3, <3>3
      <4>2. f[i] <= top
        BY <2>4, <4>1
      <4> QED BY <2>5, <3>1, <4>2
    <3> QED BY <3>2, <3>3
  <2>7. top + f[n] \in Nat
    BY <2>5
  <2>8. Below(n)
    BY <2>6, <2>7
  <2> QED BY <2>1, <2>8
<1>2. N \in 0..N
  OBVIOUS
<1> QED BY <1>1, <1>2

\* Between calls all objects are within reach of what is held: an object out of
\* reach with the greatest rank would be referred to from one with a greater one.
LEMMA AllReached ==
  ASSUME NEW m, NEW h, NEW l, Good(m, h, l, <<>>, NoCall, Nothing),
         NEW S \in SUBSET Ids,
         \A o \in Ids : h[o] + l[o] > 0 => o \in S,
         \A p \in S \cap Allocated(m) : Promised!Refs(Contents(m), p) \subseteq S
  PROVE  Allocated(m) \subseteq S
<1> DEFINE left == Allocated(m) \ S
<1>1. Allocated(m) \subseteq Ids
  BY MemoryIs DEF Good, Typed
<1>2. PICK rank \in [Ids -> Nat] : Ranked(m, <<>>, NoCall, Nothing, rank)
  BY DEF Good
<1>3. PICK top \in Nat : \A o \in Ids : rank[o] <= top
  BY <1>2, Limited, RefCountAssumption DEF Ids
<1>4. ASSUME left # {} PROVE FALSE
  <2> DEFINE T == {top - rank[o] : o \in left}
  <2>1. T \in SUBSET Nat /\ T # {}
    BY <1>1, <1>3, <1>4
  <2>2. PICK d \in T : \A e \in T : d <= e
    BY <2>1, NatMin
  <2>3. PICK x \in left : d = top - rank[x]
    BY <2>2
  <2>4. \A o \in left : rank[o] <= rank[x]
    <3> SUFFICES ASSUME NEW o \in left PROVE rank[o] <= rank[x]
      OBVIOUS
    <3>1. top - rank[x] <= top - rank[o]
      BY <2>2, <2>3
    <3>2. rank[x] \in Nat /\ rank[o] \in Nat
      BY <1>1
    <3> QED BY <3>1, <3>2
  <2>5. x \in Ids /\ x \in Allocated(m) /\ x \notin S
    BY <1>1
  <2>6. Cardinality(Referrers(m, <<>>, NoCall, x)) # 0
    <3> DEFINE ho == h[x]
               lo == l[x]
               n == Cardinality(Referrers(m, <<>>, NoCall, x))
               c == m.obj[x].count
    <3>1. ho \in Nat /\ lo \in Nat /\ n \in Nat /\ c \in Nat \ {0} /\ ho + lo + n = c
      BY <2>5, RestBalance
    <3>2. ~(ho + lo > 0)
      BY <2>5
    <3> HIDE DEF ho, lo, n, c
    <3>3. n # 0
      BY ONLY <3>1, <3>2
    <3> QED BY <3>3 DEF n
  <2>7. Referrers(m, <<>>, NoCall, x) # {}
    BY <2>6, FS_EmptySet
  <2>8. PICK p, i : Refers(m, <<>>, NoCall, p, i, x)
    BY <2>7, ReferrersAre
  <2>9. p \in Allocated(m) /\ p \in Ids /\ i \in Nat
    <3>1. p \in Allocated(m) /\ i \in Places(m, p)
      BY <2>8 DEF Refers
    <3> QED BY <1>1, <3>1 DEF Places
  <2>10. x \in Promised!Refs(Contents(m), p)
    BY <2>5, <2>8, <2>9, SeenReferences
  <2>11. p \in left
    BY <2>5, <2>9, <2>10
  <2>12. rank[x] < rank[p]
    BY <1>2, <2>5, <2>8, <2>9 DEF Ranked
  <2>13. rank[x] \in Nat /\ rank[p] \in Nat /\ rank[p] <= rank[x]
    BY <2>4, <2>5, <2>9, <2>11
  <2> QED BY <2>12, <2>13
<1> QED BY <1>4

Roots(h, l) == [o \in Ids |-> h[o] + l[o]]

\* Between calls the references lead to all objects that there are, and to no others.
LEMMA Reached ==
  ASSUME NEW m, NEW h, NEW l, Good(m, h, l, <<>>, NoCall, Nothing)
  PROVE  /\ Spanned(Allocated(m), Contents(m), Roots(h, l))
         /\ \A p \in Allocated(m) : p \notin Promised!Refs(Contents(m), p)
<1> DEFINE t == Contents(m)
           r == Roots(h, l)
<1>1. Promised!Held(r) = {o \in Ids : h[o] + l[o] > 0}
  BY DEF Promised!Held, Roots
<1>2. Promised!Held(r) \subseteq Allocated(m)
  <2> SUFFICES ASSUME NEW o \in Ids, h[o] + l[o] > 0, o \notin Allocated(m) PROVE FALSE
    BY <1>1
  <2> DEFINE ho == h[o]
             lo == l[o]
             n == Cardinality(Referrers(m, <<>>, NoCall, o))
  <2>1. ho \in Nat /\ lo \in Nat /\ n \in Nat /\ ho + lo + n = 0 /\ ho + lo > 0
    BY RestBalance
  <2> HIDE DEF ho, lo, n
  <2> QED BY ONLY <2>1
<1>3. ASSUME NEW p \in Allocated(m), NEW q \in Promised!Refs(t, p)
      PROVE  q \in Allocated(m) /\ q # p
  <2>1. Promised!Refs(t, p) \subseteq Ids
    BY DEF Promised!Refs
  <2>2. q \in Ids
    BY <1>3, <2>1
  <2>3. PICK i \in Nat : Refers(m, <<>>, NoCall, p, i, q)
    BY <1>3, <2>2, SeenReferences
  <2>4. /\ Typed(m, h, l, <<>>, NoCall, Nothing)
        /\ Balanced(m, h, l, <<>>, NoCall, Nothing)
    BY DEF Good
  <2>5. q \in Allocated(m)
    BY <2>2, <2>3, <2>4, Present
  <2>6. PICK rank \in [Ids -> Nat] : Ranked(m, <<>>, NoCall, Nothing, rank)
    BY DEF Good
  <2>7. p \in Ids
    BY <2>4, MemoryIs DEF Typed
  <2>8. rank[q] < rank[p] /\ rank[q] \in Nat /\ rank[p] \in Nat
    BY <2>2, <2>3, <2>6, <2>7 DEF Ranked
  <2> QED BY <2>5, <2>8
<1>4. ASSUME NEW S \in SUBSET Ids, Promised!Held(r) \subseteq S,
             \A p \in S \cap Allocated(m) : Promised!Refs(t, p) \subseteq S
      PROVE  Allocated(m) \subseteq S
  <2>1. \A o \in Ids : h[o] + l[o] > 0 => o \in S
    BY <1>1, <1>4
  <2> QED BY <1>4, <2>1, AllReached
<1> HIDE DEF t, r
<1>5. \A p \in Allocated(m) :
        Promised!Refs(t, p) \subseteq Allocated(m) /\ p \notin Promised!Refs(t, p)
  BY <1>3
<1>6. \A S \in SUBSET Ids :
        /\ Promised!Held(r) \subseteq S
        /\ \A p \in S \cap Allocated(m) : Promised!Refs(t, p) \subseteq S
        => Allocated(m) \subseteq S
  BY <1>4
<1> QED BY <1>2, <1>5, <1>6 DEF Spanned, t, r

\* Between calls: if all objects but o are as they were when last no call was running,
\* a collection is all that has happened to them.
LEMMA Settled ==
  ASSUME NEW m, NEW h, NEW l, Good(m, h, l, <<>>, NoCall, Nothing), NEW s, NEW o,
         \A p \in Allocated(m) : p # o => p \in DOMAIN s /\ Look(m, p) = s[p]
  PROVE  \/ Promised!Collects(s, Contents(m), Roots(h, l))
         \/ o \in Ids /\ Promised!Changes(o, s, Contents(m), Roots(h, l))
<1> DEFINE t == Contents(m)
           r == Roots(h, l)
           D == Allocated(m)
<1>1. /\ DOMAIN t = D /\ D \in SUBSET Ids
      /\ \A p \in D : t[p] = Look(m, p)
      /\ t = [p \in D |-> t[p]]
  <2>1. D \in SUBSET Ids
    BY MemoryIs DEF Good, Typed
  <2> QED BY <2>1, SeenIs
<1>2. Spanned(D, t, r) /\ \A p \in D : p \notin Promised!Refs(t, p)
  BY Reached
<1>3. \A p \in D : p # o => p \in DOMAIN s /\ t[p] = s[p]
  BY <1>1
<1> HIDE DEF t, r, D
<1>4. CASE o \notin D
  <2>1. \A p \in D : p \in DOMAIN s /\ t[p] = s[p]
    BY <1>3, <1>4
  <2>2. t = Promised!Collected(s, r)
    BY <1>1, <1>2, <2>1, CollectedIs
  <2>3. Promised!Held(r) \subseteq DOMAIN s
    BY <1>2, <2>1 DEF Spanned
  <2> QED BY <2>2, <2>3 DEF Promised!Collects, t, r
<1>5. CASE o \in D
  <2> DEFINE u == [p \in DOMAIN s \cup {o} |-> IF p = o THEN t[o] ELSE s[p]]
  <2>1. \A p \in D : p \in DOMAIN u /\ t[p] = u[p]
    BY <1>3
  <2> HIDE DEF u
  <2>2. t = Promised!Collected(u, r)
    BY <1>1, <1>2, <2>1, CollectedIs
  <2>3. \A p \in DOMAIN t \ {o} : p \in DOMAIN s /\ t[p] = s[p]
    BY <1>1, <1>3
  <2>4. Promised!Refs(t, o) \subseteq DOMAIN s
    BY <1>2, <1>3, <1>5 DEF Spanned
  <2>5. Promised!Held(r) \subseteq DOMAIN s \cup {o}
    BY <1>2, <1>3 DEF Spanned
  <2>6. Promised!Changes(o, s, t, r)
    BY <1>1, <1>5, <2>2, <2>3, <2>4, <2>5 DEF Promised!Changes, u
  <2> QED BY <1>1, <1>5, <2>6 DEF t, r
<1> QED BY <1>4, <1>5

-----------------------------------------------------------------------------
(***************************************************************************)
(* What the parts of a call leave of the objects that they do not change. *)
(***************************************************************************)
\* Object p has the same values, and the same pending, in two memories.
Alike(m, n, p) ==
  /\ n.obj[p].vals = m.obj[p].vals
  /\ n.obj[p].later_time = m.obj[p].later_time
  /\ n.obj[p].later_value = m.obj[p].later_value

LEMMA AlikeLooks ==
  ASSUME NEW m, NEW n, NEW p, Alike(m, n, p)
  PROVE  Look(n, p) = Look(m, p)
<1>1. Places(n, p) = Places(m, p)
  BY DEF Alike, Places
<1>2. \A i \in Places(m, p) : Name(At(n, p, i)) = Name(At(m, p, i))
  BY DEF Alike, At, Pending, LaterValue, Ref
<1> QED BY <1>1, <1>2 DEF Look

LEMMA AlikeChain ==
  ASSUME NEW m, NEW n, NEW k, NEW p, Alike(m, n, p), Alike(n, k, p)
  PROVE  Alike(m, k, p)
BY DEF Alike

\* Counting changes nothing that is seen, whatever is counted.
LEMMA DupsAlike ==
  ASSUME NEW m \in Memories, NEW vs
  PROVE  /\ Allocated(Dups(m, vs)) = Allocated(m)
         /\ \A p \in Allocated(m) : Alike(m, Dups(m, vs), p)
<1> DEFINE S == Allocated(m)
           x(o) == (m.obj[o].count + Count(o, vs)) % 2^CountBits
           objs == [o \in S |-> [m.obj[o] EXCEPT !.count = x(o)]]
<1>1. m.obj \in [S -> GoodObjects]
  BY MemoryIs
<1>2. \/ Dups(m, vs) = Fault(m)
      \/ Dups(m, vs) = [m EXCEPT !.obj = objs]
  BY DEF Dups
<1>3. [m EXCEPT !.obj = objs].obj = objs /\ Fault(m).obj = m.obj
  BY DEF Memories, Fault
<1>4. ASSUME NEW p \in S
      PROVE  /\ objs[p].vals = m.obj[p].vals
             /\ objs[p].later_time = m.obj[p].later_time
             /\ objs[p].later_value = m.obj[p].later_value
  <2> DEFINE r == m.obj[p]
             y == x(p)
  <2>1. r \in GoodObjects /\ objs[p] = [r EXCEPT !.count = y]
    BY <1>1
  <2> HIDE DEF r, y
  <2> QED BY <2>1 DEF GoodObjects, r
<1>5. DOMAIN objs = S /\ DOMAIN m.obj = S
  BY DEF Allocated
<1> HIDE DEF objs
<1>6. CASE Dups(m, vs) = Fault(m)
  BY <1>3, <1>5, <1>6 DEF Alike, Allocated
<1>7. CASE Dups(m, vs) = [m EXCEPT !.obj = objs]
  <2>1. Dups(m, vs).obj = objs
    BY <1>3, <1>7
  <2> QED BY <1>4, <1>5, <2>1 DEF Alike, Allocated
<1> QED BY <1>2, <1>6, <1>7

LEMMA AllocAlike ==
  ASSUME NEW m \in Memories, NEW object
  PROVE  \A p \in Allocated(Alloc(m, object)) :
           p # Address(m) => p \in Allocated(m) /\ Alike(m, Alloc(m, object), p)
<1> DEFINE a == Address(m)
           objs == [o \in Allocated(m) \cup {a} |-> IF o = a THEN object ELSE m.obj[o]]
<1>1. Alloc(m, object).obj = objs
  BY DEF Alloc, Memories
<1>2. \A p \in DOMAIN objs : p # a => p \in Allocated(m) /\ objs[p] = m.obj[p]
  OBVIOUS
<1> HIDE DEF objs, a
<1>3. ASSUME NEW p \in Allocated(Alloc(m, object)), p # a
      PROVE  p \in Allocated(m) /\ Alike(m, Alloc(m, object), p)
  BY <1>1, <1>2, <1>3 DEF Allocated, Alike
<1> QED BY <1>3 DEF a

\* A drop changes only what can be seen of an object that it begins to free.
LEMMA DropAlike ==
  ASSUME NEW m, NEW h, NEW l, NEW fs, NEW c, NEW v, Good(m, h, l, fs, c, v),
         NEW n, NEW gs, NEW k, Drops(m, v, fs, l, n, gs, k)
  PROVE  /\ Allocated(n) = Allocated(m)
         /\ \A p \in Allocated(m) :
              (\A j \in DOMAIN gs : gs[j].o # p) =>
                Alike(m, n, p) /\ \A j \in DOMAIN fs : fs[j].o # p
<1>1. m \in Memories /\ fs \in GoodFrames /\ v \in GoodValues
  BY DEF Good, Typed
<1>2. ASSUME OnHeap(v)
      PROVE  /\ Live(m, v) /\ Release(m, v) \in Memories
             /\ SameContents(m, Release(m, v))
  <2>1. Live(m, v) /\ m.obj[v.n].count \in Nat \ {0}
    BY <1>2, ToDrop
  <2> QED BY <1>1, <1>2, <2>1, ReleaseIs
<1>3. CASE ~Dies(m, v)
  <2>1. n = Release(m, v) /\ gs = fs
    BY <1>3 DEF Drops
  <2>2. ~OnHeap(v) => Release(m, v) = m
    BY DEF Release
  <2> QED BY <1>2, <2>1, <2>2 DEF SameContents, Alike
<1>4. CASE Dies(m, v)
  <2> DEFINE r == Release(m, v)
  <2>1. n = Unschedule(r, v) /\ gs = Append(fs, [o |-> v.n, i |-> 1]) /\ OnHeap(v)
    BY <1>4 DEF Drops, Dies
  <2>2. r \in Memories /\ SameContents(m, r) /\ v.n \in Allocated(m)
    BY <1>2, <2>1 DEF Live
  <2> HIDE DEF r
  <2>3. v.n \in Allocated(r) /\ Allocated(r) = Allocated(m)
    BY <2>2 DEF SameContents
  <2>4. /\ Allocated(n) = Allocated(m)
        /\ \A p \in Allocated(m) : p # v.n => Alike(m, n, p)
    BY <2>1, <2>2, <2>3, UnscheduleIs DEF SameContents, Alike
  <2>5. /\ Len(fs) \in Nat /\ DOMAIN fs = 1..Len(fs)
        /\ DOMAIN gs = 1..(Len(fs) + 1)
        /\ \A j \in DOMAIN fs : gs[j] = fs[j]
        /\ gs[Len(fs) + 1].o = v.n
    BY <1>1, <2>1 DEF GoodFrames
  <2>6. Len(fs) + 1 \in DOMAIN gs /\ DOMAIN fs \subseteq DOMAIN gs
    BY <2>5
  <2> QED BY <2>4, <2>5, <2>6
<1> QED BY <1>3, <1>4

-----------------------------------------------------------------------------
(***************************************************************************)
(* The steps: of what is not being freed, nor a call's variable, a step    *)
(* changes one object at most, and that only where a call ends.            *)
(***************************************************************************)
\* Is object p being freed, or the variable of a call?
Touched(fs, c, p) == (\E k \in DOMAIN fs : fs[k].o = p) \/ (c.op # "none" /\ c.var.n = p)

\* All other objects are as they were in store s.
Kept(m, fs, c, s) ==
  \A p \in Allocated(m) : p \in DOMAIN s /\ (~Touched(fs, c, p) => Look(m, p) = s[p])

\* What of m is in n and not touched there was so, and not touched, in m.
Unmoved(m, fs, c, n, gs, d, p) ==
  p \in Allocated(m) /\ (~Touched(gs, d, p) => ~Touched(fs, c, p) /\ Alike(m, n, p))

UnmovedBut(m, fs, c, n, gs, d, o) ==
  \A p \in Allocated(n) : p # o => Unmoved(m, fs, c, n, gs, d, p)

Steady(m, fs, c, n, gs, d) ==
  \A p \in Allocated(n) : Unmoved(m, fs, c, n, gs, d, p)

\* A step changes what is seen of one object at most, and then it ends a call.
Moves ==
  \/ Steady(mem, frames, call, mem', frames', call')
  \/ Idle' /\ \E o : UnmovedBut(mem, frames, call, mem', frames', call', o)

LEMMA RestTouches == \A p : ~Touched(<<>>, NoCall, p)
<1>1. DOMAIN <<>> = {} /\ NoCall.op = "none"
  BY DEF NoCall
<1> QED BY <1>1 DEF Touched

LEMMA StepMoves ==
  ASSUME NEW m, NEW h, Step(m, h), NEW o,
         \A p \in Allocated(m) : p # o => p \in Allocated(mem) /\ Alike(mem, m, p)
  PROVE  Moves
<1>1. /\ frames = <<>> /\ call = NoCall /\ frames' = <<>> /\ call' = NoCall /\ mem' = m
  BY DEF Step, Idle
<1>2. UnmovedBut(mem, <<>>, NoCall, m, <<>>, NoCall, o)
  BY RestTouches DEF UnmovedBut, Unmoved
<1>3. Idle'
  BY <1>1 DEF Idle
<1>4. UnmovedBut(mem, frames, call, mem', frames', call', o)
  BY <1>1, <1>2, Zenon
<1> QED BY <1>3, <1>4 DEF Moves

LEMMA CreateMoves ==
  ASSUME RefInv, NEW object, NEW vs, Creates(Alloc(mem, object), vs)
  PROVE  Moves
<1>1. mem \in Memories
  BY DEF RefInv, Good, Typed
<1> DEFINE h == Plus(Minus(held, vs), <<Ref(Address(mem))>>)
           n == Alloc(mem, object)
           a == Address(mem)
<1>2. Step(n, h)
  BY DEF Creates
<1>3. \A p \in Allocated(n) : p # a => p \in Allocated(mem) /\ Alike(mem, n, p)
  BY <1>1, AllocAlike
<1> HIDE DEF n, h, a
<1> QED BY <1>2, <1>3, StepMoves

LEMMA DupsMove ==
  ASSUME RefInv, NEW vs, NEW h, Step(Dups(mem, vs), h)
  PROVE  Moves
<1> DEFINE n == Dups(mem, vs)
<1>1. mem \in Memories
  BY DEF RefInv, Good, Typed
<1>2. Allocated(n) = Allocated(mem) /\ \A p \in Allocated(mem) : Alike(mem, n, p)
  BY <1>1, DupsAlike
<1>3. Step(n, h)
  OBVIOUS
<1> HIDE DEF n
<1>4. \A p \in Allocated(n) : p # 0 => p \in Allocated(mem) /\ Alike(mem, n, p)
  BY <1>2
<1> QED BY <1>3, <1>4, StepMoves

\* A value is dropped, when memory n and frames gs were as m and fs for all objects
\* but the call's variable.
LEMMA DropMoves ==
  ASSUME NEW fs, NEW c, NEW n, NEW gs, NEW d, NEW v, NEW h, Good(n, h, lost, gs, d, v),
         Drop(n, v, gs), fs = frames, c = call, d = call',
         Allocated(n) = Allocated(mem),
         \A p \in Allocated(mem) : ~Touched(gs, d, p) => ~Touched(fs, c, p) /\ Alike(mem, n, p)
  PROVE  Moves
<1>1. Drops(n, v, gs, lost, mem', frames', lost')
  BY DEF Drop, Drops
<1>2. /\ Allocated(mem') = Allocated(n)
      /\ \A p \in Allocated(n) :
           (\A j \in DOMAIN frames' : frames'[j].o # p) =>
             Alike(n, mem', p) /\ \A j \in DOMAIN gs : gs[j].o # p
  BY <1>1, DropAlike
<1>3. ASSUME NEW p \in Allocated(mem')
      PROVE  Unmoved(mem, fs, c, mem', frames', d, p)
  <2>1. p \in Allocated(mem) /\ p \in Allocated(n)
    BY <1>2
  <2>2. ASSUME ~Touched(frames', d, p)
        PROVE  ~Touched(fs, c, p) /\ Alike(mem, mem', p)
    <3>1. Alike(n, mem', p) /\ ~Touched(gs, d, p)
      BY <1>2, <2>1, <2>2 DEF Touched
    <3>2. ~Touched(fs, c, p) /\ Alike(mem, n, p)
      BY <2>1, <3>1
    <3> QED BY <3>1, <3>2, AlikeChain
  <2> QED BY <2>1, <2>2 DEF Unmoved
<1>4. Steady(mem, fs, c, mem', frames', d)
  BY <1>3 DEF Steady
<1> QED BY <1>4 DEF Moves

LEMMA AlikeSelf == ASSUME NEW m, NEW p PROVE Alike(m, m, p)
BY DEF Alike

LEMMA DropHeldMoves ==
  ASSUME RefInv, NEW v \in Holding, DropHeld(v)
  PROVE  Moves
<1> DEFINE h == Minus(held, <<v>>)
<1>1. Idle /\ Drop(mem, v, <<>>) /\ call' = NoCall /\ frames = <<>> /\ call = NoCall
  BY DEF DropHeld, Idle
<1>2. /\ Good(mem, held, lost, <<>>, NoCall, Nothing)
      /\ v = Ref(v.n) /\ v.n \in Ids /\ held[v.n] > 0
  BY <1>1, ValuesKnown
<1>3. Good(mem, h, lost, <<>>, NoCall, v)
  BY <1>2, DropBegins
<1>4. \A p \in Allocated(mem) :
        ~Touched(<<>>, NoCall, p) => ~Touched(<<>>, NoCall, p) /\ Alike(mem, mem, p)
  BY AlikeSelf
<1> HIDE DEF h
<1> QED BY <1>1, <1>3, <1>4, DropMoves

LEMMA DropNextMoves ==
  ASSUME RefInv, DropNext
  PROVE  Moves
<1> DEFINE frame  == Last(frames)
           values == Payload(mem, Ref(frame.o))
           rest   == Append(Front(frames), [frame EXCEPT !.i = @ + 1])
           v      == values[frame.i]
<1>1. Good(mem, held, lost, frames, call, Nothing) /\ frames # <<>> /\ call' = call
  BY DEF RefInv, DropNext
<1>2. mem \in Memories /\ frames \in GoodFrames /\ FramesOK(mem, frames)
  BY <1>1 DEF Good, Typed
<1>3. /\ Len(frames) \in Nat \ {0} /\ DOMAIN frames = 1..Len(frames)
      /\ Len(Front(frames)) = Len(frames) - 1
      /\ DOMAIN Front(frames) = 1..(Len(frames) - 1)
      /\ Front(frames) \in GoodFrames
      /\ \A j \in 1..(Len(frames) - 1) : Front(frames)[j] = frames[j]
      /\ Last(frames) = frames[Len(frames)]
      /\ Last(frames) \in [o : Ids, i : Nat \ {0}]
  BY <1>1, <1>2, LastFrame
<1>4. CASE frame.i <= Len(values)
  <2>1. Drop(mem, v, rest)
    BY <1>4 DEF DropNext
  <2>2. Good(mem, held, lost, rest, call, v)
    BY <1>1, <1>4, NextValue
  <2>3. \A p \in Allocated(mem) :
          (\E k \in DOMAIN frames : frames[k].o = p) => \E k \in DOMAIN rest : rest[k].o = p
    <3>1. DOMAIN rest = DOMAIN frames /\ \A k \in DOMAIN frames : rest[k].o = frames[k].o
      BY <1>1, <1>2, FrameGoesOn
    <3> QED BY <3>1
  <2> HIDE DEF rest, v
  <2>4. \A p \in Allocated(mem) :
          ~Touched(rest, call, p) => ~Touched(frames, call, p) /\ Alike(mem, mem, p)
    BY <2>3, AlikeSelf DEF Touched
  <2> QED BY <1>1, <2>1, <2>2, <2>4, DropMoves
<1>5. CASE ~(frame.i <= Len(values))
  <2> DEFINE a == frame.o
             n == Free(mem, Ref(a))
  <2>1. mem' = n /\ frames' = Front(frames)
    BY <1>5 DEF DropNext
  <2>2. a \in Allocated(mem) /\ Ref(a).n = a
    <3>1. Len(frames) \in DOMAIN frames /\ frame = frames[Len(frames)]
      BY <1>3
    <3>2. frames[Len(frames)].o \in Allocated(mem)
      BY <1>2, <3>1 DEF FramesOK
    <3> QED BY <3>1, <3>2 DEF Ref
  <2>3. Allocated(n) = Allocated(mem) \ {a} /\ \A p \in Allocated(n) : n.obj[p] = mem.obj[p]
    BY <1>2, <2>2, FreeIs
  <2>4. \A p : p # a /\ Touched(frames, call, p) => Touched(Front(frames), call, p)
    <3>1. \A k \in DOMAIN frames : k = Len(frames) \/ k \in DOMAIN Front(frames)
      BY <1>3
    <3> QED BY <1>3, <3>1 DEF Touched
  <2> HIDE DEF n, a
  <2>5. Steady(mem, frames, call, n, Front(frames), call)
    BY <2>3, <2>4 DEF Steady, Unmoved, Alike
  <2> QED BY <1>1, <2>1, <2>5, Zenon DEF Moves
<1> QED BY <1>4, <1>5

\* A call begins, with what goes before its drop.
LEMMA CallMoves ==
  ASSUME NEW n, NEW d, NEW v, Good(n, held, lost, <<>>, d, v), Idle, Drop(n, v, <<>>),
         call' = d, Allocated(n) = Allocated(mem), d.op # "none",
         \A p \in Allocated(mem) : p # d.var.n => Alike(mem, n, p)
  PROVE  Moves
<1>1. frames = <<>> /\ call = NoCall
  BY DEF Idle
<1>2. \A p \in Allocated(mem) :
        ~Touched(<<>>, d, p) => ~Touched(<<>>, NoCall, p) /\ Alike(mem, n, p)
  BY RestTouches DEF Touched
<1> QED BY <1>1, <1>2, DropMoves

LEMMA AssignMoves ==
  ASSUME RefInv, ~Cycles, NEW var \in Holding, NEW val \in Borrowed, AssignSv(var, val)
  PROVE  Moves
<1> DEFINE c == [op |-> "assign", var |-> var, val |-> val]
           v == Deref(mem, var)
           n == Dup(mem, val)
<1>1. Idle /\ Fits(var, val) /\ Drop(n, v, <<>>) /\ call' = c
  BY DEF AssignSv, Calls
<1>2. Good(mem, held, lost, <<>>, NoCall, Nothing)
  BY <1>1, ValuesKnown
<1>3. Good(n, held, lost, <<>>, c, v)
  BY <1>1, <1>2, FitsRank, AssignBegins
<1>4. Allocated(n) = Allocated(mem) /\ \A p \in Allocated(mem) : Alike(mem, n, p)
  BY <1>2, DupsAlike DEF Good, Typed, Dup
<1>5. c.op # "none"
  OBVIOUS
<1> HIDE DEF c, v, n
<1> QED BY <1>1, <1>3, <1>4, <1>5, CallMoves

LEMMA LaterMoves ==
  ASSUME RefInv, ~Cycles, NEW var \in Holding, NEW val \in Borrowed, LaterSv(var, val)
  PROVE  Moves
<1> DEFINE c == [op |-> "later", var |-> var, val |-> val]
           v == At(mem, var.n, 0)
           r == Dup(mem, val)
           n == Schedule(r, var, Soon)
<1>1. Idle /\ Fits(var, val) /\ Drop(n, v, <<>>) /\ call' = c
  BY DEF LaterSv, Calls
<1>2. Good(mem, held, lost, <<>>, NoCall, Nothing)
  BY <1>1, ValuesKnown
<1>3. Good(n, held, lost, <<>>, c, v)
  BY <1>1, <1>2, FitsRank, LaterBegins
<1>4. /\ mem \in Memories /\ var.n \in Allocated(mem) /\ val \in GoodValues
      /\ OnHeap(val) => val.n \in Allocated(mem) /\ mem.obj[val.n].count + 1 < 2^CountBits
  BY <1>1, <1>2, FitsRank DEF Good, Typed
<1>5. /\ Allocated(r) = Allocated(mem)
      /\ \A p \in Allocated(mem) : Alike(mem, r, p)
  BY <1>4, DupsAlike DEF Dup
<1>6. r \in Memories
  BY <1>4, DupIs
<1> HIDE DEF r
<1>7. n = WithTime(r, var, Soon)
  BY <1>4, <1>5 DEF Schedule, WithTime, Live
<1>8. /\ Allocated(n) = Allocated(mem)
      /\ \A p \in Allocated(mem) : p # var.n => Alike(r, n, p)
  BY <1>4, <1>5, <1>6, <1>7, TimeIs DEF Alike
<1>9. \A p \in Allocated(mem) : p # var.n => Alike(mem, n, p)
  BY <1>5, <1>8, AlikeChain
<1>10. c.op # "none" /\ c.var = var
  OBVIOUS
<1> HIDE DEF c, v, n
<1> QED BY <1>1, <1>3, <1>8, <1>9, <1>10, CallMoves

LEMMA UpdateMoves ==
  ASSUME RefInv, NEW o \in Ids, UpdateSv(o)
  PROVE  Moves
<1> DEFINE c == [op |-> "update", var |-> Ref(o), val |-> Nothing]
           v == Deref(mem, Ref(o))
<1>1. /\ Idle /\ o \in Allocated(mem) /\ mem.obj[o].kind = "sv" /\ Pending(mem, Ref(o))
      /\ Drop(mem, v, <<>>) /\ call' = c
  BY DEF UpdateSv, Calls
<1>2. Good(mem, held, lost, <<>>, NoCall, Nothing)
  BY <1>1, ValuesKnown
<1>3. Good(mem, held, lost, <<>>, c, v)
  BY <1>1, <1>2, UpdateBegins
<1>4. c.op # "none"
  OBVIOUS
<1> HIDE DEF c, v
<1> QED BY <1>1, <1>3, <1>4, AlikeSelf, CallMoves

\* When a call returns, only its variable is written.
LEMMA FinishMoves ==
  ASSUME RefInv, Finish
  PROVE  Moves
<1> DEFINE x == call.var.n
           n == Finished
<1>1. frames = <<>> /\ call # NoCall /\ mem' = n /\ call' = NoCall /\ frames' = <<>>
  BY DEF Finish
<1>2. Good(mem, held, lost, <<>>, call, Nothing)
  BY <1>1 DEF RefInv
<1>3. call.op # "none"
  BY <1>1, <1>2 DEF Good, CallOK
<1>4. /\ mem \in Memories /\ x \in Allocated(mem) /\ call.val \in GoodValues
      /\ call.op \in {"assign", "later", "update"} /\ call.var = Ref(x)
      /\ Places(mem, x) = {0, 1}
      /\ call.op = "update" => Pending(mem, Ref(x))
  BY <1>2, <1>3, CallVariable
<1>5. Allocated(n) = Allocated(mem) /\ \A p \in Allocated(mem) : p # x => Alike(mem, n, p)
  <2>1. CASE call.op = "assign"
    <3>1. n = WriteValue(mem, call.var, call.val, Never)
      BY <2>1 DEF Finished
    <3> QED BY <1>4, <3>1, WriteIs DEF Alike
  <2>2. CASE call.op = "later"
    <3>1. n = WriteLater(mem, call.var, call.val)
      BY <2>2 DEF Finished
    <3> QED BY <1>4, <3>1, WriteLaterIs DEF Alike
  <2>3. CASE call.op = "update"
    <3> DEFINE w == LaterValue(mem, call.var)
               r == WriteValue(mem, call.var, w, Never)
    <3>1. n = Unschedule(r, call.var)
      BY <1>4, <2>3 DEF Finished, WriteUpdate, Live
    <3>2. w \in GoodValues
      <4>1. At(mem, x, 0) = w
        BY <1>4, <2>3 DEF At
      <4> QED BY <1>4, <4>1, MemoryIs
    <3>3. /\ r \in Memories /\ Allocated(r) = Allocated(mem)
          /\ \A p \in Allocated(mem) : p # x => Alike(mem, r, p)
      BY <1>4, <3>2, WriteIs DEF Alike
    <3> HIDE DEF r
    <3>4. /\ Allocated(n) = Allocated(r)
          /\ \A p \in Allocated(r) : p # x => Alike(r, n, p)
      BY <1>4, <3>1, <3>3, UnscheduleIs DEF Alike
    <3> QED BY <3>3, <3>4, AlikeChain
  <2> QED BY <1>4, <2>1, <2>2, <2>3
<1>6. \A p : p # x => ~Touched(<<>>, call, p)
  BY DEF Touched
<1>7. UnmovedBut(mem, <<>>, call, n, <<>>, NoCall, x)
  BY <1>5, <1>6 DEF UnmovedBut, Unmoved
<1>8. Idle'
  BY <1>1 DEF Idle
<1> HIDE DEF n, x
<1>9. UnmovedBut(mem, frames, call, mem', frames', call', x)
  BY <1>1, <1>7, Zenon
<1> QED BY <1>8, <1>9 DEF Moves

LEMMA ApplyHeldMoves ==
  ASSUME RefInv, NEW c \in Holding, NEW arg \in Vals, ApplyHeld(c, arg)
  PROVE  Moves
<1>1. Idle /\ Owns(<<c, arg>>)
  BY DEF ApplyHeld, Step
<1>2. /\ Good(mem, held, lost, <<>>, NoCall, Nothing)
      /\ c.n \in Allocated(mem) /\ arg \in GoodValues /\ mem \in Memories
  <2>1. Good(mem, held, lost, <<>>, NoCall, Nothing) /\ c.n \in Allocated(mem)
    BY <1>1, ValuesKnown
  <2> QED BY <1>1, <2>1, ValuesKnown DEF Good, Typed
<1>4. CASE Completes(mem, c)
  <2>1. Step(Dups(mem, Args(mem, c)), Plus(held, Args(mem, c)))
    BY <1>4 DEF ApplyHeld, Apply
  <2> QED BY <2>1, DupsMove
<1>5. CASE ~Completes(mem, c)
  <2> DEFINE n == Applied(mem, c, arg)
             h == Plus(Minus(held, <<arg>>), <<Ref(Address(mem))>>)
             a == Address(mem)
  <2>1. Step(n, h) /\ Cardinality(Allocated(mem)) < MaxObjects
    BY <1>5 DEF ApplyHeld, Apply, Applied, Room
  <2>2. Known(mem, Args(mem, c))
    BY <1>2, FieldsKnown DEF Args
  <2>3. Allocated(n) = Allocated(mem) \cup {a} /\ Extended(mem, n)
    BY <1>2, <2>1, <2>2, AppliedIs
  <2> HIDE DEF n, h, a
  <2>4. \A p \in Allocated(n) : p # a => p \in Allocated(mem) /\ Alike(mem, n, p)
    BY <2>3 DEF Extended, Alike
  <2> QED BY <2>1, <2>4, StepMoves
<1> QED BY <1>4, <1>5

LEMMA ApplyFinalHeldMoves ==
  ASSUME RefInv, NEW c \in Holding, NEW arg \in Vals, ApplyFinalHeld(c, arg)
  PROVE  Moves
<1>1. Idle
  BY DEF ApplyFinalHeld, Step
<1>2. c.n \in Allocated(mem) /\ arg \in GoodValues /\ mem \in Memories
  <2>1. Good(mem, held, lost, <<>>, NoCall, Nothing) /\ c.n \in Allocated(mem)
    BY <1>1, ValuesKnown
  <2> QED BY <1>1, <2>1, ValuesKnown DEF Good, Typed
<1>5. CASE Completes(mem, c)
  <2> DEFINE n == Free(mem, c)
             h == Plus(Minus(held, <<c>>), Args(mem, c))
  <2>1. Step(n, h)
    BY <1>5 DEF ApplyFinalHeld, ApplyFinal
  <2>2. \A p \in Allocated(n) : p # c.n => p \in Allocated(mem) /\ Alike(mem, n, p)
    BY <1>2, FreeIs DEF Alike
  <2> HIDE DEF n, h
  <2> QED BY <2>1, <2>2, StepMoves
<1>6. CASE ~Completes(mem, c)
  <2> DEFINE n == Push(mem, c, arg)
             h == Minus(held, <<arg>>)
  <2>1. Step(n, h)
    BY <1>6 DEF ApplyFinalHeld, ApplyFinal
  <2>2. \A p \in Allocated(n) : p # c.n => p \in Allocated(mem) /\ Alike(mem, n, p)
    BY <1>2, PushIs DEF Alike
  <2> HIDE DEF n, h
  <2> QED BY <2>1, <2>2, StepMoves
<1> QED BY <1>5, <1>6

LEMMA NextMoves ==
  ASSUME RefInv, ~Cycles, RefNext
  PROVE  Moves
<1>1. CASE \E kind \in Leaves : CreateLeaf(kind)
  BY <1>1, CreateMoves DEF CreateLeaf, NewLeaf
<1>2. CASE \E v \in Vals : CreateSv(v) \/ CreateAdt(v)
  BY <1>2, CreateMoves DEF CreateSv, NewSv, CreateAdt, NewAdt
<1>3. CASE \E cap \in Caps : CreateClosure(cap)
  BY <1>3, CreateMoves DEF CreateClosure, NewClosure
<1>4. CASE \E v \in Holding : DupHeld(v) \/ DropHeld(v) \/ DupField(v)
  BY <1>4, DupsMove, DropHeldMoves DEF DupHeld, DupField, Dup
<1>5. CASE \E var \in Holding, val \in Borrowed : AssignSv(var, val) \/ LaterSv(var, val)
  BY <1>5, AssignMoves, LaterMoves
<1>6. CASE \E o \in Ids : UpdateSv(o)
  BY <1>6, UpdateMoves
<1>7. CASE DropNext
  BY <1>7, DropNextMoves
<1>8. CASE Finish
  BY <1>8, FinishMoves
<1>9. CASE \E c \in Holding, arg \in Vals : ApplyHeld(c, arg) \/ ApplyFinalHeld(c, arg)
  BY <1>9, ApplyHeldMoves, ApplyFinalHeldMoves
<1> QED BY <1>1, <1>2, <1>3, <1>4, <1>5, <1>6, <1>7, <1>8, <1>9 DEF RefNext

-----------------------------------------------------------------------------
(***************************************************************************)
(* Reference counting collects.                                            *)
(***************************************************************************)
\* What is added to RefInv, so that the end of a call can be compared with its begin.
KeptNow == Kept(mem, frames, call, seen.store)

LEMMA ViewIs == View.store = Contents(mem) /\ View.roots = Roots(held, lost)
BY DEF View, Roots

\* A program starts without objects, and so does a collector.
LEMMA FirstKept == RefInit => KeptNow /\ Promised!Init
<1> SUFFICES ASSUME RefInit PROVE KeptNow /\ Promised!Init
  OBVIOUS
<1>1. mem.obj = <<>> /\ seen = View
  BY DEF RefInit
<1>2. Allocated(mem) = {}
  BY <1>1 DEF Allocated
<1>3. Contents(mem) = <<>>
  BY <1>2 DEF Contents
<1>4. Roots(held, lost) = [o \in Ids |-> 0]
  BY DEF RefInit, Roots
<1> QED BY <1>1, <1>2, <1>3, <1>4, ViewIs DEF KeptNow, Kept, Promised!Init

\* In the middle of a call, what is not touched is as it was when the call began.
LEMMA Between ==
  ASSUME KeptNow, RefNext, ~Idle', Moves
  PROVE  KeptNow' /\ seen' = seen
<1>1. seen' = seen
  BY DEF RefNext
<1>2. Steady(mem, frames, call, mem', frames', call')
  BY DEF Moves
<1>3. ASSUME NEW p \in Allocated(mem')
      PROVE  /\ p \in DOMAIN seen.store
             /\ ~Touched(frames', call', p) => Look(mem', p) = seen.store[p]
  <2>1. Unmoved(mem, frames, call, mem', frames', call', p)
    BY <1>2 DEF Steady
  <2>2. p \in Allocated(mem) /\ p \in DOMAIN seen.store
    BY <2>1 DEF Unmoved, KeptNow, Kept
  <2>3. ASSUME ~Touched(frames', call', p) PROVE Look(mem', p) = seen.store[p]
    <3>1. ~Touched(frames, call, p) /\ Alike(mem, mem', p)
      BY <2>1, <2>3 DEF Unmoved
    <3>2. Look(mem, p) = seen.store[p]
      BY <2>2, <3>1 DEF KeptNow, Kept
    <3> QED BY <3>1, <3>2, AlikeLooks
  <2> QED BY <2>2, <2>3
<1>4. Kept(mem', frames', call', seen.store)
  BY <1>3 DEF Kept
<1> QED BY <1>1, <1>4 DEF KeptNow

\* At the end of a call, all that is seen at once is what the call was to do.
LEMMA AtTheEnd ==
  ASSUME KeptNow, RefNext, Idle', Moves, RefInv'
  PROVE  KeptNow' /\ Promised!Next
<1>1. seen' = View' /\ frames' = <<>> /\ call' = NoCall
  BY DEF RefNext, Idle
<1>2. seen'.store = Contents(mem') /\ seen'.roots = Roots(held', lost')
  BY <1>1 DEF View, Roots
<1>3. Good(mem', held', lost', <<>>, NoCall, Nothing)
  BY <1>1 DEF RefInv
<1>4. PICK o : UnmovedBut(mem, frames, call, mem', frames', call', o)
  BY DEF Moves, Steady, UnmovedBut
<1>5. ASSUME NEW p \in Allocated(mem'), p # o
      PROVE  p \in DOMAIN seen.store /\ Look(mem', p) = seen.store[p]
  <2>1. Unmoved(mem, frames, call, mem', frames', call', p)
    BY <1>4, <1>5 DEF UnmovedBut
  <2>2. ~Touched(frames', call', p)
    BY <1>1, RestTouches
  <2>3. p \in Allocated(mem) /\ ~Touched(frames, call, p) /\ Alike(mem, mem', p)
    BY <2>1, <2>2 DEF Unmoved
  <2>4. p \in DOMAIN seen.store /\ Look(mem, p) = seen.store[p]
    BY <2>3 DEF KeptNow, Kept
  <2> QED BY <2>3, <2>4, AlikeLooks
<1>6. \/ Promised!Collects(seen.store, Contents(mem'), Roots(held', lost'))
      \/ o \in Ids /\ Promised!Changes(o, seen.store, Contents(mem'), Roots(held', lost'))
  BY <1>3, <1>5, Settled
<1>7. Promised!Next
  BY <1>2, <1>6 DEF Promised!Next
<1>8. \A p \in Allocated(mem') : p \in DOMAIN Contents(mem') /\ Look(mem', p) = Contents(mem')[p]
  BY SeenIs
<1>9. Kept(mem', frames', call', Contents(mem'))
  BY <1>8 DEF Kept
<1>10. KeptNow'
  BY <1>2, <1>9 DEF KeptNow
<1> QED BY <1>7, <1>10

LEMMA StepCollects ==
  ASSUME ~Cycles, RefInv, KeptNow, [RefNext]_refVars
  PROVE  /\ RefInv' /\ KeptNow'
         /\ [Promised!Next]_<<seen.store, seen.roots>>
<1>1. CASE UNCHANGED refVars
  <2>1. RefInv'
    BY <1>1, StutterKeeps
  <2>2. mem' = mem /\ frames' = frames /\ call' = call /\ seen' = seen
    BY <1>1 DEF refVars
  <2> QED BY <2>1, <2>2 DEF KeptNow
<1>2. CASE RefNext
  <2>1. RefInv' /\ Moves
    BY <1>2, RefNextKeeps, NextMoves
  <2>2. CASE Idle'
    BY <1>2, <2>1, <2>2, AtTheEnd
  <2>3. CASE ~Idle'
    BY <1>2, <2>1, <2>3, Between
  <2> QED BY <2>2, <2>3
<1> QED BY <1>1, <1>2

\* Every call frees all that it puts out of reach and nothing else, and changes at
\* most one object, its variable or closure or the one it creates.
THEOREM RefImplementation == ASSUME ~Cycles PROVE RefSpec => ImplementsCollector
<1> DEFINE Inv == RefInv /\ KeptNow
<1>1. RefInit => Inv /\ Promised!Init
  BY RefInitHolds, FirstKept
<1>2. Inv /\ [RefNext]_refVars => Inv' /\ [Promised!Next]_<<seen.store, seen.roots>>
  BY StepCollects
<1> HIDE DEF Inv
<1> QED BY <1>1, <1>2, PTL DEF RefSpec, ImplementsCollector, Promised!Spec

-----------------------------------------------------------------------------
(***************************************************************************)
(* Drops end.  Each iteration of the loops of ssm_drop_final, however deep *)
(* in its recursion, frees an object; or it begins to free one, with which *)
(* no drop had begun; or it takes one value of those that the innermost    *)
(* call has still to drop.                                                  *)
(***************************************************************************)
\* The allocated objects that no call of ssm_drop_final is for.
NotDying(m, fs) == Allocated(m) \ {fs[k].o : k \in DOMAIN fs}

\* The values that the innermost call has still to drop.
LeftToDrop(m, fs) == Len(Payload(m, Ref(Last(fs).o))) + 1 - Last(fs).i

ShrinksTo(S, T) == T \subseteq S /\ T # S

DropNears ==
  frames # <<>> =>
    \/ ShrinksTo(Allocated(mem), Allocated(mem'))
    \/ /\ Allocated(mem') = Allocated(mem)
       /\ \/ ShrinksTo(NotDying(mem, frames), NotDying(mem', frames'))
          \/ /\ NotDying(mem', frames') = NotDying(mem, frames)
             /\ frames' # <<>>
             /\ LeftToDrop(mem, frames) \in Nat
             /\ LeftToDrop(mem', frames') \in Nat
             /\ LeftToDrop(mem', frames') < LeftToDrop(mem, frames)

LEMMA DropNextNears ==
  ASSUME RefInv, DropNext
  PROVE  DropNears
<1> DEFINE frame  == Last(frames)
           a      == frame.o
           values == Payload(mem, Ref(a))
           rest   == Append(Front(frames), [frame EXCEPT !.i = @ + 1])
           v      == values[frame.i]
<1>1. Good(mem, held, lost, frames, call, Nothing) /\ frames # <<>>
  BY DEF RefInv, DropNext
<1>2. mem \in Memories /\ frames \in GoodFrames /\ FramesOK(mem, frames)
  BY <1>1 DEF Good, Typed
<1>3. /\ Len(frames) \in Nat \ {0} /\ DOMAIN frames = 1..Len(frames)
      /\ frame = frames[Len(frames)] /\ frame \in [o : Ids, i : Nat \ {0}]
  BY <1>1, <1>2, LastFrame
<1>4. a \in Allocated(mem) /\ Ref(a).n = a
  <2>1. Len(frames) \in DOMAIN frames
    BY <1>3
  <2>2. frames[Len(frames)].o \in Allocated(mem)
    BY <1>2, <2>1 DEF FramesOK
  <2> QED BY <1>3, <2>2 DEF Ref
<1>5. CASE ~(frame.i <= Len(values))
  <2>1. mem' = Free(mem, Ref(a))
    BY <1>5 DEF DropNext
  <2>2. Allocated(mem') = Allocated(mem) \ {a}
    BY <1>2, <1>4, <2>1, FreeIs
  <2> QED BY <1>4, <2>2 DEF DropNears, ShrinksTo
<1>6. CASE frame.i <= Len(values)
  <2>1. Drops(mem, v, rest, lost, mem', frames', lost')
    BY <1>6 DEF DropNext, Drop, Drops
  <2>2. Good(mem, held, lost, rest, call, v)
    BY <1>1, <1>6, NextValue
  <2>3. /\ rest \in GoodFrames /\ rest # <<>> /\ DOMAIN rest = DOMAIN frames
        /\ \A k \in DOMAIN frames : rest[k].o = frames[k].o
        /\ Last(rest).o = a /\ Last(rest).i = frame.i + 1
    BY <1>1, <1>2, FrameGoesOn
  <2> HIDE DEF rest, v, a, frame
  <2>4. Allocated(mem') = Allocated(mem)
    BY <2>1, <2>2, DropAlike
  <2>5. NotDying(mem, rest) = NotDying(mem, frames)
    BY <2>3 DEF NotDying
  <2>6. OnHeap(v) => /\ v.n \in Allocated(mem) /\ mem.obj[v.n].count \in Nat \ {0}
                     /\ Live(mem, v) /\ \A k \in DOMAIN rest : rest[k].o # v.n
    BY <2>2, ToDrop DEF Live
  <2>7. CASE Dies(mem, v)
    <3>1. OnHeap(v) /\ frames' = Append(rest, [o |-> v.n, i |-> 1])
      BY <2>1, <2>7 DEF Drops, Dies
    <3>2. /\ DOMAIN rest \subseteq DOMAIN frames'
          /\ \A k \in DOMAIN rest : frames'[k] = rest[k]
          /\ \E k \in DOMAIN frames' : frames'[k].o = v.n
      <4>1. /\ Len(rest) \in Nat /\ DOMAIN rest = 1..Len(rest)
            /\ DOMAIN frames' = 1..(Len(rest) + 1)
            /\ \A k \in DOMAIN rest : frames'[k] = rest[k]
            /\ frames'[Len(rest) + 1].o = v.n
        BY <2>3, <3>1 DEF GoodFrames
      <4>2. Len(rest) + 1 \in DOMAIN frames' /\ DOMAIN rest \subseteq DOMAIN frames'
        BY <4>1
      <4> QED BY <4>1, <4>2
    <3>3. /\ NotDying(mem', frames') \subseteq NotDying(mem, rest)
          /\ v.n \in NotDying(mem, rest) /\ v.n \notin NotDying(mem', frames')
      BY <2>4, <2>6, <3>1, <3>2 DEF NotDying
    <3> QED BY <2>4, <2>5, <3>3 DEF DropNears, ShrinksTo
  <2>8. CASE ~Dies(mem, v)
    <3>1. frames' = rest /\ mem' = Release(mem, v)
      BY <2>1, <2>8 DEF Drops
    <3>2. mem'.obj[a].vals = mem.obj[a].vals
      <4>1. CASE OnHeap(v)
        <5>1. v \in GoodValues
          BY <2>2 DEF Good, Typed
        <5>2. SameContents(mem, mem')
          BY <1>2, <2>6, <3>1, <4>1, <5>1, ReleaseIs
        <5> QED BY <1>4, <5>2 DEF SameContents
      <4>2. CASE ~OnHeap(v)
        BY <3>1, <4>2 DEF Release
      <4> QED BY <4>1, <4>2
    <3>3. NotDying(mem', frames') = NotDying(mem, frames)
      BY <2>4, <2>5, <3>1 DEF NotDying
    <3>4. /\ Len(mem.obj[a].vals) \in Nat /\ frame.i \in Nat
          /\ frame.i <= Len(mem.obj[a].vals)
      BY <1>2, <1>3, <1>4, <1>6, MemoryIs DEF Payload
    <3>5. /\ LeftToDrop(mem, frames) = Len(mem.obj[a].vals) + 1 - frame.i
          /\ LeftToDrop(mem', frames') = Len(mem.obj[a].vals) + 1 - (frame.i + 1)
      BY <1>4, <2>3, <3>1, <3>2 DEF LeftToDrop, Payload, frame, a
    <3>6. /\ LeftToDrop(mem, frames) \in Nat /\ LeftToDrop(mem', frames') \in Nat
          /\ LeftToDrop(mem', frames') < LeftToDrop(mem, frames)
      BY <3>4, <3>5
    <3> QED BY <2>3, <2>4, <3>1, <3>3, <3>6 DEF DropNears
  <2> QED BY <2>7, <2>8
<1> QED BY <1>5, <1>6

\* Each call of ssm_drop returns: what an iteration of ssm_drop_final does brings
\* its end nearer, and there are finitely many objects and values to begin with.
THEOREM DropsGetOn == ASSUME ~Cycles PROVE RefSpec => [][DropNears]_refVars
<1>1. RefInit => RefInv
  BY RefInitHolds
<1>2. RefInv /\ [RefNext]_refVars => RefInv'
  BY RefNextKeeps, StutterKeeps
<1>3. ASSUME RefInv, [RefNext]_refVars PROVE [DropNears]_refVars
  <2>1. CASE RefNext /\ frames # <<>>
    <3>1. DropNext
      BY <2>1 DEF RefNext, CreateLeaf, CreateSv, CreateAdt, CreateClosure, Creates, Step,
             DupHeld, DropHeld, DupField, AssignSv, LaterSv, UpdateSv, Finish,
             ApplyHeld, ApplyFinalHeld, Idle
    <3> QED BY <1>3, <3>1, DropNextNears
  <2>2. CASE frames = <<>>
    BY <2>2 DEF DropNears
  <2> QED BY <1>3, <2>1, <2>2
<1> QED BY <1>1, <1>2, <1>3, PTL DEF RefSpec
=============================================================================
