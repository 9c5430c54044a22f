--------------------------- MODULE SchedulerProofs ---------------------------
(***************************************************************************)
(* The types and the safety invariants of Scheduler, for any number of     *)
(* records and variables, any number of bits of priority and any times.    *)
(***************************************************************************)
EXTENDS Scheduler, Lemmas, FiniteSetTheorems

-----------------------------------------------------------------------------
(***************************************************************************)
(* Powers of two, and what a fork does with them.                          *)
(***************************************************************************)
LEMMA PowersDef == RootDepth \in Nat /\ IsPowers(Pow2, RootDepth)
<1>1. RootDepth \in Nat
  BY SchedulerAssumption
<1>2. \E f : f = [n \in 0..RootDepth |-> IF n = 0 THEN 1 ELSE 2 * f[n - 1]]
  BY <1>1, PowersExist DEF IsPowers
<1>3. IsPowers(Pow2, RootDepth)
  BY <1>2, Zenon DEF Pow2, IsPowers
<1> QED BY <1>1, <1>3

\* What a shift by one bit, and by any number of bits, does.
LEMMA Powers ==
  /\ Pow2[0] = 1
  /\ \A n \in 1..RootDepth : Pow2[n] = 2 * Pow2[n - 1]
  /\ \A n \in 0..RootDepth : Pow2[n] \in Nat \ {0}
BY PowersDef, PowersOfTwo

\* Some number of bits tells k siblings apart, and no more than the parent has.
LEMMA EnoughBits ==
  ASSUME NEW d \in 0..RootDepth, NEW k \in Nat, k <= Pow2[d]
  PROVE  Bits(k) \in 0..d /\ k <= Pow2[Bits(k)]
<1> DEFINE T == {b \in 0..RootDepth : k <= Pow2[b]}
<1>1. PICK m \in T : \A y \in T : m <= y
  <2>1. T \in SUBSET Nat /\ d \in T
    BY SchedulerAssumption
  <2> QED BY <2>1, NatMin
<1>2. Bits(k) \in T /\ \A y \in T : Bits(k) <= y
  BY <1>1, Zenon DEF Bits, Min
<1>3. d \in T
  OBVIOUS
<1> QED BY <1>2, <1>3, SchedulerAssumption

\* The shares of k children follow each other within the range of their parent.
LEMMA Shares ==
  ASSUME NEW d \in 0..RootDepth, NEW k \in Nat \ {0}, k <= Pow2[d], NEW p \in Nat
  PROVE  LET e == d - Bits(k)
         IN  /\ e \in 0..RootDepth
             /\ Pow2[e] \in Nat \ {0}
             /\ \A i \in 1..k : /\ Share(p, d, k, i) \in Nat
                               /\ p <= Share(p, d, k, i)
                               /\ Share(p, d, k, i) + Pow2[e] <= p + Pow2[d]
             /\ \A i, j \in 1..k :
                  i < j => Share(p, d, k, i) + Pow2[e] <= Share(p, d, k, j)
<1> DEFINE b == Bits(k)
           e == d - b
           s == Pow2[e]
<1>1. b \in 0..d /\ k <= Pow2[b] /\ RootDepth \in Nat
  BY EnoughBits, SchedulerAssumption
<1>2. e \in 0..RootDepth /\ b \in 0..RootDepth /\ d \in b..RootDepth
  BY <1>1
<1>3. s \in Nat \ {0} /\ Pow2[b] \in Nat \ {0} /\ Pow2[d] \in Nat
  BY <1>2, Powers
<1>4. Pow2[d] = Pow2[b] * s
  BY <1>2, PowersDef, PowersMultiply
<1>5. \A i : Share(p, d, k, i) = p + (i - 1) * s
  BY DEF Share
<1> DEFINE w == Pow2[b]
<1> HIDE DEF e, s, b, w
<1>6. w \in Nat /\ k <= w /\ Pow2[d] = w * s
  BY <1>1, <1>3, <1>4 DEF w
<1>7. ASSUME NEW i \in 1..k
      PROVE  /\ (i - 1) * s \in Nat
             /\ (i - 1) * s + s <= w * s
  <2>1. (i - 1) * s >= 0 /\ (i - 1) * s \in Int
    BY <1>3
  <2>2. (w - i) * s >= 0
    BY <1>3, <1>6
  <2>3. w * s = (w - i) * s + (i - 1) * s + s
    BY <1>3, <1>6
  <2> QED BY <2>1, <2>2, <2>3, <1>3, <1>6
<1>8. ASSUME NEW i \in 1..k, NEW j \in 1..k, i < j
      PROVE  (i - 1) * s + s <= (j - 1) * s
  <2>1. (j - i - 1) * s >= 0
    BY <1>3, <1>8
  <2>2. (j - 1) * s = (j - i - 1) * s + (i - 1) * s + s
    BY <1>3
  <2>3. (i - 1) * s \in Int /\ (j - 1) * s \in Int /\ (j - i - 1) * s \in Int
    BY <1>3
  <2> QED BY <2>1, <2>2, <2>3, <1>3
<1>9. \A i \in 1..k : /\ Share(p, d, k, i) \in Nat
                      /\ p <= Share(p, d, k, i)
                      /\ Share(p, d, k, i) + s <= p + Pow2[d]
  BY <1>3, <1>5, <1>6, <1>7
<1>10. \A i, j \in 1..k : i < j => Share(p, d, k, i) + s <= Share(p, d, k, j)
  BY <1>3, <1>5, <1>7, <1>8
<1> QED BY <1>2, <1>3, <1>9, <1>10 DEF e, s, b

-----------------------------------------------------------------------------
(***************************************************************************)
(* The inductive invariant.                                                *)
(***************************************************************************)
\* A record owns the priorities from its own to End.
End(a) == priority[a] + Pow2[depth[a]]

Disjoint(a, b) == End(a) <= priority[b] \/ End(b) <= priority[a]

\* Callers are live, and know how many children they have.
Tree ==
  /\ \A a \in Live : caller[a] \in Live \cup {ssm_top_parent}
  /\ \A a \in Act \cup {ssm_top_parent} : children[a] = Cardinality(Children(a))

\* The priorities of a record lie within those of its caller, and two records of
\* which neither is above the other have none in common.
Inside ==
  \A a \in Live : caller[a] \in Act =>
    priority[caller[a]] <= priority[a] /\ End(a) <= End(caller[a])

Nested ==
  \A a, b \in Live :
    a # b => Disjoint(a, b) \/ a \in Ancestors(b) \/ b \in Ancestors(a)

\* What is queued, waits or runs is live, and only what has no children.
Leaves ==
  \A a \in Act :
    /\ a \in scheduled \/ a = running \/ Waits(a) => a \in Live /\ children[a] = 0
    /\ a \in stepped => a \in Live

\* The phases of a tick.
Phases ==
  /\ phase = "init" => Live = {}
  /\ phase \in {"init", "updating"} => stepped = {}
  /\ running # NULL => phase = "running" /\ running \in stepped \ scheduled

\* Whoever has run is not after the running record.
NoneAhead == running # NULL => \A b \in stepped : priority[b] <= priority[running]

\* NoLostWakeup, in every phase.
Woken ==
  \A v \in SV : \A a \in triggers[v] :
    priority[a] >= wrote[v] => a \in scheduled \cup stepped

IInv ==
  /\ TypeOK
  /\ \A a \in Live : End(a) <= Unwritten
  /\ Tree /\ Inside /\ Nested
  /\ Leaves /\ Phases
  /\ RunsInOrder /\ NoneAhead
  /\ Woken /\ NoSpuriousWakeup

-----------------------------------------------------------------------------
(***************************************************************************)
(* The tree.                                                               *)
(***************************************************************************)
LEMMA AboveWithin ==
  ASSUME NEW c, NEW a, NEW S \in SUBSET Act,
         \A x \in S \cup {a} : c[x] \in Act => c[x] \in S
  PROVE  Above(c, a) \subseteq S
BY Zenon DEF Above

\* The caller is above a record, and so is what is above the caller.
LEMMA AboveCaller ==
  ASSUME NEW c, NEW a, c[a] \in Act
  PROVE  c[a] \in Above(c, a) /\ Above(c, c[a]) \subseteq Above(c, a)
<1>1. ASSUME NEW S \in SUBSET Act, \A x \in S \cup {a} : c[x] \in Act => c[x] \in S
      PROVE  c[a] \in S /\ Above(c, c[a]) \subseteq S
  <2>1. c[a] \in S
    BY <1>1
  <2>2. \A x \in S \cup {c[a]} : c[x] \in Act => c[x] \in S
    BY <1>1, <2>1
  <2> QED BY <2>1, <2>2, AboveWithin
<1>2. Above(c, c[a]) \subseteq Act
  BY DEF Above
<1>3. c[a] \in Above(c, a)
  BY <1>1, Zenon DEF Above
<1>4. ASSUME NEW b \in Above(c, c[a]) PROVE b \in Above(c, a)
  <2>1. b \in Act
    BY <1>2
  <2>2. ASSUME NEW S \in SUBSET Act, \A x \in S \cup {a} : c[x] \in Act => c[x] \in S
        PROVE  b \in S
    BY <1>1, <2>2
  <2> QED BY <2>1, <2>2, Zenon DEF Above
<1> QED BY <1>3, <1>4

\* When only records that call nobody change, the others keep what is above them.
LEMMA AboveKept ==
  ASSUME NEW c, NEW e, NEW D \in SUBSET Act,
         \A x \in Act \ D : e[x] = c[x] /\ c[x] \notin D,
         NEW a \in Act \ D
  PROVE  Above(c, a) \subseteq Above(e, a)
<1>1. ASSUME NEW b \in Above(c, a),
             NEW S \in SUBSET Act, \A x \in S \cup {a} : e[x] \in Act => e[x] \in S
      PROVE  b \in S
  <2> DEFINE R == S \ D
  <2>1. \A x \in R \cup {a} : c[x] \in Act => c[x] \in R
    BY <1>1
  <2>2. Above(c, a) \subseteq R
    <3>1. R \in SUBSET Act
      OBVIOUS
    <3> HIDE DEF R
    <3> QED BY <2>1, <3>1, AboveWithin
  <2> QED BY <2>2
<1>2. Above(c, a) \subseteq Act
  BY DEF Above
<1>3. ASSUME NEW b \in Above(c, a) PROVE b \in Above(e, a)
  <2>1. \A S \in SUBSET Act :
          (\A x \in S \cup {a} : e[x] \in Act => e[x] \in S) => b \in S
    BY <1>1
  <2> QED BY <1>2, <2>1, Zenon DEF Above
<1> QED BY <1>3

\* Sets of records are finite.
LEMMA RecordsCounted ==
  ASSUME NEW S \in SUBSET Act
  PROVE  /\ IsFiniteSet(S)
         /\ Cardinality(S) \in 0..Cardinality(Act)
         /\ Cardinality(S) = 0 <=> S = {}
<1>1. IsFiniteSet(Act)
  BY SchedulerAssumption
<1>2. IsFiniteSet(S) /\ Cardinality(S) <= Cardinality(Act)
  BY <1>1, FS_Subset
<1>3. Cardinality(S) \in Nat /\ Cardinality(Act) \in Nat
  BY <1>1, <1>2, FS_CardinalityType
<1> QED BY <1>2, <1>3, FS_EmptySet

LEMMA ChildrenCounted ==
  ASSUME NEW a
  PROVE  /\ Cardinality(Children(a)) \in 0..Cardinality(Act)
         /\ Cardinality(Children(a)) = 0 <=> Children(a) = {}
<1>1. Children(a) \in SUBSET Act
  BY DEF Children, Live
<1> QED BY <1>1, RecordsCounted

\* What is above a record is live, has children, and comes before it.
LEMMA AncestorsComeBefore ==
  ASSUME TypeOK, Tree, Inside, NEW a \in Live, NEW b \in Ancestors(a)
  PROVE  b \in Live /\ children[b] > 0 /\ priority[b] <= priority[a]
<1> DEFINE S == {x \in Live : Children(x) # {} /\ priority[x] <= priority[a]}
<1>1. ASSUME NEW x \in S \cup {a}, caller[x] \in Act
      PROVE  caller[x] \in S
  <2>1. x \in Live /\ priority[x] <= priority[a]
    BY DEF Live, TypeOK
  <2>2. caller[x] \in Live /\ priority[caller[x]] <= priority[x]
    BY <1>1, <2>1, SchedulerAssumption DEF Tree, Inside
  <2>3. x \in Children(caller[x])
    BY <2>1 DEF Children
  <2>4. /\ priority[caller[x]] \in Int /\ priority[x] \in Int /\ priority[a] \in Int
    BY <2>1, <2>2 DEF TypeOK, Live
  <2> QED BY <2>1, <2>2, <2>3, <2>4
<1>2. Above(caller, a) \subseteq S
  <2>1. S \in SUBSET Act
    BY DEF Live
  <2> HIDE DEF S
  <2> QED BY <1>1, <2>1, AboveWithin
<1>3. b \in Live /\ Children(b) # {} /\ priority[b] <= priority[a]
  BY <1>2 DEF Ancestors
<1>4. children[b] = Cardinality(Children(b)) /\ Cardinality(Children(b)) \in Nat
  BY <1>3, ChildrenCounted DEF Tree, Live
<1> QED BY <1>3, <1>4, ChildrenCounted

-----------------------------------------------------------------------------
(***************************************************************************)
(* Forking.                                                                *)
(***************************************************************************)
\* What Spawn does for a parent that owns the 2^d priorities from p on.
Born(new, parent, p, d) ==
  /\ new \in SUBSET (Act \ Live)
  /\ \A a \in Act : caller'[a] = IF a \in new THEN parent ELSE caller[a]
  /\ \A a \in Act \ new :
       priority'[a] = priority[a] /\ depth'[a] = depth[a] /\ pc'[a] = pc[a]
  /\ \A a \in new : /\ priority'[a] \in Nat /\ p <= priority'[a]
                     /\ End(a)' <= p + Pow2[d]
                     /\ depth'[a] \in 0..RootDepth
                     /\ pc'[a] = 0
  /\ \A a, b \in new : a # b => Disjoint(a, b)'
  /\ \A a \in Act \cup {ssm_top_parent} :
       children'[a] = IF a \in new THEN 0
                      ELSE IF a = parent THEN children[a] + Cardinality(new)
                      ELSE children[a]
  /\ scheduled' = scheduled \cup new

\* The functions that Spawn changes keep their domains.
Records ==
  /\ DOMAIN caller = Act /\ DOMAIN priority = Act /\ DOMAIN depth = Act /\ DOMAIN pc = Act
  /\ DOMAIN children = Act \cup {ssm_top_parent}
  /\ caller = [a \in Act |-> caller[a]] /\ priority = [a \in Act |-> priority[a]]
  /\ depth = [a \in Act |-> depth[a]] /\ pc = [a \in Act |-> pc[a]]
  /\ children = [a \in Act \cup {ssm_top_parent} |-> children[a]]

LEMMA SpawnBears ==
  ASSUME TypeOK, NEW parent, NEW d \in 0..RootDepth, NEW p \in Nat,
         NEW kids \in Families(d), Spawn(parent, p, d, kids)
  PROVE  Records' /\ \E new : Born(new, parent, p, d)
<1> DEFINE free == Act \ Live
           new == Range(kids)
           nth == AntiFunction(kids)
<1>1. PICK k \in 1..Cardinality(free) : k <= Pow2[d] /\ kids \in Injection(1..k, free)
  BY Zenon DEF Families
<1>2. k \in Nat \ {0}
  <2>1. IsFiniteSet(free)
    BY SchedulerAssumption, FS_Difference
  <2>2. Cardinality(free) \in Nat
    BY <2>1, FS_CardinalityType
  <2> QED BY <1>1, <2>2
<1>3. kids \in [1..k -> free] /\ \A i, j \in 1..k : kids[i] = kids[j] => i = j
  BY <1>1 DEF Injection, IsInjective
<1>4. DOMAIN kids = 1..k /\ Cardinality(DOMAIN kids) = k
  <2>1. Cardinality(1..k) = k
    BY <1>2, FS_Interval
  <2> QED BY <1>3, <2>1
<1>5. \A a \in new : nth[a] \in 1..k /\ kids[nth[a]] = a
  <2>1. ASSUME NEW a \in new PROVE nth[a] \in 1..k /\ kids[nth[a]] = a
    <3>1. nth[a] = CHOOSE i \in 1..k : a \in Range(kids) => kids[i] = a
      BY <1>4 DEF AntiFunction, Inverse
    <3>2. \E i \in 1..k : kids[i] = a
      BY <1>4 DEF Range
    <3> QED BY <3>1, <3>2
  <2> QED BY <2>1
<1>6. new \in SUBSET free /\ Cardinality(new) = k
  <2>1. new \in SUBSET free
    BY <1>3, <1>4 DEF Range
  <2>2. kids \in Bijection(1..k, new)
    BY <1>3, <1>4 DEF Bijection, Injection, Surjection, IsInjective, Range
  <2>3. ExistsBijection(1..k, new)
    BY <2>2 DEF ExistsBijection
  <2>4. Cardinality(new) = k
    BY <1>2, <2>3, FS_CountingElements
  <2> QED BY <2>1, <2>4
<1> DEFINE e == d - Bits(k)
<1>7. /\ e \in 0..RootDepth
      /\ Pow2[e] \in Nat \ {0}
      /\ \A i \in 1..k : /\ Share(p, d, k, i) \in Nat
                        /\ p <= Share(p, d, k, i)
                        /\ Share(p, d, k, i) + Pow2[e] <= p + Pow2[d]
      /\ \A i, j \in 1..k : i < j => Share(p, d, k, i) + Pow2[e] <= Share(p, d, k, j)
  BY <1>1, <1>2, Shares
<1>8. /\ caller' = [a \in Act |-> IF a \in new THEN parent ELSE caller[a]]
      /\ priority' = [a \in Act |-> IF a \in new THEN Share(p, d, k, nth[a]) ELSE priority[a]]
      /\ depth' = [a \in Act |-> IF a \in new THEN e ELSE depth[a]]
      /\ pc' = [a \in Act |-> IF a \in new THEN 0 ELSE pc[a]]
      /\ children' = [a \in Act \cup {ssm_top_parent} |->
                        IF a \in new THEN 0
                        ELSE IF a = parent THEN children[a] + k
                        ELSE children[a]]
      /\ scheduled' = scheduled \cup new
  BY <1>4 DEF Spawn, TypeOK
<1> HIDE DEF nth, e, new, free
<1>9. \A a \in new : a \in Act /\ priority'[a] = Share(p, d, k, nth[a]) /\ depth'[a] = e
  BY <1>6, <1>8 DEF free
<1>10. \A a \in new : /\ priority'[a] \in Nat /\ p <= priority'[a]
                       /\ End(a)' <= p + Pow2[d]
                       /\ depth'[a] \in 0..RootDepth
                       /\ pc'[a] = 0
  BY <1>5, <1>7, <1>8, <1>9 DEF End
<1>11. ASSUME NEW a \in new, NEW b \in new, a # b PROVE Disjoint(a, b)'
  <2>1. nth[a] \in 1..k /\ nth[b] \in 1..k /\ nth[a] # nth[b]
    BY <1>5, <1>11
  <2>2. nth[a] < nth[b] \/ nth[b] < nth[a]
    BY <2>1
  <2> QED BY <1>7, <1>9, <2>1, <2>2 DEF Disjoint, End
<1>12. Records'
  BY <1>8 DEF Records
<1>13. Born(new, parent, p, d)
  <2>1. new \in SUBSET (Act \ Live)
    BY <1>6 DEF free
  <2> QED BY <1>6, <1>8, <1>10, <1>11, <2>1 DEF Born
<1> QED BY <1>12, <1>13

\* Whose range is divided: the platform forks when nothing is live, and a record
\* when it has no children.
Owns(parent, p, d) ==
  \/ /\ parent = ssm_top_parent /\ Live = {}
     /\ p = 0 /\ d = RootDepth
  \/ /\ parent \in Live /\ children[parent] = 0
     /\ p = priority[parent] /\ d = depth[parent]

\* The state a fork is in.
ForkOf(new, parent, p, d) ==
  IInv /\ Records' /\ Born(new, parent, p, d) /\ Owns(parent, p, d)

\* The children join the live records, of which nobody calls them.
LEMMA ForkLive ==
  ASSUME NEW new, NEW parent, NEW p, NEW d, ForkOf(new, parent, p, d)
  PROVE  /\ Live' = Live \cup new
         /\ parent \in Live \cup {ssm_top_parent} /\ parent \notin new
         /\ \A a \in Act \ new : caller'[a] = caller[a] /\ caller[a] \notin new
         /\ p \in Nat /\ d \in 0..RootDepth /\ p + Pow2[d] <= Unwritten
<1>1. new \in SUBSET Act /\ new \cap Live = {} /\ ssm_top_parent \notin Act /\ NULL \notin Act
      /\ NULL # ssm_top_parent /\ RootDepth \in Nat
  BY SchedulerAssumption DEF ForkOf, Born
<1>2. parent \in Live \cup {ssm_top_parent} /\ parent \notin new /\ parent # NULL
  BY <1>1 DEF ForkOf, Owns, Live
<1>3. \A a \in Act : caller'[a] = IF a \in new THEN parent ELSE caller[a]
  BY DEF ForkOf, Born
<1>4. Live' = Live \cup new
  BY <1>1, <1>2, <1>3 DEF Live
<1>5. \A a \in Act \ new : caller'[a] = caller[a] /\ caller[a] \notin new
  BY <1>1, <1>3 DEF ForkOf, IInv, Tree, Live
<1>6. p \in Nat /\ d \in 0..RootDepth /\ p + Pow2[d] <= Unwritten
  <2>1. CASE parent = ssm_top_parent
    BY <1>1, <2>1, Powers DEF ForkOf, Owns, Unwritten, MaxPriority, Live
  <2>2. CASE parent \in Live /\ p = priority[parent] /\ d = depth[parent]
    BY <2>2 DEF ForkOf, IInv, TypeOK, Live, End
  <2> QED BY <2>1, <2>2 DEF ForkOf, Owns
<1> QED BY <1>2, <1>4, <1>5, <1>6

\* What is above a record stays above it, and above its children too.
LEMMA ForkAbove ==
  ASSUME NEW new, NEW parent, NEW p, NEW d, ForkOf(new, parent, p, d)
  PROVE  /\ \A a \in Live : Ancestors(a) \subseteq Ancestors(a)'
         /\ parent \in Live =>
              \A a \in new : /\ parent \in Ancestors(a)'
                             /\ Ancestors(parent) \subseteq Ancestors(a)'
<1>1. new \in SUBSET Act /\ Live \in SUBSET Act /\ new \cap Live = {}
  BY DEF ForkOf, Born, Live
<1>2. \A x \in Act \ new : caller'[x] = caller[x] /\ caller[x] \notin new
  BY ForkLive
<1>3. \A a \in Live : Above(caller, a) \subseteq Above(caller', a)
  BY <1>1, <1>2, AboveKept
<1>4. ASSUME parent \in Live, NEW a \in new
      PROVE  /\ parent \in Above(caller', a)
             /\ Above(caller, parent) \subseteq Above(caller', a)
  <2>1. caller'[a] = parent
    BY <1>1 DEF ForkOf, Born
  <2>2. caller'[a] \in Act
    BY <1>1, <1>4, <2>1
  <2>3. caller'[a] \in Above(caller', a) /\ Above(caller', caller'[a]) \subseteq Above(caller', a)
    BY <2>2, AboveCaller
  <2> QED BY <1>3, <1>4, <2>1, <2>3
<1> QED BY <1>3, <1>4 DEF Ancestors

LEMMA ForkTree ==
  ASSUME NEW new, NEW parent, NEW p, NEW d, ForkOf(new, parent, p, d)
  PROVE  Tree'
<1>1. /\ Live' = Live \cup new
      /\ parent \in Live \cup {ssm_top_parent} /\ parent \notin new
      /\ \A a \in Act \ new : caller'[a] = caller[a] /\ caller[a] \notin new
  BY ForkLive
<1>2. /\ new \in SUBSET Act /\ Live \in SUBSET Act /\ new \cap Live = {}
      /\ \A a \in new : caller'[a] = parent
  BY DEF ForkOf, Born, Live
<1>3. \A a \in Live : caller[a] \in Live \cup {ssm_top_parent}
  BY DEF ForkOf, IInv, Tree
<1>4. \A a \in Live' : caller'[a] \in Live' \cup {ssm_top_parent}
  BY <1>1, <1>2, <1>3
<1>5. \A a \in Act \cup {ssm_top_parent} :
        children[a] = Cardinality(Children(a)) /\ children[a] \in Nat
  BY ChildrenCounted DEF ForkOf, IInv, Tree
<1>6. Children(parent) = {} /\ children[parent] = 0
  <2>1. CASE Live = {}
    BY <1>1, <1>2, <1>5, <2>1, ChildrenCounted DEF Children
  <2>2. CASE children[parent] = 0
    BY <1>1, <1>2, <1>5, <2>2, ChildrenCounted
  <2> QED BY <2>1, <2>2 DEF ForkOf, Owns
<1>7. ASSUME NEW a \in Act \cup {ssm_top_parent}
      PROVE  children'[a] = Cardinality(Children(a)')
  <2>1. children'[a] = IF a \in new THEN 0
                       ELSE IF a = parent THEN children[a] + Cardinality(new)
                       ELSE children[a]
    BY DEF ForkOf, Born
  <2>2. CASE a \in new
    <3>1. Children(a)' = {}
      BY <1>1, <1>2, <2>2 DEF Children
    <3> QED BY <2>1, <2>2, <3>1, FS_EmptySet
  <2>3. CASE a = parent
    <3>1. Children(a)' = new
      BY <1>1, <1>2, <1>6, <2>3 DEF Children
    <3>2. Cardinality(new) \in Nat
      BY <1>2, SchedulerAssumption, FS_Subset, FS_CardinalityType
    <3> QED BY <1>1, <1>6, <2>1, <2>3, <3>1, <3>2
  <2>4. CASE a \notin new /\ a # parent
    <3>1. Children(a)' = Children(a)
      BY <1>1, <1>2, <2>4 DEF Children
    <3> QED BY <1>5, <2>1, <2>4, <3>1
  <2> QED BY <2>2, <2>3, <2>4
<1> QED BY <1>4, <1>7 DEF Tree

\* The children's ranges are inside their parent's and apart from each other, and so
\* apart from whatever the parent's is apart from.
LEMMA ForkNested ==
  ASSUME NEW new, NEW parent, NEW p, NEW d, ForkOf(new, parent, p, d)
  PROVE  (\A a \in Live : End(a) <= Unwritten)' /\ Inside' /\ Nested'
<1>1. /\ Live' = Live \cup new
      /\ parent \in Live \cup {ssm_top_parent} /\ parent \notin new
      /\ \A a \in Act \ new : caller'[a] = caller[a] /\ caller[a] \notin new
      /\ p \in Nat /\ d \in 0..RootDepth /\ p + Pow2[d] <= Unwritten
  BY ForkLive
<1>2. /\ new \in SUBSET Act /\ Live \in SUBSET Act /\ new \cap Live = {}
      /\ ssm_top_parent \notin Act
      /\ \A a \in new : caller'[a] = parent
  BY SchedulerAssumption DEF ForkOf, Born, Live
<1>3. \A a \in Live : /\ priority'[a] = priority[a] /\ End(a)' = End(a)
                      /\ priority[a] \in Nat /\ End(a) \in Nat
  BY <1>2, Powers DEF ForkOf, IInv, TypeOK, Born, End
<1>4. \A a \in new : /\ priority'[a] \in Nat /\ End(a)' \in Nat
                     /\ p <= priority'[a] /\ End(a)' <= p + Pow2[d]
  BY <1>2, Powers DEF ForkOf, Born, End
<1>5. Pow2[d] \in Nat /\ Unwritten \in Nat
  BY <1>1, Powers, SchedulerAssumption DEF Unwritten, MaxPriority
<1>6. parent \in Live => p = priority[parent] /\ p + Pow2[d] = End(parent)
  BY SchedulerAssumption DEF ForkOf, Owns, End, Live
<1>7. ASSUME NEW a \in Live' PROVE End(a)' <= Unwritten
  <2>1. CASE a \in Live
    BY <1>3, <2>1 DEF ForkOf, IInv
  <2>2. CASE a \in new
    BY <1>1, <1>4, <1>5, <2>2
  <2> QED BY <1>1, <2>1, <2>2
<1>8. ASSUME NEW a \in Live', caller'[a] \in Act
      PROVE  (priority[caller[a]] <= priority[a] /\ End(a) <= End(caller[a]))'
  <2>1. CASE a \in Live
    <3>1. caller'[a] = caller[a] /\ caller[a] \in Live
      BY <1>1, <1>2, <1>8, <2>1 DEF ForkOf, IInv, Tree
    <3>2. priority[caller[a]] <= priority[a] /\ End(a) <= End(caller[a])
      BY <1>2, <2>1, <3>1 DEF ForkOf, IInv, Inside
    <3> QED BY <1>3, <2>1, <3>1, <3>2 DEF End
  <2>2. CASE a \in new
    <3>1. caller'[a] = parent /\ parent \in Live
      BY <1>1, <1>2, <1>8, <2>2
    <3> QED BY <1>3, <1>4, <1>6, <2>2, <3>1 DEF End
  <2> QED BY <1>1, <2>1, <2>2
<1>9. ASSUME NEW a \in new, NEW b \in Live
      PROVE  (Disjoint(a, b) /\ Disjoint(b, a))' \/ b \in Ancestors(a)'
  <2>1. parent \in Live /\ children[parent] = 0
    BY <1>9 DEF ForkOf, Owns
  <2>2. parent \in Ancestors(a)' /\ Ancestors(parent) \subseteq Ancestors(a)'
    BY <2>1, ForkAbove
  <2>3. CASE Disjoint(parent, b) \/ Disjoint(b, parent)
    BY <1>3, <1>4, <1>5, <1>6, <1>1, <2>1, <2>3 DEF Disjoint
  <2>4. CASE b = parent \/ b \in Ancestors(parent)
    BY <2>2, <2>4
  <2>5. parent \notin Ancestors(b)
    BY <2>1, AncestorsComeBefore DEF ForkOf, IInv
  <2> QED BY <2>1, <2>3, <2>4, <2>5 DEF ForkOf, IInv, Nested
<1>10. ASSUME NEW a \in Live', NEW b \in Live', a # b
       PROVE  Disjoint(a, b)' \/ a \in Ancestors(b)' \/ b \in Ancestors(a)'
  <2>1. CASE a \in Live /\ b \in Live
    <3>1. Disjoint(a, b) => Disjoint(a, b)'
      BY <1>3, <2>1 DEF Disjoint
    <3> QED BY <1>10, <2>1, <3>1, ForkAbove DEF ForkOf, IInv, Nested
  <2>2. CASE a \in new /\ b \in new
    BY <1>10, <2>2 DEF ForkOf, Born
  <2>3. CASE a \in new /\ b \in Live
    BY <1>9, <2>3
  <2>4. CASE a \in Live /\ b \in new
    BY <1>9, <2>4
  <2> QED BY <1>1, <2>1, <2>2, <2>3, <2>4
<1> QED BY <1>7, <1>8, <1>10 DEF Inside, Nested

\* The types of what a fork changes.
LEMMA ForkTypes ==
  ASSUME NEW new, NEW parent, NEW p, NEW d, ForkOf(new, parent, p, d),
         UNCHANGED <<triggers, timeVars, stepped, wrote>>,
         phase' \in {"idle", "running"}, running' = NULL
  PROVE  TypeOK'
<1>1. TypeOK /\ parent \in Act \cup {ssm_top_parent} /\ new \in SUBSET Act
  BY ForkLive DEF ForkOf, IInv, Born, Live
<1>2. caller' \in [Act -> Act \cup {ssm_top_parent, NULL}]
  BY <1>1 DEF ForkOf, Records, Born, TypeOK
<1>3. priority' \in [Act -> 0..MaxPriority]
  <2>1. ASSUME NEW a \in new PROVE priority'[a] \in 0..MaxPriority
    <3>1. End(a)' <= Unwritten
      BY ForkLive, ForkNested
    <3>2. priority'[a] \in Nat /\ depth'[a] \in 0..RootDepth
      BY DEF ForkOf, Born
    <3>3. Pow2[depth'[a]] \in Nat \ {0} /\ Pow2[RootDepth] \in Nat /\ RootDepth \in Nat
      BY <3>2, Powers, SchedulerAssumption
    <3> QED BY <3>1, <3>2, <3>3 DEF End, Unwritten, MaxPriority
  <2> QED BY <1>1, <2>1 DEF ForkOf, Records, Born, TypeOK
<1>4. depth' \in [Act -> 0..RootDepth] /\ pc' \in [Act -> {0, 1}]
  BY <1>1 DEF ForkOf, Records, Born, TypeOK
<1>5. children' \in [Act \cup {ssm_top_parent} -> 0..Cardinality(Act)]
  <2>1. ASSUME NEW a \in Act \cup {ssm_top_parent} PROVE children'[a] \in 0..Cardinality(Act)
    <3>1. children'[a] = Cardinality(Children(a)')
      BY ForkTree DEF Tree
    <3>2. Children(a)' \in SUBSET Act
      BY DEF Children, Live
    <3> QED BY <3>1, <3>2, RecordsCounted
  <2> QED BY <2>1 DEF ForkOf, Records
<1>6. scheduled' \in SUBSET Act
  BY <1>1 DEF ForkOf, Born, TypeOK
<1> QED BY <1>1, <1>2, <1>3, <1>4, <1>5, <1>6 DEF TypeOK, timeVars

\* The records that wait are not new, and keep their priorities.
LEMMA ForkWoken ==
  ASSUME NEW new, NEW parent, NEW p, NEW d, ForkOf(new, parent, p, d),
         UNCHANGED <<triggers, timeVars, stepped, wrote>>
  PROVE  Woken' /\ NoSpuriousWakeup'
<1>1. /\ new \in SUBSET Act /\ new \cap Live = {}
      /\ \A a \in Act \ new : priority'[a] = priority[a] /\ pc'[a] = pc[a]
      /\ \A a \in new : pc'[a] = 0
      /\ scheduled' = scheduled \cup new
  BY DEF ForkOf, Born
<1>2. \A v \in SV : \A a \in triggers[v] : a \in Act /\ a \notin new
  BY <1>1 DEF ForkOf, IInv, TypeOK, Leaves, Waits
<1>3. Woken'
  BY <1>1, <1>2 DEF ForkOf, IInv, Woken
<1>4. \A a \in scheduled : a \in Act
  BY DEF ForkOf, IInv, TypeOK
<1>5. NoSpuriousWakeup'
  BY <1>1, <1>4 DEF ForkOf, IInv, NoSpuriousWakeup, timeVars
<1> QED BY <1>3, <1>5

LEMMA StartKeeps ==
  ASSUME IInv, NEW kids \in Families(RootDepth), Start(kids)
  PROVE  IInv'
<1>1. /\ TypeOK /\ phase = "init" /\ phase' = "idle" /\ RootDepth \in 0..RootDepth /\ 0 \in Nat
      /\ Spawn(ssm_top_parent, 0, RootDepth, kids)
      /\ UNCHANGED <<triggers, timeVars, running, stepped, wrote>>
  BY SchedulerAssumption DEF IInv, Start
<1>2. Live = {} /\ stepped = {} /\ running = NULL
  BY <1>1 DEF IInv, Phases
<1>3. PICK new : ForkOf(new, ssm_top_parent, 0, RootDepth)
  <2>1. Records' /\ \E new : Born(new, ssm_top_parent, 0, RootDepth)
    BY <1>1, SpawnBears
  <2>2. Owns(ssm_top_parent, 0, RootDepth)
    BY <1>2 DEF Owns
  <2> QED BY <2>1, <2>2 DEF ForkOf
<1>4. TypeOK' /\ Woken' /\ NoSpuriousWakeup'
  BY <1>1, <1>2, <1>3, ForkTypes, ForkWoken
<1>5. Tree' /\ Inside' /\ Nested' /\ (\A a \in Live : End(a) <= Unwritten)'
  BY <1>3, ForkTree, ForkNested
<1>6. Leaves'
  <2>1. /\ Live' = Live \cup new /\ new \in SUBSET Act /\ scheduled' = scheduled \cup new
        /\ \A a \in new : children'[a] = 0
    BY <1>3, ForkLive DEF ForkOf, Born
  <2>2. \A a \in Act : a \notin scheduled /\ ~Waits(a)
    BY <1>2 DEF IInv, Leaves
  <2> QED BY <1>1, <1>2, <2>1, <2>2, SchedulerAssumption DEF Leaves, Waits, IInv, TypeOK
<1>7. Phases' /\ RunsInOrder' /\ NoneAhead'
  BY <1>1, <1>2 DEF Phases, RunsInOrder, NoneAhead
<1> QED BY <1>4, <1>5, <1>6, <1>7 DEF IInv

\* What has run comes before the children of the record that runs.
LEMMA ParKeeps ==
  ASSUME IInv, NEW a \in Act, running = a, NEW kids \in Families(depth[a]), Par(a, kids)
  PROVE  IInv'
<1>1. /\ TypeOK /\ running' = NULL /\ ~Waits(a)
      /\ Spawn(a, priority[a], depth[a], kids)
      /\ UNCHANGED <<triggers, timeVars, phase, stepped, wrote>>
  BY DEF IInv, Par
<1>2. /\ a \in Live /\ children[a] = 0 /\ a \notin scheduled /\ phase = "running"
      /\ priority[a] \in Nat /\ depth[a] \in 0..RootDepth
  BY SchedulerAssumption DEF IInv, Leaves, Phases, TypeOK
<1>3. PICK new : ForkOf(new, a, priority[a], depth[a])
  <2>1. Records' /\ \E new : Born(new, a, priority[a], depth[a])
    BY <1>1, <1>2, SpawnBears
  <2>2. Owns(a, priority[a], depth[a])
    BY <1>2 DEF Owns
  <2> QED BY <2>1, <2>2 DEF ForkOf
<1>4. TypeOK' /\ Woken' /\ NoSpuriousWakeup'
  BY <1>1, <1>2, <1>3, ForkTypes, ForkWoken
<1>5. Tree' /\ Inside' /\ Nested' /\ (\A b \in Live : End(b) <= Unwritten)'
  BY <1>3, ForkTree, ForkNested
<1>6. /\ Live' = Live \cup new /\ new \in SUBSET Act /\ new \cap Live = {}
      /\ scheduled' = scheduled \cup new
      /\ \A b \in new : children'[b] = 0
      /\ \A b \in Act : b \notin new /\ b # a => children'[b] = children[b]
      /\ \A b \in Live : priority'[b] = priority[b]
      /\ \A b \in new : priority'[b] \in Nat /\ priority[a] <= priority'[b]
  BY <1>3, ForkLive DEF ForkOf, Born, Live
<1>7. Leaves'
  <2>1. \A b \in Act : b \in scheduled \/ Waits(b) => b \in Live /\ b # a /\ children[b] = 0
    BY <1>1, <1>2 DEF IInv, Leaves
  <2>2. \A b \in Act : Waits(b)' = Waits(b)
    BY <1>1 DEF Waits
  <2> QED BY <1>1, <1>6, <2>1, <2>2, SchedulerAssumption DEF Leaves, IInv
<1>8. Phases' /\ NoneAhead'
  BY <1>1, <1>2 DEF Phases, NoneAhead
<1>9. ASSUME NEW x \in scheduled', NEW b \in stepped'
      PROVE  priority'[b] < priority'[x] \/ b \in Ancestors(x)'
  <2>1. b \in stepped /\ b \in Live /\ priority[b] \in Nat /\ priority'[b] = priority[b]
    BY <1>1, <1>6 DEF IInv, TypeOK, Leaves
  <2>2. CASE x \in scheduled
    <3>1. x \in Live
      BY <2>2 DEF IInv, Leaves, TypeOK
    <3>2. priority[b] < priority[x] \/ b \in Ancestors(x)
      BY <2>1, <2>2 DEF IInv, RunsInOrder
    <3> QED BY <1>3, <1>6, <2>1, <3>1, <3>2, ForkAbove
  <2>3. CASE x \in new
    <3>1. a \in Ancestors(x)' /\ Ancestors(a) \subseteq Ancestors(x)'
      BY <1>2, <1>3, <2>3, ForkAbove
    <3>2. priority[b] <= priority[a]
      BY <1>2, <2>1, SchedulerAssumption DEF IInv, NoneAhead
    <3>3. CASE b = a \/ b \in Ancestors(a)
      BY <3>1, <3>3
    <3>4. CASE Disjoint(a, b)
      <4>1. Pow2[depth[a]] \in Nat \ {0} /\ Pow2[depth[b]] \in Nat \ {0}
        BY <1>2, <2>1, Powers DEF IInv, TypeOK, Live
      <4>2. priority[b] < priority[a]
        BY <1>2, <2>1, <3>2, <3>4, <4>1 DEF Disjoint, End
      <4> QED BY <1>2, <1>6, <2>1, <2>3, <4>2
    <3>5. a \notin Ancestors(b)
      BY <1>2, <2>1, AncestorsComeBefore DEF IInv
    <3> QED BY <1>2, <2>1, <3>3, <3>4, <3>5 DEF IInv, Nested
  <2> QED BY <1>6, <2>2, <2>3
<1>10. RunsInOrder'
  BY <1>9 DEF RunsInOrder
<1> QED BY <1>4, <1>5, <1>7, <1>8, <1>10 DEF IInv

-----------------------------------------------------------------------------
(***************************************************************************)
(* Leaving.                                                                *)
(***************************************************************************)
\* Two records without children have no priority in common.
LEMMA LeavesApart ==
  ASSUME IInv, NEW a \in Live, NEW b \in Live, a # b, children[a] = 0, children[b] = 0
  PROVE  Disjoint(a, b) /\ priority[a] # priority[b]
<1>1. a \notin Ancestors(b) /\ b \notin Ancestors(a)
  BY AncestorsComeBefore DEF IInv
<1>2. Disjoint(a, b)
  BY <1>1 DEF IInv, Nested
<1>3. /\ Pow2[depth[a]] \in Nat \ {0} /\ Pow2[depth[b]] \in Nat \ {0}
      /\ priority[a] \in Nat /\ priority[b] \in Nat
  BY Powers DEF IInv, TypeOK, Live
<1> QED BY <1>2, <1>3 DEF Disjoint, End

\* The record that runs and what it leaves behind.
LEMMA LeaveFacts ==
  ASSUME IInv, NEW a \in Act, running = a, Leave(a)
  PROVE  LET p == caller[a]
         IN  /\ a \in Live /\ children[a] = 0 /\ Children(a) = {} /\ a \notin scheduled
             /\ ~Waits(a) /\ a \in stepped /\ phase = "running"
             /\ p \in Live \cup {ssm_top_parent} /\ p # a
             /\ children[p] \in Nat \ {0} /\ Cardinality(Children(p) \ {a}) = children[p] - 1
             /\ Live' = Live \ {a}
<1> DEFINE p == caller[a]
<1>1. /\ a \in Live /\ children[a] = 0 /\ a \notin scheduled /\ a \in stepped /\ phase = "running"
      /\ ~Waits(a) /\ p \in Live \cup {ssm_top_parent}
  BY SchedulerAssumption DEF IInv, Leaves, Phases, Tree, Leave
<1>2. Children(a) = {}
  BY <1>1, ChildrenCounted DEF IInv, Tree
<1>3. a \in Children(p) /\ children[p] = Cardinality(Children(p)) /\ Children(p) \in SUBSET Act
  BY <1>1 DEF Children, IInv, Tree, Live
<1>4. IsFiniteSet(Children(p)) /\ Cardinality(Children(p)) \in Nat /\ Children(p) # {}
  BY <1>3, RecordsCounted
<1>5. Cardinality(Children(p) \ {a}) = children[p] - 1 /\ children[p] \in Nat \ {0}
  BY <1>3, <1>4, FS_RemoveElement, RecordsCounted
<1>6. p # a
  BY <1>2, <1>3
<1>7. Live' = Live \ {a}
  BY <1>1 DEF Live, Leave, IInv, TypeOK
<1> QED BY <1>1, <1>2, <1>5, <1>6, <1>7

LEMMA LeaveTree ==
  ASSUME IInv, NEW a \in Act, running = a, Leave(a)
  PROVE  Tree' /\ Inside' /\ Nested' /\ (\A b \in Live : End(b) <= Unwritten)'
         /\ \A b \in Live \ {a} : Ancestors(b) \subseteq Ancestors(b)'
<1> DEFINE p == caller[a]
<1>1. /\ a \in Live /\ children[a] = 0 /\ Children(a) = {}
      /\ p \in Live \cup {ssm_top_parent} /\ p # a
      /\ children[p] \in Nat \ {0} /\ Cardinality(Children(p) \ {a}) = children[p] - 1
      /\ Live' = Live \ {a}
  BY LeaveFacts
<1>2. /\ ssm_top_parent \notin Act /\ NULL \notin Act /\ NULL # ssm_top_parent
      /\ Live \in SUBSET Act
  BY SchedulerAssumption DEF Live
<1>3. /\ \A b \in Act : b # a => caller'[b] = caller[b] /\ priority'[b] = priority[b]
                                  /\ depth'[b] = depth[b]
      /\ \A b \in Act \cup {ssm_top_parent} :
           children'[b] = IF b = p THEN children[p] - 1 ELSE children[b]
      /\ caller'[a] = NULL
  BY <1>1, <1>2 DEF Leave, IInv, TypeOK
<1>4. \A b \in Act : caller[b] # a
  BY <1>1, <1>2 DEF Children, Live
<1>5. \A b \in Live' : caller'[b] \in Live' \cup {ssm_top_parent}
  BY <1>1, <1>2, <1>3, <1>4 DEF IInv, Tree
<1>6. ASSUME NEW b \in Act \cup {ssm_top_parent}
      PROVE  children'[b] = Cardinality(Children(b)')
  <2>1. Children(b)' = Children(b) \ {a}
    BY <1>1, <1>2, <1>3 DEF Children
  <2>2. CASE b = p
    BY <1>1, <1>3, <2>1, <2>2
  <2>3. CASE b # p
    <3>1. a \notin Children(b)
      BY <2>3 DEF Children
    <3>2. Children(b)' = Children(b)
      BY <2>1, <3>1
    <3> QED BY <1>3, <2>3, <3>2 DEF IInv, Tree
  <2> QED BY <2>2, <2>3
<1>7. \A b \in Live \ {a} : Ancestors(b) \subseteq Ancestors(b)'
  <2>1. \A x \in Act \ {a} : caller'[x] = caller[x] /\ caller[x] \notin {a}
    BY <1>3, <1>4
  <2>2. \A b \in Act \ {a} : Above(caller, b) \subseteq Above(caller', b)
    BY <2>1, AboveKept
  <2> QED BY <1>2, <2>2 DEF Ancestors
<1>8. \A b \in Live' : b \in Live /\ b # a /\ priority'[b] = priority[b] /\ End(b)' = End(b)
  BY <1>1, <1>2, <1>3 DEF End
<1>9. Inside'
  <2>1. ASSUME NEW b \in Live', caller'[b] \in Act
        PROVE  (priority[caller[b]] <= priority[b] /\ End(b) <= End(caller[b]))'
    <3>1. caller'[b] = caller[b] /\ caller[b] \in Live'
      BY <1>2, <1>3, <1>5, <1>8, <2>1
    <3>2. priority[caller[b]] <= priority[b] /\ End(b) <= End(caller[b])
      BY <1>8, <2>1, <3>1 DEF IInv, Inside
    <3> QED BY <1>8, <3>1, <3>2 DEF End
  <2> QED BY <2>1 DEF Inside
<1>10. Nested'
  BY <1>7, <1>8 DEF IInv, Nested, Disjoint
<1> QED BY <1>5, <1>6, <1>7, <1>8, <1>9, <1>10 DEF Tree, IInv

\* When the last child leaves, nothing that has run comes after the parent.
LEMMA LastChild ==
  ASSUME IInv, NEW a \in Act, running = a, Leave(a),
         caller[a] \in Live, children[caller[a]] = 1,
         NEW b \in stepped, b # a
  PROVE  priority[b] <= priority[caller[a]]
<1> DEFINE p == caller[a]
<1>1. /\ a \in Live /\ p # a /\ children[p] \in Nat \ {0} /\ Children(a) = {}
      /\ Cardinality(Children(p) \ {a}) = children[p] - 1
  BY LeaveFacts
<1>2. Children(p) \ {a} = {}
  <2>1. Children(p) \ {a} \in SUBSET Act
    BY DEF Children, Live
  <2> QED BY <1>1, <2>1, RecordsCounted
<1>3. b \in Live /\ priority[b] <= priority[a]
  BY SchedulerAssumption DEF IInv, Leaves, NoneAhead, TypeOK
<1>4. CASE b = p
  BY <1>3, <1>4 DEF IInv, TypeOK, Live
<1>5. CASE Disjoint(b, p)
  <2>1. /\ Pow2[depth[a]] \in Nat \ {0} /\ Pow2[depth[b]] \in Nat \ {0}
        /\ Pow2[depth[p]] \in Nat \ {0}
        /\ priority[a] \in Nat /\ priority[b] \in Nat /\ priority[p] \in Nat
    BY <1>1, <1>3, Powers DEF IInv, TypeOK, Live
  <2>2. End(a) <= End(p)
    BY <1>1 DEF IInv, Inside, Live
  <2> QED BY <1>3, <1>5, <2>1, <2>2 DEF Disjoint, End
<1>6. p \notin Ancestors(b)
  <2> DEFINE S == Act \ {p, a}
  <2>1. \A x \in S \cup {b} : caller[x] \in Act => caller[x] \in S
    <3>1. SUFFICES ASSUME NEW x \in Act, x # a, caller[x] \in Act
                   PROVE  caller[x] # p /\ caller[x] # a
      BY <1>3 DEF Live
    <3>2. x \in Live
      BY <3>1, SchedulerAssumption DEF Live
    <3> QED BY <1>1, <1>2, <3>1, <3>2 DEF Children
  <2>2. Above(caller, b) \subseteq S
    <3>1. S \in SUBSET Act
      OBVIOUS
    <3> HIDE DEF S
    <3> QED BY <2>1, <3>1, AboveWithin
  <2> QED BY <2>2 DEF Ancestors
<1>7. CASE b \in Ancestors(p)
  BY <1>7, AncestorsComeBefore DEF IInv
<1> QED BY <1>3, <1>4, <1>5, <1>6, <1>7 DEF IInv, Nested

LEMMA LeaveKeeps ==
  ASSUME IInv, NEW a \in Act, running = a, Leave(a)
  PROVE  IInv'
<1> DEFINE p == caller[a]
           resumes == children[p] = 1 /\ p # ssm_top_parent
<1>1. /\ a \in Live /\ children[a] = 0 /\ a \notin scheduled
      /\ ~Waits(a) /\ a \in stepped /\ phase = "running"
      /\ p \in Live \cup {ssm_top_parent} /\ p # a
      /\ children[p] \in Nat \ {0}
      /\ Live' = Live \ {a}
  BY LeaveFacts
<1>2. /\ ssm_top_parent \notin Act /\ NULL \notin Act /\ NULL # ssm_top_parent
      /\ Live \in SUBSET Act
  BY SchedulerAssumption DEF Live
<1>3. /\ \A b \in Act : b # a => priority'[b] = priority[b] /\ pc'[b] = pc[b]
      /\ \A b \in Act \cup {ssm_top_parent} :
           children'[b] = IF b = p THEN children[p] - 1 ELSE children[b]
      /\ UNCHANGED <<scheduled, triggers, timeVars, phase, wrote>>
  BY <1>1, <1>2 DEF Leave, IInv, TypeOK
<1>4. /\ resumes => running' = p /\ stepped' = (stepped \ {a}) \cup {p} /\ p \in Live
      /\ ~resumes => running' = NULL /\ stepped' = stepped \ {a}
  BY <1>1 DEF Leave, IsLastChild
<1>5. Tree' /\ Inside' /\ Nested' /\ (\A b \in Live : End(b) <= Unwritten)'
      /\ \A b \in Live \ {a} : Ancestors(b) \subseteq Ancestors(b)'
  BY LeaveTree
<1>6. TypeOK'
  <2>1. children' \in [Act \cup {ssm_top_parent} -> 0..Cardinality(Act)]
    <3>1. Cardinality(Act) \in Nat
      BY SchedulerAssumption, FS_CardinalityType
    <3>2. p \in Act \cup {ssm_top_parent} /\ children[p] \in 0..Cardinality(Act)
      BY <1>1, <1>2 DEF IInv, TypeOK
    <3>3. children[p] - 1 \in 0..Cardinality(Act)
      BY <1>1, <3>1, <3>2
    <3>4. children' = [children EXCEPT ![p] = children[p] - 1]
      BY DEF Leave
    <3> QED BY <3>3, <3>4 DEF IInv, TypeOK
  <2>2. /\ caller' \in [Act -> Act \cup {ssm_top_parent, NULL}]
        /\ priority' \in [Act -> 0..MaxPriority]
        /\ depth' \in [Act -> 0..RootDepth]
        /\ pc' \in [Act -> {0, 1}]
    BY Powers, SchedulerAssumption DEF Leave, IInv, TypeOK, MaxPriority
  <2>3. running' \in Act \cup {NULL} /\ stepped' \in SUBSET Act
    BY <1>2, <1>4 DEF IInv, TypeOK
  <2> QED BY <1>3, <2>1, <2>2, <2>3 DEF IInv, TypeOK, timeVars
<1>7. Leaves'
  <2>1. ASSUME NEW b \in Act, b \in scheduled \/ Waits(b)
        PROVE  b \in Live' /\ children'[b] = 0
    <3>1. b \in Live /\ children[b] = 0 /\ b # a
      BY <1>1, <2>1 DEF IInv, Leaves
    <3> QED BY <1>1, <1>3, <3>1
  <2>2. ASSUME NEW b \in Act, b = running' PROVE b \in Live' /\ children'[b] = 0
    <3>1. b = p /\ resumes
      BY <1>2, <1>4, <2>2
    <3> QED BY <1>1, <1>3, <1>4, <3>1
  <2>3. ASSUME NEW b \in stepped' PROVE b \in Live'
    BY <1>1, <1>4 DEF IInv, Leaves, TypeOK
  <2>4. \A b \in Act : Waits(b)' = Waits(b)
    BY <1>3 DEF Waits
  <2> QED BY <1>3, <2>1, <2>2, <2>3, <2>4 DEF Leaves
<1>8. Phases'
  <2>1. resumes => p \notin scheduled
    BY <1>2, <1>4 DEF IInv, Leaves
  <2> QED BY <1>1, <1>3, <1>4, <2>1 DEF Phases
<1>9. RunsInOrder'
  <2>1. ASSUME NEW x \in scheduled, NEW b \in stepped'
        PROVE  priority'[b] < priority'[x] \/ b \in Ancestors(x)'
    <3>1. x \in Live \ {a} /\ priority'[x] = priority[x] /\ priority[x] \in Nat
      BY <1>1, <1>2, <1>3 DEF IInv, Leaves, TypeOK
    <3>2. CASE b \in stepped /\ b # a
      <4>1. priority'[b] = priority[b]
        BY <1>3, <3>2 DEF IInv, TypeOK
      <4> QED BY <1>5, <3>1, <3>2, <4>1 DEF IInv, RunsInOrder
    <3>3. CASE b = p /\ resumes
      <4>1. priority[a] < priority[x]
        <5>1. a \notin Ancestors(x)
          BY <1>1, <3>1, AncestorsComeBefore DEF IInv
        <5> QED BY <1>1, <5>1 DEF IInv, RunsInOrder
      <4>2. priority[p] <= priority[a] /\ priority'[p] = priority[p]
        BY <1>1, <1>2, <1>3, <1>4, <3>3 DEF IInv, Inside
      <4>3. priority[p] \in Nat /\ priority[a] \in Nat
        BY <1>2, <1>4, <3>3 DEF IInv, TypeOK
      <4> QED BY <3>1, <3>3, <4>1, <4>2, <4>3
    <3> QED BY <1>4, <3>2, <3>3
  <2> QED BY <1>3, <2>1 DEF RunsInOrder
<1>10. NoneAhead'
  <2>1. ASSUME resumes, NEW b \in stepped'
        PROVE  priority'[b] <= priority'[p]
    <3>1. p \in Live /\ p # a /\ priority'[p] = priority[p] /\ priority[p] \in Nat
      BY <1>1, <1>2, <1>3, <1>4, <2>1 DEF IInv, TypeOK
    <3>2. CASE b \in stepped /\ b # a
      <4>1. priority'[b] = priority[b]
        BY <1>3, <3>2 DEF IInv, TypeOK
      <4>2. priority[b] <= priority[p]
        BY <2>1, <3>1, <3>2, LastChild
      <4> QED BY <3>1, <4>1, <4>2
    <3> QED BY <1>4, <2>1, <3>1, <3>2
  <2> QED BY <1>4, <2>1 DEF NoneAhead
<1>11. Woken' /\ NoSpuriousWakeup'
  <2>1. \A v \in SV : \A b \in triggers[v] : b # a /\ b \in Act
    BY <1>1 DEF Waits, IInv, TypeOK
  <2>2. stepped \ {a} \subseteq stepped'
    BY <1>4
  <2>3. Woken'
    BY <1>3, <2>1, <2>2 DEF IInv, Woken
  <2>4. \A b \in scheduled : b \in Act /\ b # a
    BY <1>1 DEF IInv, TypeOK
  <2> QED BY <1>3, <2>3, <2>4 DEF IInv, NoSpuriousWakeup, timeVars
<1> QED BY <1>5, <1>6, <1>7, <1>8, <1>9, <1>10, <1>11 DEF IInv

-----------------------------------------------------------------------------
(***************************************************************************)
(* The steps that leave the tree as it is.                                 *)
(***************************************************************************)
LEMMA SameTree ==
  ASSUME IInv, UNCHANGED recordVars
  PROVE  /\ Tree' /\ Inside' /\ Nested' /\ (\A a \in Live : End(a) <= Unwritten)'
         /\ Live' = Live /\ \A a : Ancestors(a)' = Ancestors(a)
BY DEF recordVars, IInv, Tree, Inside, Nested, Disjoint, End, Live, Children, Ancestors

\* ssm_tick and the platform, while no step function runs.
LEMMA LeastPending ==
  ASSUME TypeOK, Pending # {}
  PROVE  Min({later_time[v] : v \in Pending}) \in 0..LastTime
<1> DEFINE T == {later_time[v] : v \in Pending}
<1>1. \A t \in T : t \in 0..LastTime
  BY DEF TypeOK, Pending
<1>2. T \in SUBSET Nat /\ T # {}
  BY <1>1
<1>3. \E t \in T : \A u \in T : t <= u
  <2> HIDE DEF T
  <2> QED BY <1>2, NatMin
<1>4. Min(T) \in T
  <2> HIDE DEF T
  <2> QED BY <1>3, Zenon DEF Min
<1> QED BY <1>1, <1>4

LEMMA PlatformKeeps ==
  ASSUME IInv,
         (\E v \in SV, when \in 1..LastTime : Input(v, when)) \/ Tick \/ EndUpdates \/ EndTick
  PROVE  IInv'
<1>1. /\ UNCHANGED <<recordVars, pc, scheduled, triggers, last_updated, running>>
      /\ \/ phase = "idle" /\ phase' = "idle" /\ UNCHANGED <<now, stepped, wrote>>
         \/ /\ phase = "idle" /\ phase' = "updating" /\ stepped' = {}
            /\ wrote' = [v \in SV |-> Unwritten]
            /\ now' = now \/ scheduled = {}
         \/ phase = "updating" /\ phase' = "running" /\ UNCHANGED <<now, stepped, wrote>>
         \/ /\ phase = "running" /\ running = NULL /\ phase' = "idle"
            /\ UNCHANGED <<now, stepped, wrote>>
  BY DEF Input, Tick, EndUpdates, EndTick, timeVars
<1>2. /\ Tree' /\ Inside' /\ Nested' /\ (\A a \in Live : End(a) <= Unwritten)'
      /\ Live' = Live /\ \A a : Ancestors(a)' = Ancestors(a)
  BY <1>1, SameTree
<1>3. running = NULL /\ running' = NULL
  BY <1>1 DEF IInv, Phases
<1>4. now' \in 0..LastTime /\ later_time' \in [SV -> 0..LastTime \cup {Never}]
  <2>1. CASE \E v \in SV, when \in 1..LastTime : Input(v, when)
    BY <2>1, SchedulerAssumption DEF Input, IInv, TypeOK
  <2>2. CASE Tick
    BY <2>2, LeastPending DEF Tick, IInv, TypeOK
  <2>3. CASE EndUpdates \/ EndTick
    BY <2>3 DEF EndUpdates, EndTick, timeVars, IInv, TypeOK
  <2> QED BY <2>1, <2>2, <2>3
<1>5. TypeOK'
  <2>1. Unwritten \in 0..Unwritten
    BY Powers, SchedulerAssumption DEF Unwritten, MaxPriority
  <2> QED BY <1>1, <1>4, <2>1 DEF IInv, TypeOK, recordVars
<1>6. Leaves'
  BY <1>1, <1>2, <1>3 DEF IInv, Leaves, Waits, recordVars
<1>7. Phases' /\ NoneAhead'
  BY <1>1, <1>2, <1>3 DEF IInv, Phases, NoneAhead
<1>8. RunsInOrder'
  BY <1>1, <1>2 DEF IInv, RunsInOrder, recordVars
<1>9. Woken'
  <2>1. ASSUME wrote' = [v \in SV |-> Unwritten] PROVE Woken'
    <3>1. \A v \in SV : \A a \in triggers[v] : ~(priority[a] >= Unwritten)
      BY Powers, SchedulerAssumption DEF IInv, TypeOK, Unwritten, MaxPriority
    <3> QED BY <1>1, <2>1, <3>1 DEF Woken, recordVars
  <2> QED BY <1>1, <2>1 DEF IInv, Woken, recordVars
<1>10. NoSpuriousWakeup'
  BY <1>1 DEF IInv, NoSpuriousWakeup
<1> QED BY <1>2, <1>5, <1>6, <1>7, <1>8, <1>9, <1>10 DEF IInv

LEMMA UpdateKeeps ==
  ASSUME IInv, NEW v \in SV, Update(v)
  PROVE  IInv'
<1>1. /\ Tree' /\ Inside' /\ Nested' /\ (\A a \in Live : End(a) <= Unwritten)'
      /\ Live' = Live /\ \A a : Ancestors(a)' = Ancestors(a)
  BY SameTree DEF Update
<1>2. running = NULL /\ running' = NULL /\ stepped = {} /\ stepped' = {}
  BY DEF Update, IInv, Phases
<1>3. TypeOK'
  <2>1. 0 \in 0..Unwritten
    BY Powers, SchedulerAssumption DEF Unwritten, MaxPriority
  <2> QED BY <2>1 DEF Update, IInv, TypeOK, recordVars
<1>4. Leaves'
  <2>1. \A a \in triggers[v] : a \in Act /\ Waits(a)
    BY DEF Waits, IInv, TypeOK
  <2>2. \A a \in Act : Waits(a)' = Waits(a)
    BY DEF Waits, Update
  <2> QED BY <1>1, <1>2, <2>1, <2>2, SchedulerAssumption DEF Update, IInv, Leaves, recordVars
<1>5. Phases' /\ NoneAhead' /\ RunsInOrder'
  BY <1>2 DEF Update, Phases, NoneAhead, RunsInOrder
<1>6. Woken'
  BY DEF Update, IInv, Woken, TypeOK, recordVars
<1>7. NoSpuriousWakeup'
  BY DEF Update, IInv, NoSpuriousWakeup, TypeOK
<1> QED BY <1>1, <1>3, <1>4, <1>5, <1>6, <1>7 DEF IInv

\* The least of the queued records comes after all that have run, and before the
\* others, for none of them has children.
LEMMA RunNextKeeps ==
  ASSUME IInv, NEW a \in Act, RunNext(a)
  PROVE  IInv'
<1>1. /\ Tree' /\ Inside' /\ Nested' /\ (\A b \in Live : End(b) <= Unwritten)'
      /\ Live' = Live /\ \A b : Ancestors(b)' = Ancestors(b)
  BY SameTree DEF RunNext
<1>2. a \in scheduled /\ a \in Live /\ children[a] = 0 /\ phase = "running"
  BY DEF RunNext, IInv, Leaves
<1>3. TypeOK'
  BY DEF RunNext, IInv, TypeOK, recordVars, timeVars
<1>4. Leaves'
  <2>1. \A b \in Act : Waits(b)' = Waits(b)
    BY DEF Waits, RunNext
  <2> QED BY <1>1, <1>2, <2>1 DEF RunNext, IInv, Leaves, recordVars
<1>5. Phases'
  BY <1>2, SchedulerAssumption DEF RunNext, Phases
<1>6. RunsInOrder'
  <2>1. ASSUME NEW b \in scheduled, b # a PROVE priority[a] < priority[b]
    <3>1. b \in Live /\ children[b] = 0
      BY <2>1 DEF IInv, Leaves, TypeOK
    <3>2. priority[a] # priority[b]
      BY <1>2, <2>1, <3>1, LeavesApart
    <3>3. priority[a] <= priority[b] /\ priority[a] \in Nat /\ priority[b] \in Nat
      BY <2>1, <3>1 DEF RunNext, Least, IInv, TypeOK, Live
    <3> QED BY <3>2, <3>3
  <2> QED BY <1>1, <2>1 DEF RunNext, IInv, RunsInOrder, recordVars
<1>7. NoneAhead'
  <2>1. ASSUME NEW b \in stepped PROVE priority[b] <= priority[a]
    <3>1. priority[b] < priority[a] \/ b \in Ancestors(a)
      BY <1>2 DEF IInv, RunsInOrder
    <3>2. priority[b] \in Nat /\ priority[a] \in Nat
      BY DEF IInv, TypeOK
    <3> QED BY <1>2, <3>1, <3>2, AncestorsComeBefore DEF IInv
  <2>2. priority[a] <= priority[a]
    BY DEF IInv, TypeOK
  <2> QED BY <2>1, <2>2 DEF RunNext, NoneAhead, recordVars
<1>8. Woken' /\ NoSpuriousWakeup'
  BY DEF RunNext, IInv, Woken, NoSpuriousWakeup, TypeOK, recordVars, timeVars
<1> QED BY <1>1, <1>3, <1>4, <1>5, <1>6, <1>7, <1>8 DEF IInv

\* The calls of a running record that change no record.
LEMMA RunnerFacts ==
  ASSUME IInv, NEW a \in Act, running = a
  PROVE  /\ a \in Live /\ children[a] = 0 /\ a \in stepped /\ a \notin scheduled
         /\ phase = "running"
         /\ \A b \in stepped : priority[b] <= priority[a]
BY SchedulerAssumption DEF IInv, Leaves, Phases, NoneAhead

LEMMA SensitizeKeeps ==
  ASSUME IInv, NEW a \in Act, running = a, NEW v \in SV, Sensitize(a, v) \/ Desensitize(a, v)
  PROVE  IInv'
<1>1. /\ UNCHANGED <<recordVars, pc, scheduled, timeVars, phase, running, stepped, wrote>>
      /\ triggers' \in [SV -> SUBSET Act]
      /\ \A u \in SV : /\ triggers'[u] \subseteq triggers[u] \cup {a}
                       /\ triggers[u] \subseteq triggers'[u] \cup {a}
  BY DEF Sensitize, Desensitize, IInv, TypeOK
<1>2. /\ Tree' /\ Inside' /\ Nested' /\ (\A b \in Live : End(b) <= Unwritten)'
      /\ Live' = Live /\ \A b : Ancestors(b)' = Ancestors(b)
  BY <1>1, SameTree
<1>3. a \in Live /\ children[a] = 0 /\ a \in stepped /\ a \notin scheduled
  BY RunnerFacts
<1>4. TypeOK'
  BY <1>1 DEF IInv, TypeOK, recordVars, timeVars
<1>5. Leaves'
  <2>1. \A b \in Act : Waits(b)' => Waits(b) \/ b = a
    BY <1>1 DEF Waits
  <2> QED BY <1>1, <1>2, <1>3, <2>1 DEF IInv, Leaves, recordVars
<1>6. Phases' /\ NoneAhead'
  BY <1>1, <1>2 DEF IInv, Phases, NoneAhead, recordVars
<1>7. RunsInOrder'
  BY <1>1, <1>2 DEF IInv, RunsInOrder, recordVars
<1>8. Woken'
  BY <1>1, <1>3 DEF IInv, Woken, recordVars
<1>9. NoSpuriousWakeup'
  BY <1>1, <1>3 DEF IInv, NoSpuriousWakeup, timeVars
<1> QED BY <1>2, <1>4, <1>5, <1>6, <1>7, <1>8, <1>9 DEF IInv

LEMMA MinOfTwo ==
  ASSUME NEW x \in Nat, NEW y \in Nat
  PROVE  Min({x, y}) \in {x, y} /\ Min({x, y}) <= x /\ Min({x, y}) <= y
<1>1. \E m \in {x, y} : \A t \in {x, y} : m <= t
  OBVIOUS
<1> QED BY <1>1 DEF Min

\* Those that an assignment wakes wait, and come after the writer.
LEMMA AssignKeeps ==
  ASSUME IInv, NEW a \in Act, running = a, NEW v \in SV, Assign(a, v)
  PROVE  IInv'
<1> DEFINE woken == Downstream(v, priority[a])
           first == Min({wrote[v], priority[a] + 1})
<1>1. /\ UNCHANGED <<recordVars, pc, triggers, later_time, now, phase, running, stepped>>
      /\ scheduled' = scheduled \cup woken
  BY DEF Assign
<1>2. /\ Tree' /\ Inside' /\ Nested' /\ (\A b \in Live : End(b) <= Unwritten)'
      /\ Live' = Live /\ \A b : Ancestors(b)' = Ancestors(b)
  BY <1>1, SameTree
<1>3. /\ a \in Live /\ children[a] = 0 /\ a \in stepped /\ a \notin scheduled
      /\ \A b \in stepped : priority[b] <= priority[a]
  BY RunnerFacts
<1>4. /\ \A b \in Act : priority[b] \in 0..MaxPriority
      /\ Unwritten \in Nat /\ Unwritten = MaxPriority + 1 /\ MaxPriority \in Nat
      /\ wrote[v] \in 0..Unwritten
  BY Powers, SchedulerAssumption DEF IInv, TypeOK, Unwritten, MaxPriority
<1>5. \A b \in woken : b \in Act /\ b \in triggers[v] /\ Waits(b) /\ priority[b] > priority[a] /\ b # a
  BY <1>4 DEF Downstream, IInv, TypeOK, Waits
<1>6. /\ first \in {wrote[v], priority[a] + 1} /\ first \in 0..Unwritten
      /\ wrote' = [wrote EXCEPT ![v] = first]
  <2>1. wrote[v] \in Nat /\ priority[a] + 1 \in Nat
    BY <1>4
  <2>2. first \in {wrote[v], priority[a] + 1}
    BY <2>1, MinOfTwo
  <2>3. wrote' = [wrote EXCEPT ![v] = first]
    BY DEF Assign
  <2> HIDE DEF first
  <2>4. priority[a] + 1 \in 0..Unwritten
    BY <1>4
  <2> QED BY <1>4, <2>2, <2>3, <2>4
<1> HIDE DEF woken, first
<1>7. TypeOK'
  BY <1>1, <1>5, <1>6 DEF Assign, IInv, TypeOK, recordVars
<1>8. Leaves'
  <2>1. \A b \in Act : Waits(b)' = Waits(b)
    BY <1>1 DEF Waits
  <2> QED BY <1>1, <1>2, <1>5, <2>1 DEF IInv, Leaves, recordVars
<1>9. Phases' /\ NoneAhead'
  <2>1. a \notin scheduled'
    BY <1>1, <1>3, <1>5
  <2>2. phase' = "running" /\ running' = a /\ stepped' = stepped
    BY <1>1, RunnerFacts
  <2>3. Phases'
    BY <1>3, <2>1, <2>2 DEF Phases
  <2> QED BY <1>1, <2>3 DEF IInv, NoneAhead, recordVars
<1>10. RunsInOrder'
  <2>1. ASSUME NEW x \in woken, NEW b \in stepped PROVE priority[b] < priority[x]
    <3>1. b \in Act
      BY DEF IInv, TypeOK
    <3> QED BY <1>3, <1>4, <1>5, <3>1
  <2> QED BY <1>1, <1>2, <2>1 DEF IInv, RunsInOrder, recordVars
<1>11. Woken'
  <2>1. ASSUME NEW b \in triggers[v], priority[b] >= first
        PROVE  b \in scheduled' \cup stepped
    <3>1. CASE first = wrote[v]
      BY <1>1, <2>1, <3>1 DEF IInv, Woken
    <3>2. CASE first = priority[a] + 1
      <4>1. b \in Act
        BY DEF IInv, TypeOK
      <4>2. priority[b] > priority[a]
        BY <1>4, <2>1, <3>2, <4>1
      <4> QED BY <1>1, <4>2 DEF woken, Downstream
    <3> QED BY <1>6, <3>1, <3>2
  <2> QED BY <1>1, <1>6, <2>1 DEF IInv, Woken, TypeOK, recordVars
<1>12. NoSpuriousWakeup'
  <2>1. last_updated' = [last_updated EXCEPT ![v] = now]
    BY DEF Assign
  <2>2. \A u \in SV : last_updated[u] = now => last_updated'[u] = now
    BY <2>1 DEF IInv, TypeOK
  <2>3. last_updated'[v] = now
    BY <2>1 DEF IInv, TypeOK
  <2> QED BY <1>1, <1>5, <2>2, <2>3 DEF IInv, NoSpuriousWakeup
<1> QED BY <1>2, <1>7, <1>8, <1>9, <1>10, <1>11, <1>12 DEF IInv

LEMMA LaterKeeps ==
  ASSUME IInv, NEW a \in Act, running = a, NEW v \in SV,
         (\E when \in 1..LastTime : Later(a, v, when)) \/ Recycle(a, v)
  PROVE  IInv'
<1>1. /\ UNCHANGED <<recordVars, pc, scheduled, triggers, now, phase, running, stepped>>
      /\ later_time' \in [SV -> 0..LastTime \cup {Never}]
      /\ last_updated' \in [SV -> 0..LastTime \cup {Never}]
      /\ wrote' \in [SV -> 0..Unwritten]
  <2>1. Unwritten \in 0..Unwritten
    BY Powers, SchedulerAssumption DEF Unwritten, MaxPriority
  <2> QED BY <2>1, SchedulerAssumption DEF Later, Recycle, IInv, TypeOK
<1>2. /\ Tree' /\ Inside' /\ Nested' /\ (\A b \in Live : End(b) <= Unwritten)'
      /\ Live' = Live /\ \A b : Ancestors(b)' = Ancestors(b)
  BY <1>1, SameTree
<1>3. \A u \in SV : triggers[u] # {} => last_updated'[u] = last_updated[u] /\ wrote'[u] = wrote[u]
  BY DEF Later, Recycle, IInv, TypeOK
<1>4. TypeOK'
  BY <1>1 DEF IInv, TypeOK, recordVars
<1>5. Leaves'
  BY <1>1, <1>2 DEF IInv, Leaves, Waits, recordVars
<1>6. Phases' /\ NoneAhead' /\ RunsInOrder'
  BY <1>1, <1>2 DEF IInv, Phases, NoneAhead, RunsInOrder, recordVars
<1>7. Woken'
  BY <1>1, <1>3 DEF IInv, Woken, recordVars
<1>8. NoSpuriousWakeup'
  BY <1>1, <1>3 DEF IInv, NoSpuriousWakeup
<1> QED BY <1>2, <1>4, <1>5, <1>6, <1>7, <1>8 DEF IInv

LEMMA SleepKeeps ==
  ASSUME IInv, NEW a \in Act, running = a, Sleep(a)
  PROVE  IInv'
<1>1. /\ Tree' /\ Inside' /\ Nested' /\ (\A b \in Live : End(b) <= Unwritten)'
      /\ Live' = Live /\ \A b : Ancestors(b)' = Ancestors(b)
  BY SameTree DEF Sleep
<1>2. TypeOK'
  BY DEF Sleep, IInv, TypeOK, recordVars, timeVars
<1>3. Leaves'
  BY <1>1, SchedulerAssumption DEF Sleep, IInv, Leaves, Waits, recordVars
<1>4. Phases' /\ NoneAhead' /\ RunsInOrder'
  BY <1>1 DEF Sleep, IInv, Phases, NoneAhead, RunsInOrder, recordVars
<1>5. Woken' /\ NoSpuriousWakeup'
  BY DEF Sleep, IInv, Woken, NoSpuriousWakeup, recordVars, timeVars
<1> QED BY <1>1, <1>2, <1>3, <1>4, <1>5 DEF IInv

-----------------------------------------------------------------------------
(***************************************************************************)
(* The theorems.                                                           *)
(***************************************************************************)
LEMMA InitHolds == Init => IInv
<1> SUFFICES ASSUME Init PROVE IInv
  OBVIOUS
<1>1. /\ Pow2[RootDepth] \in Nat \ {0} /\ RootDepth \in Nat /\ Cardinality(Act) \in Nat
      /\ ssm_top_parent \notin Act /\ NULL \notin Act \cup {ssm_top_parent}
  BY Powers, SchedulerAssumption, FS_CardinalityType
<1>2. TypeOK
  BY <1>1, SchedulerAssumption DEF Init, TypeOK, MaxPriority, Unwritten
<1>3. Live = {}
  BY DEF Init, Live
<1>4. Tree
  <2>1. \A a : Children(a) = {}
    BY <1>3 DEF Children
  <2> QED BY <1>3, <2>1, FS_EmptySet DEF Tree, Init
<1>5. Inside /\ Nested /\ (\A a \in Live : End(a) <= Unwritten)
  BY <1>3 DEF Inside, Nested
<1>6. Leaves /\ Phases /\ RunsInOrder /\ NoneAhead
  BY <1>1, <1>3 DEF Init, Leaves, Waits, Phases, RunsInOrder, NoneAhead
<1>7. Woken /\ NoSpuriousWakeup
  BY DEF Init, Woken, NoSpuriousWakeup
<1> QED BY <1>2, <1>4, <1>5, <1>6, <1>7 DEF IInv

LEMMA StepKeeps == IInv /\ [Next]_vars => IInv'
<1> SUFFICES ASSUME IInv, [Next]_vars PROVE IInv'
  OBVIOUS
<1>1. CASE \E kids \in Families(RootDepth) : Start(kids)
  BY <1>1, StartKeeps
<1>2. CASE (\E v \in SV, when \in 1..LastTime : Input(v, when)) \/ Tick \/ EndUpdates \/ EndTick
  BY <1>2, PlatformKeeps
<1>3. CASE \E v \in SV : Update(v)
  BY <1>3, UpdateKeeps
<1>4. ASSUME NEW a \in Act, RunNext(a) PROVE IInv'
  BY <1>4, RunNextKeeps
<1>5. ASSUME NEW a \in Act, Step(a) PROVE IInv'
  <2>1. running = a
    BY <1>5 DEF Step
  <2>2. ASSUME NEW v \in SV, \/ Sensitize(a, v)
                             \/ Desensitize(a, v)
                             \/ Assign(a, v)
                             \/ \E when \in 1..LastTime : Later(a, v, when)
                             \/ Recycle(a, v)
        PROVE  IInv'
    <3>1. CASE Sensitize(a, v) \/ Desensitize(a, v)
      BY <2>1, <3>1, SensitizeKeeps
    <3>2. CASE Assign(a, v)
      BY <2>1, <3>2, AssignKeeps
    <3>3. CASE (\E when \in 1..LastTime : Later(a, v, when)) \/ Recycle(a, v)
      BY <2>1, <3>3, LaterKeeps
    <3> QED BY <2>2, <3>1, <3>2, <3>3
  <2>3. CASE Sleep(a)
    BY <2>1, <2>3, SleepKeeps
  <2>4. CASE \E kids \in Families(depth[a]) : Par(a, kids)
    BY <2>1, <2>4, ParKeeps
  <2>5. CASE Leave(a)
    BY <2>1, <2>5, LeaveKeeps
  <2>6. \/ \E v \in SV : \/ Sensitize(a, v)
                         \/ Desensitize(a, v)
                         \/ Assign(a, v)
                         \/ \E when \in 1..LastTime : Later(a, v, when)
                         \/ Recycle(a, v)
        \/ Sleep(a)
        \/ \E kids \in Families(depth[a]) : Par(a, kids)
        \/ Leave(a)
    BY <1>5, Zenon DEF Step
  <2> QED BY <2>2, <2>3, <2>4, <2>5, <2>6
<1>6. CASE UNCHANGED vars
  <2>1. /\ Tree' /\ Inside' /\ Nested' /\ (\A b \in Live : End(b) <= Unwritten)'
        /\ Live' = Live /\ \A b : Ancestors(b)' = Ancestors(b)
    BY <1>6, SameTree DEF vars
  <2>2. TypeOK'
    BY <1>6 DEF vars, recordVars, timeVars, IInv, TypeOK
  <2>3. Leaves' /\ Phases' /\ RunsInOrder' /\ NoneAhead'
    BY <1>6, <2>1 DEF vars, recordVars, timeVars, IInv, Leaves, Waits, Phases, RunsInOrder,
                      NoneAhead
  <2>4. Woken' /\ NoSpuriousWakeup'
    BY <1>6 DEF vars, recordVars, timeVars, IInv, Woken, NoSpuriousWakeup
  <2> QED BY <2>1, <2>2, <2>3, <2>4 DEF IInv
<1> QED BY <1>1, <1>2, <1>3, <1>4, <1>5, <1>6 DEF Next

LEMMA Invariance == Spec => []IInv
BY InitHolds, StepKeeps, PTL DEF Spec

\* Everything keeps its type: no priority or depth leaves its range however often
\* ranges are divided (ssm.h's SSM_ROOT_DEPTH), no child count exceeds the records.
THEOREM TypeCorrect == Spec => []TypeOK
<1>1. IInv => TypeOK
  BY DEF IInv
<1> QED BY <1>1, Invariance, PTL

\* A record that leaves is in no queue and in no trigger list, and neither is
\* the parent it resumes in the queue, although ssm_leave checks nothing.
THEOREM FreedIsUnreachable == Spec => []NothingFreedIsReachable
<1>1. IInv => NothingFreedIsReachable
  <2> SUFFICES ASSUME IInv PROVE NothingFreedIsReachable
    OBVIOUS
  <2>1. \A v \in SV : \A a \in triggers[v] : a \in Live
    BY DEF IInv, TypeOK, Leaves, Waits
  <2>2. scheduled \cup stepped \subseteq Live
    BY DEF IInv, TypeOK, Leaves
  <2>3. running # NULL => running \in Live /\ running \notin scheduled
    BY DEF IInv, TypeOK, Leaves, Phases
  <2> QED BY <2>1, <2>2, <2>3 DEF NothingFreedIsReachable, IInv, Tree
<1> QED BY <1>1, Invariance, PTL

\* The child count of ssm_act_t is the number of children, and a record that has any
\* is neither queued nor waiting for a variable: ssm_leave alone resumes it.
THEOREM ParentsResumeLast == Spec => []ParentsWait
<1>1. IInv => ParentsWait
  BY DEF IInv, ParentsWait, Tree, Leaves, Live
<1> QED BY <1>1, Invariance, PTL

\* Priorities divided as the step functions divide them never tie in the queue.
THEOREM PrioritiesDiffer == Spec => []NoTies
<1>1. IInv => NoTies
  <2> SUFFICES ASSUME IInv, NEW a \in scheduled, NEW b \in scheduled, a # b
               PROVE  priority[a] # priority[b]
    BY DEF NoTies
  <2>1. a \in Live /\ b \in Live /\ children[a] = 0 /\ children[b] = 0
    BY DEF IInv, TypeOK, Leaves
  <2> QED BY <2>1, LeavesApart
<1> QED BY <1>1, Invariance, PTL

\* Within an instant control passes down the order of priorities and never back.
THEOREM ControlGoesForward == Spec => []RunsInOrder
<1>1. IInv => RunsInOrder
  BY DEF IInv
<1> QED BY <1>1, Invariance, PTL

\* Whoever waits for a variable that was written before it in the instant runs in
\* that instant.
THEOREM WakeupsHappen == Spec => []NoLostWakeup
<1>1. IInv => NoLostWakeup
  BY DEF IInv, Woken, NoLostWakeup
<1> QED BY <1>1, Invariance, PTL

\* Nobody but a new record is queued without a write to what it waits for.
THEOREM WakeupsHaveCauses == Spec => []NoSpuriousWakeup
<1>1. IInv => NoSpuriousWakeup
  BY DEF IInv
<1> QED BY <1>1, Invariance, PTL
=============================================================================
