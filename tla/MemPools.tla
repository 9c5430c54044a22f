------------------------------ MODULE MemPools ------------------------------
(***************************************************************************)
(* The allocator of ssm-mem.c: a free list of equal blocks for every pool, *)
(* pages taken from the platform when a list is empty, and larger ranges   *)
(* left to the platform.                                                   *)
(*                                                                         *)
(* Memory is counted in units of SSM_MEM_POOL_MIN bytes.  Of a unit only   *)
(* the first word matters, the link of a free block.  A fresh page is not  *)
(* linked: a link that reads zero stands for the block that follows in     *)
(* memory, and only the page's last block is given a link.  So the lists   *)
(* are sound only while every free block but those of a page's untouched   *)
(* tail has had its link written, over whatever its owner left there.      *)
(***************************************************************************)
EXTENDS Integers, FiniteSets, FiniteSetsExt, Functions

CONSTANTS
  Kinds,      \* the kinds of objects
  AllocSize,  \* the size each kind is allocated with, in units
  FreeSize,   \* the size each kind is freed with
  LargeSize,  \* at least the size of every kind (a bound)
  PoolCount,  \* SSM_MEM_POOL_COUNT
  Factor,     \* SSM_MEM_POOL_FACTOR_BASE2
  PageSize,   \* SSM_MEM_PAGE_SIZE, in units
  MaxPages,   \* the pages the platform has
  MaxLive     \* at most this many objects live at once (a bound)

\* 1 << n
Pow2[n \in 0..(Factor * PoolCount)] == IF n = 0 THEN 1 ELSE 2 * Pow2[n - 1]

PoolSize(p) == Pow2[Factor * p]

\* A page can be divided into blocks of any pool.  No kind is freed with a larger
\* size than it was allocated with, nor by free_mem if it came from a pool.
ASSUME MemPoolsAssumption ==
  /\ PoolCount \in Nat \ {0} /\ Factor \in Nat \ {0}
  /\ PageSize \in Nat \ {0} /\ MaxPages \in Nat /\ MaxLive \in Nat /\ LargeSize \in Nat
  /\ \A p \in 0..(PoolCount - 1) : PageSize % PoolSize(p) = 0
  /\ AllocSize \in [Kinds -> 1..LargeSize]
  /\ FreeSize \in [Kinds -> 1..LargeSize]
  /\ \A k \in Kinds :
       /\ FreeSize[k] <= AllocSize[k]
       /\ AllocSize[k] > PoolSize(PoolCount - 1) => FreeSize[k] > PoolSize(PoolCount - 1)

VARIABLES
  next,             \* the first word of every unit of every page
  free_list_head,   \* of every pool
  allocated_pages,
  live,             \* the live objects: address and kind
  page_pool,        \* auxiliary: the pool each page was allocated for
  error

poolVars == <<next, free_list_head, allocated_pages, page_pool>>
vars == <<poolVars, live, error>>

Pools == 0..(PoolCount - 1)
Units == 1..(MaxPages * PageSize)

UNINITIALIZED_FREE_BLOCK == 0
END_OF_FREELIST          == -1
Data                     == -2   \* what an owner wrote, which is no link
Links == Units \cup {UNINITIALIZED_FREE_BLOCK, END_OF_FREELIST, Data}

\* Mutant: accepts a pool whose blocks are one unit too small.
FindPoolOffByOne(size) == Min({p \in Pools : size <= PoolSize(p) + 1} \cup {PoolCount})

\* find_pool_size: the first pool that fits, or PoolCount when none does.
FindPool(size) == Min({p \in Pools : size <= PoolSize(p)} \cup {PoolCount})

\* find_next_block
NextBlock(links, block, p) ==
  IF links[block] = UNINITIALIZED_FREE_BLOCK THEN block + PoolSize(p)
                                             ELSE links[block]

\* The memory of the platform's alloc_mem: far from the pages.
Large == {MaxPages * PageSize + 1 + i * LargeSize : i \in 0..MaxLive}

\* ssm_mem_init
Init ==
  /\ next = [u \in Units |-> UNINITIALIZED_FREE_BLOCK]
  /\ free_list_head = [p \in Pools |-> END_OF_FREELIST]
  /\ allocated_pages = 0
  /\ live = {}
  /\ page_pool = [n \in 1..MaxPages |-> PoolCount]
  /\ error = "none"

-----------------------------------------------------------------------------
(***************************************************************************)
(* Pages.  The platform's pages are zero and are never given back.         *)
(***************************************************************************)
NewPage == allocated_pages * PageSize + 1

LastBlock(p) == NewPage + PageSize - PoolSize(p)

\* alloc_pool: the page is a list that goes on with the old one.
WithNewPage(p) == [next EXCEPT ![LastBlock(p)] = free_list_head[p]]

TakePage(p) ==
  /\ allocated_pages < MaxPages
  /\ next' = WithNewPage(p)
  /\ allocated_pages' = allocated_pages + 1
  /\ page_pool' = [page_pool EXCEPT ![allocated_pages'] = p]

\* One iteration of ssm_mem_prealloc; those of a call differ in nothing from
\* calls of their own.
Prealloc(k) ==
  /\ FindPool(AllocSize[k]) \in Pools
  /\ TakePage(FindPool(AllocSize[k]))
  /\ free_list_head' = [free_list_head EXCEPT ![FindPool(AllocSize[k])] = NewPage]
  /\ UNCHANGED <<live, error>>

-----------------------------------------------------------------------------
(***************************************************************************)
(* ssm_mem_alloc                                                           *)
(***************************************************************************)
Given(k, at) ==
  /\ Cardinality(live) < MaxLive
  /\ live' = live \cup {[at |-> at, kind |-> k]}

AllocFromList(k) ==
  LET p == FindPool(AllocSize[k])
  IN  /\ p \in Pools
      /\ free_list_head[p] # END_OF_FREELIST
      /\ Given(k, free_list_head[p])
      /\ free_list_head' = [free_list_head EXCEPT ![p] = NextBlock(next, @, p)]
      /\ UNCHANGED <<next, allocated_pages, page_pool, error>>

AllocFromNewPage(k) ==
  LET p == FindPool(AllocSize[k])
  IN  /\ p \in Pools
      /\ free_list_head[p] = END_OF_FREELIST
      /\ TakePage(p)
      /\ Given(k, NewPage)
      /\ free_list_head' =
           [free_list_head EXCEPT ![p] = NextBlock(WithNewPage(p), NewPage, p)]
      /\ UNCHANGED error

\* alloc_page has no page left, for ssm_mem_alloc or ssm_mem_prealloc.
OutOfPages(k) ==
  /\ FindPool(AllocSize[k]) \in Pools
  /\ allocated_pages = MaxPages
  /\ error' = "exhausted_memory"
  /\ UNCHANGED <<poolVars, live>>

AllocLarge(k) ==
  /\ FindPool(AllocSize[k]) = PoolCount
  /\ \E at \in Large \ {o.at : o \in live} : Given(k, at)
  /\ UNCHANGED <<poolVars, error>>

(***************************************************************************)
(* ssm_mem_free.  Its owner has left data in every word of the object.     *)
(***************************************************************************)
Used(o) ==
  [u \in Units |-> IF u \in o.at..(o.at + AllocSize[o.kind] - 1) THEN Data ELSE next[u]]

\* Mutant: the block replaces the list instead of going in front of it.
FreeToEmptyList(o) ==
  LET p == FindPool(FreeSize[o.kind])
  IN  /\ p \in Pools
      /\ live' = live \ {o}
      /\ next' = [Used(o) EXCEPT ![o.at] = END_OF_FREELIST]
      /\ free_list_head' = [free_list_head EXCEPT ![p] = o.at]
      /\ UNCHANGED <<allocated_pages, page_pool, error>>

FreeToList(o) ==
  LET p == FindPool(FreeSize[o.kind])
  IN  /\ p \in Pools
      /\ live' = live \ {o}
      /\ next' = [Used(o) EXCEPT ![o.at] = free_list_head[p]]
      /\ free_list_head' = [free_list_head EXCEPT ![p] = o.at]
      /\ UNCHANGED <<allocated_pages, page_pool, error>>

FreeLarge(o) ==
  /\ FindPool(FreeSize[o.kind]) = PoolCount
  /\ live' = live \ {o}
  /\ UNCHANGED <<poolVars, error>>

Next ==
  /\ error = "none"
  /\ \/ \E k \in Kinds :
          \/ Prealloc(k)
          \/ AllocFromList(k)
          \/ AllocFromNewPage(k)
          \/ OutOfPages(k)
          \/ AllocLarge(k)
     \/ \E o \in live :
          \/ FreeToList(o)
          \/ FreeLarge(o)

Spec == Init /\ [][Next]_vars

-----------------------------------------------------------------------------
(***************************************************************************)
(* Properties                                                              *)
(***************************************************************************)
TypeOK ==
  /\ next \in [Units -> Links]
  /\ free_list_head \in [Pools -> Units \cup {END_OF_FREELIST}]
  /\ allocated_pages \in 0..MaxPages
  /\ live \subseteq [at : Units \cup Large, kind : Kinds]
  /\ page_pool \in [1..MaxPages -> Pools \cup {PoolCount}]
  /\ error \in {"none", "exhausted_memory"}

\* The list of p as ssm_mem_statistics_collect walks it, no further than it
\* can be long.
Walk(p) ==
  LET f[n \in 0..(MaxPages * PageSize)] ==
        IF n = 0 THEN free_list_head[p]
        ELSE LET b == f[n - 1]
             IN  IF b \in Units THEN NextBlock(next, b, p) ELSE b
  IN  f

FreeBlocks(p) == Range(Walk(p)) \ {END_OF_FREELIST}

\* The blocks that the pages of p were divided into.
Blocks(p) ==
  {(n - 1) * PageSize + 1 + i * PoolSize(p) :
     n \in {m \in 1..MaxPages : page_pool[m] = p}, i \in 0..(PageSize \div PoolSize(p) - 1)}

LiveBlocks == {o.at : o \in live} \ Large

\* From its head every free list comes to its end, through the unlinked tails
\* of fresh pages and the blocks that were given back, so no allocation follows a
\* word that an owner wrote; and every block of every page is live or in a free
\* list, and never two of them: none is handed out twice, and none is lost.  Only
\* what is freed with a smaller size changes its pool.
EveryBlockLiveOrFree ==
  /\ \A p \in Pools :
       /\ END_OF_FREELIST \in Range(Walk(p))
       /\ FreeBlocks(p) \subseteq UNION {Blocks(q) : q \in p..(PoolCount - 1)}
       /\ FreeBlocks(p) \cap LiveBlocks = {}
       /\ \A q \in Pools \ {p} : FreeBlocks(p) \cap FreeBlocks(q) = {}
  /\ UNION {Blocks(p) : p \in Pools} = (UNION {FreeBlocks(p) : p \in Pools}) \cup LiveBlocks

\* The pools behave as an allocator of disjoint ranges of memory.
Abstract == INSTANCE Allocator WITH Size <- AllocSize, Addresses <- Units \cup Large
ImplementsAllocator == Abstract!Spec
=============================================================================
