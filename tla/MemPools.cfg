\* Two pools, of blocks of one and two units, and two pages of four units: with
\* three live objects a pool can use up a page, takes another then or in advance,
\* and links it to the one it has.
CONSTANTS
  Kinds = {"adt", "time", "sv", "blob"}
  AllocSize <- Allocated
  FreeSize <- Freed
  LargeSize = 3
  PoolCount = 2
  Factor = 1
  PageSize = 4
  MaxPages = 2
  MaxLive = 3
SPECIFICATION Spec
CHECK_DEADLOCK FALSE
INVARIANTS
  EveryBlockLiveOrFree
PROPERTIES
  ImplementsAllocator
