SPECIFICATION RefSpec
CONSTANTS
  WordBits = 4
  CountBits = 2
  Never = 9
  MaxObjects = 3
  MaxRefs = 2
  MaxHeld = 3
  MaxLost = 1
  Caps = {2}
  Leaves = {"time"}
  Cycles = FALSE
INVARIANTS CountsAreReferences NoFreedMemoryUsed
PROPERTY ImplementsCollector
CHECK_DEADLOCK FALSE
