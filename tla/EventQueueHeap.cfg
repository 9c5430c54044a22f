\* Six variables in a queue with room for all.  Six is the least number at
\* which removing an entry can make the last one move up (slot 6 into slot 4).
CONSTANTS
  v1 = v1  v2 = v2  v3 = v3  v4 = v4  v5 = v5  v6 = v6
  SV = {v1, v2, v3, v4, v5, v6}
  NULL = NULL
  QueueSize = 6
  IndexValues = 13
  Never = 4
  MinDelay = 1
  MaxWhen = 3
  DropInLater = FALSE
  ResetPending = FALSE
SYMMETRY Symmetry
SPECIFICATION Spec
CHECK_DEADLOCK FALSE
INVARIANTS
  QueuedIffPending
  HeapOrderedBetweenCalls
  NothingDueBetweenTicks
  HeadIsTarget
  NoInternalFault
