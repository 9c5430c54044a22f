\* ssm_sv_later_unsafe may drop the last reference to another pending variable.
CONSTANTS
  v1 = v1  v2 = v2  v3 = v3  v4 = v4
  SV = {v1, v2, v3, v4}
  NULL = NULL
  QueueSize = 4
  IndexValues = 9
  Never = 6
  MinDelay = 1
  MaxWhen = 5
  DropInLater = TRUE
  ResetPending = FALSE
SYMMETRY Symmetry
SPECIFICATION Spec
CHECK_DEADLOCK FALSE
INVARIANTS
  HeapOrderedBetweenCalls
