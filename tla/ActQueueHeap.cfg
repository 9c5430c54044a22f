\* Five records, four priorities (so two records may tie), a queue of four.
CONSTANTS
  a1 = a1  a2 = a2  a3 = a3  a4 = a4  a5 = a5
  Act = {a1, a2, a3, a4, a5}
  NULL = NULL
  QueueSize = 4
  IndexValues = 9
  MaxPriority = 3
  ResetQueued = FALSE
SYMMETRY Symmetry
SPECIFICATION Spec
CHECK_DEADLOCK FALSE
INVARIANTS
  ScheduledIffQueued
  LeastRunsFirst
PROPERTIES
  ImplementsActSet
