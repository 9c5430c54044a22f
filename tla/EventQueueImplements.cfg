\* Four variables in a queue of three, events for the current instant allowed:
\* every way of stopping that EventSet permits is reached.
CONSTANTS
  v1 = v1  v2 = v2  v3 = v3  v4 = v4
  SV = {v1, v2, v3, v4}
  NULL = NULL
  QueueSize = 3
  IndexValues = 7
  Never = 4
  MinDelay = 0
  MaxWhen = 3
  DropInLater = FALSE
  ResetPending = FALSE
SPECIFICATION FairSpec
CHECK_DEADLOCK FALSE
PROPERTIES
  ImplementsEventSet
  CallsReturn
