\* A counter that never wraps and in which no event is far ahead: an alarm can only
\* be set too late.
CONSTANTS
  HalfRange = 6
  MaxTime = 5
  SSM_INPUT_RB_SIZE = 3
  Handlers = {h1}
  NumInputs = 1
  Never = 100
SPECIFICATION Spec
CHECK_DEADLOCK FALSE
INVARIANT
  NoInternalError
