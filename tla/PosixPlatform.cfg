\* Four inputs through a buffer of three slots, of which two can be in use, and
\* a pipe of one byte, which an input consumed without a sleep leaves full.
CONSTANTS
  SSM_INPUT_RB_SIZE = 3
  PipeSize = 1
  NumInputs = 4
  MaxTime = 3
  Never = 4
SPECIFICATION FairSpec
CHECK_DEADLOCK FALSE
INVARIANTS
  InputsNotPast
  InputsInOrder
  NoInputSleptThrough
PROPERTIES
  InputsConsumed
  HandlerReturns
