\* A counter that wraps at 4, in a time of more than one range; three inputs
\* through a buffer of two slots in use.
CONSTANTS
  HalfRange = 2
  MaxTime = 5
  SSM_INPUT_RB_SIZE = 3
  Handlers = {h1, h2}
  NumInputs = 3
  Never = 100
SPECIFICATION FairSpec
CHECK_DEADLOCK FALSE
INVARIANTS
  TimesExact
  InputsNotPast
  InputsInOrder
  SleepsEnd
  AlarmHasCallback
PROPERTY
  InputsConsumed
