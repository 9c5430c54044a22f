CONSTANTS
  WordBits = 30
  CountBits = 8
  Never = 2000000000
  RootDepth = 14
  Second = 1000
  Arguments = {0, 1, 2, 3, 4, 5}
  Limits = {0, 3, 20}
  Inputs <- MCInputs
SPECIFICATION Spec
INVARIANTS
  NothingGoneIsUsed
  RightResults
  EchoesWhatItHears
  CircuitSettles
  NothingLeft
