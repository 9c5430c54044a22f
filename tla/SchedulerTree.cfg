\* Four records with two bits of priority: up to four children, two levels of
\* forks, and records that are used again after they have left; three instants.
CONSTANTS
  a1 = a1  a2 = a2  a3 = a3  a4 = a4
  v1 = v1  v2 = v2
  Act = {a1, a2, a3, a4}
  SV = {v1, v2}
  ssm_top_parent = ssm_top_parent
  NULL = NULL
  RootDepth = 2
  LastTime = 2
  Never = 3
SYMMETRY Symmetry
SPECIFICATION Spec
CHECK_DEADLOCK FALSE
INVARIANTS
  NothingFreedIsReachable
  ParentsWait
  NoTies
  RunsInOrder
  NoLostWakeup
  NoSpuriousWakeup
