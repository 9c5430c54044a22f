\* Two lists, and triggers enough to take one from the middle of a list.
CONSTANTS
  Vars = {v1, v2}
  Triggers = {1, 2, 3}
  Nil = Nil
  priority <- MCPriority
  First = 0
SPECIFICATION FairSpec
INVARIANTS
  BackPointersAgree
PROPERTIES
  ImplementsSets
  WalksEnd
