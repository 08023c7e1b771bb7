SPECIFICATION Spec
CONSTANTS
  SameCore = FALSE
  BlockMod = 5
INVARIANTS
  NobodyIsBlocked
