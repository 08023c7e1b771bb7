SPECIFICATION FairSpec
CONSTANTS
  SameCore = TRUE
  BlockMod = 5
INVARIANTS
  TypeOK
  AssertsHold
  CutOnlyAfterDisable
PROPERTIES
  CopyIsSafe
  BlocksInOrder
  PlayerIsResumed
