SPECIFICATION Spec
CONSTANTS
  Conn = {c1, c2}
  NoConn = NoConn
  Watched = {}
  MaxBlocks = 2
  MaxReplies = 3
SYMMETRY Perms
INVARIANTS
  TypeOK
  AssertsHold
  LoaderNeverReadsDestroyed
  ResponseInProgress
PROPERTIES
  AnswersAreWhole
