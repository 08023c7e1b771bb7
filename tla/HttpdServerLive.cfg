SPECIFICATION FairSpec
CONSTANTS
  Conn = {c1, c2}
  NoConn = NoConn
  Watched = {c1}
  MaxBlocks = 1
  MaxReplies = 0
PROPERTIES
  PartialBodiesFinish
