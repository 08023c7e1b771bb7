SPECIFICATION FairSpec
CONSTANTS
  Producer = {p1, p2}
  Consumer = {k1, k2}
  Nobody = Nobody
  Buffer = {a, b}
  NoBuffer = NoBuffer
  n_buffers = 2
  SeqMod = 3
INVARIANTS
  TypeOK
  NoSleeperBesideItem
PROPERTIES
  ImplementsFifo
  ItemsAreConsumed
