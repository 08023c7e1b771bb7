SPECIFICATION ReaderFairSpec
CONSTANTS
  Getter = {g1, g2}
  Main = Main
  Nobody = Nobody
  Char = {a, b}
  NoChar = NoChar
  buffer_n = 2
  HwMax = 3
INVARIANTS
  ReaderTypeOK
  NotStranded
PROPERTIES
  ImplementsFifo
  SleepersAreServed
