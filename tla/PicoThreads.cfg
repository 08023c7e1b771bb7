SPECIFICATION FairSpec
CONSTANTS
  t1 = t1
  t2 = t2
  t3 = t3
  Thread = {t1, t2, t3}
  NoThread = NoThread
  Timed = {t1}
  Resumed = {t1, t2}
  MaxList = 4
INVARIANTS
  TypeOK
  SleepersAreListed
PROPERTIES
  BroadcastWakesAll
  SignalNotLost
  SignalsReachEveryone
CHECK_DEADLOCK FALSE
