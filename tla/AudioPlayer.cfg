SPECIFICATION PlayerFairSpec
CONSTANTS
  Client = {k1, k2, k3}
  Sound = {s1, s2}
  NoSound = NoSound
INVARIANTS
  PlayerTypeOK
  DeviceHasOneUser
  AcceptedSoundIsSeen
PROPERTIES
  BufferIsStable
  SleepersWake
CHECK_DEADLOCK FALSE
