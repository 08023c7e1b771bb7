SPECIFICATION Spec
CONSTANTS
  LightsCaller = {1, 2}
  n_lights = 2
  CounterCaller = {1, 2}
  has_dec = TRUE
  MaxTarget = 4
  Unknown = 9
  ResetCosts = {1, 3}
  MaxPulses = 2
  MaxSpeed = 3
  jerk = 1
  Accelerations = {1, 2}
  Place = {0, 1, 2, 5}
  touch_delta = 1
  Id = {0, 1, 2, 3}
  MaxBytes = 3
  ByteMod = 5
  Resumer = {1, 2}
  Wrapper = {"a", "b", "c"}
  StopUser = {"a", "b"}
  SkullCaller = {"a", "b"}
  n_ops <- TwoLists
  Alarm = {1, 2, 3}
  FileTask = {"a", "b", "c"}
  ConsoleThread = {"a", "b", "c"}
  sleep_after_ms = 12
INVARIANTS
  TypeOK
  DeviceIsAsBelieved
  RequestsAreFollowed
  CallsStop
  SharedDataIsWhole
CHECK_DEADLOCK FALSE
