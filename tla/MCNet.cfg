SPECIFICATION NetSpec
CONSTANTS
  Message = {"p", "q"}
  Alert = {"q"}
  MaxId = 3
  HidUser = {"u", "v"}
  Config = {"x", "y"}
  MaxCid = 2
  Notification = {"volume"}
PROPERTIES
  ConnectionsAreAsRemembered
  RequestsAreAnswered
CHECK_DEADLOCK FALSE
