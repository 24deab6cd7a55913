\* Two tabs; a run of DISCONNECT that a click ends before the token is dropped.
CONSTANTS
  Tabs = {desktop, phone}
  Inactivity = 2
  Day = 3
  NoSession = NoSession
  MaxToken = 2
  LastMoment = 4
SPECIFICATION SessionSpec
PROPERTY DisconnectIsHeld
CHECK_DEADLOCK FALSE
