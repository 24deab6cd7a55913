\* Two tabs, two authorizations; the clock passes a midnight and the limit.
CONSTANTS
  Tabs = {desktop, phone}
  Inactivity = 2
  Day = 3
  NoSession = NoSession
  MaxToken = 2
  LastMoment = 4
SPECIFICATION SessionSpec
INVARIANTS DisconnectIsFinal
PROPERTIES RestoredInTime
CHECK_DEADLOCK FALSE
SYMMETRY Alike
