\* Two tabs: the page of one writes the browser copy after that of the other.
CONSTANTS
  Tabs = {t1, t2}
  Jobs = {job}
  Tickers = {spy}
  Deletable = {}
  None = None
  Broken = Broken
  MaxClock = 1
  MaxEdits = 0
  MaxFaults = 0
SPECIFICATION Spec
PROPERTY BrowserLosesOnlyDeleted
CHECK_DEADLOCK FALSE
