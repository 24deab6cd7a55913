\* Two tabs and one fault.
CONSTANTS
  Tabs = {t1, t2}
  Jobs = {job}
  Tickers = {spy}
  Deletable = {spy}
  None = None
  Broken = Broken
  MaxClock = 1
  MaxEdits = 0
  MaxFaults = 1
SPECIFICATION Spec
INVARIANTS TypeOK SavedIsReadable
PROPERTY BrowserKeepsAll
CHECK_DEADLOCK FALSE
