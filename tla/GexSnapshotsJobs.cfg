\* Two jobs, one started before the other has saved, and one fault.
CONSTANTS
  Tabs = {tab}
  Jobs = {first, second}
  Tickers = {spy}
  Deletable = {spy}
  None = None
  Broken = Broken
  MaxClock = 2
  MaxEdits = 1
  MaxFaults = 1
SPECIFICATION Spec
INVARIANTS TypeOK SavedIsReadable
PROPERTY BrowserKeepsAll
CHECK_DEADLOCK FALSE
