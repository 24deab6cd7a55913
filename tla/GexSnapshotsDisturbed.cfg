\* A tab calculates another ticker while a job saves.
CONSTANTS
  Tabs = {tab}
  Jobs = {job}
  Tickers = {spy, qqq}
  Deletable = {}
  None = None
  Broken = Broken
  MaxClock = 2
  MaxEdits = 0
  MaxFaults = 0
SPECIFICATION Spec
PROPERTY JobIsSavedAnyway
CHECK_DEADLOCK FALSE
