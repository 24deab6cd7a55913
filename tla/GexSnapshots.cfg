\* One tab, one ticker and one job at a time; one fault of any kind.
CONSTANTS
  Tabs = {tab}
  Jobs = {job}
  Tickers = {spy}
  Deletable = {spy}
  None = None
  Broken = Broken
  MaxClock = 2
  MaxEdits = 1
  MaxFaults = 1
SPECIFICATION FairSpec
INVARIANT SavedIsReadable
PROPERTIES BrowserKeepsAll JobIsSaved
CHECK_DEADLOCK FALSE
