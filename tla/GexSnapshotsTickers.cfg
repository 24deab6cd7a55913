\* Two tickers, one result.
CONSTANTS
  Tabs = {tab}
  Jobs = {job}
  Tickers = {spy, qqq}
  Deletable = {spy, qqq}
  None = None
  Broken = Broken
  MaxClock = 2
  MaxEdits = 0
  MaxFaults = 0
SPECIFICATION FairSpec
INVARIANTS TypeOK SavedIsReadable
PROPERTIES BrowserKeepsAll JobIsSaved
CHECK_DEADLOCK FALSE
