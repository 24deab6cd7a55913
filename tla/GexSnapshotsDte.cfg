\* Two tabs: one edits the DTE while the other starts a job.
CONSTANTS
  Tabs = {t1, t2}
  Jobs = {job}
  Tickers = {spy}
  Deletable = {spy}
  None = None
  Broken = Broken
  MaxClock = 2
  MaxEdits = 1
  MaxFaults = 0
SPECIFICATION Spec
PROPERTY DteStands
CHECK_DEADLOCK FALSE
