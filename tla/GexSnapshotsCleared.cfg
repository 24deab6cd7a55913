\* Two tabs, two tickers, a crash: the file is replaced before another tab has read it.
CONSTANTS
  Tabs = {t1, t2}
  Jobs = {job}
  Tickers = {spy, qqq}
  Deletable = {}
  None = None
  Broken = Broken
  MaxClock = 2
  MaxEdits = 0
  MaxFaults = 1
SPECIFICATION Spec
PROPERTY NeverCleared
CHECK_DEADLOCK FALSE
