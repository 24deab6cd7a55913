\* A job saves between the comparison and the copy of a backup.
CONSTANTS
  Tabs = {t1, t2}
  Jobs = {job}
  Tickers = {spy}
  Deletable = {spy}
  None = None
  Broken = Broken
  MaxClock = 2
  MaxEdits = 0
  MaxFaults = 1
SPECIFICATION Spec
PROPERTY BackupIsNewer
CHECK_DEADLOCK FALSE
