\* Three runs: one archives a capture and stops, one overtakes it and one
\* recovers it.
CONSTANTS
  Workers = {app, job}
  Runners = {job}
  Items = {bank}
  Slots = {1}
  LeaseTTL = 1
  MaxTries = 2
  None = None
  MaxClock = 2
  MaxToken = 2
  MaxRuns = 3
  MaxEdits = 0
  MaxFaults = 1
SPECIFICATION Spec
PROPERTIES BalancesNeverGoBack
CHECK_DEADLOCK FALSE
