\* No fault at all: two runs that overlap and one reconnection in between.
CONSTANTS
  Workers = {app, job}
  Runners = {job}
  Items = {bank}
  Slots = {1}
  LeaseTTL = 1
  MaxTries = 2
  None = None
  MaxClock = 2
  MaxToken = 2
  MaxRuns = 2
  MaxEdits = 1
  MaxFaults = 0
SPECIFICATION Spec
INVARIANTS CompleteIsCurrent
CHECK_DEADLOCK FALSE
