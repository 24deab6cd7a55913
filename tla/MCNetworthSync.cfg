\* Two institutions: a run can be outdone for one of them and not for the other.
\* The institutions are interchangeable, the workers are not.
CONSTANTS
  Workers = {app, job}
  Runners = {job}
  Items = {bank, broker}
  Slots = {1}
  LeaseTTL = 1
  MaxTries = 2
  None = None
  MaxClock = 2
  MaxToken = 2
  MaxRuns = 2
  MaxEdits = 1
  MaxFaults = 0
SPECIFICATION Spec
PROPERTIES BalancesNeverGoBack
CHECK_DEADLOCK FALSE
SYMMETRY Banks
