\* One institution, a browser session and the scheduled worker, a run each, and
\* one edit and one fault of any kind at any moment.  The clock can pass the
\* lease of both runs.
CONSTANTS
  Workers = {app, job}
  Runners = {job}
  Items = {bank}
  Slots = {1}
  LeaseTTL = 1
  MaxTries = 2
  None = None
  MaxClock = 3
  MaxToken = 2
  MaxRuns = 2
  MaxEdits = 1
  MaxFaults = 1
SPECIFICATION Spec
INVARIANTS ArchivedBeforeCheckpoint NoResurrection PaidReadsExclusive
PROPERTIES BalancesNeverGoBack UserEditsSurvive OnlyTheOwnerSaves
CHECK_DEADLOCK FALSE
