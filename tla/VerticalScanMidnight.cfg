\* Midnight passes during a download.
CONSTANTS
  Tabs = {desktop, laptop}
  Export = download
  Last = 2
  Quoted = {1, 2}
  Qualified = {1, 2}
  Year <- MCYear
  Rank <- MCRank
  Batch = 1
  None = None
  MaxCuts = 0
  MaxCutoff = 1
SPECIFICATION Spec
INVARIANTS EveryYearMarked
CHECK_DEADLOCK FALSE
