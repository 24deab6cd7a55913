\* Two tabs and a download; midnight passes once.
CONSTANTS
  Tabs = {desktop, laptop}
  Export = download
  Last = 3
  Quoted = {1, 2}
  Qualified = {1, 2}
  Year <- MCYear
  Rank <- MCRank
  Batch = 2
  None = None
  MaxCuts = 0
  MaxCutoff = 1
SPECIFICATION Spec
INVARIANTS ChoicesAreCurrent
CHECK_DEADLOCK FALSE
