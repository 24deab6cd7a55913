\* Two tabs and a download; midnight passes twice, and a click ends one run.
CONSTANTS
  Tabs = {desktop, laptop}
  Export = download
  Last = 2
  Quoted = {1, 2}
  Qualified = {1, 2}
  Year <- MCYear
  Rank <- MCRank
  Batch = 1
  None = None
  MaxCuts = 1
  MaxCutoff = 2
SPECIFICATION FairSpec
INVARIANTS MetadataMatch CompleteIsWhole OneRevision
PROPERTIES AutoFinishes
CHECK_DEADLOCK FALSE
