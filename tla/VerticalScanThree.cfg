\* Three expirations, in batches of two; midnight passes once, and a click ends one run.
CONSTANTS
  Tabs = {desktop, laptop}
  Export = download
  Last = 3
  Quoted = {1, 2, 3}
  Qualified = {1, 2, 3}
  Year <- MCYear
  Rank <- MCRank
  Batch = 2
  None = None
  MaxCuts = 1
  MaxCutoff = 1
SPECIFICATION Spec
INVARIANTS TypeOK MetadataMatch CompleteIsWhole OneRevision
CHECK_DEADLOCK FALSE
