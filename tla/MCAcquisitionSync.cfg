\* Two processes and three syncs, over more days than a query covers.
CONSTANTS
  Workers = {w1, w2}
  Txs = {a}
  HistoryDays = 2
  OverlapDays = 1
  Lateness = 1
  None = None
  MaxSyncs = 3
  MaxDay = 2
SPECIFICATION Spec
INVARIANTS CoverageIsHonest CleanIsSaved TextIsWhole
PROPERTIES NothingForgotten
CHECK_DEADLOCK FALSE
SYMMETRY Alike
