\* Three orders and one fault: an entry, its stop, and one more of either kind.
CONSTANTS
  Plans = {a, b}
  None = None
  Shares = 2
  MaxOrders = 3
  MaxSessions = 2
  MaxFaults = 1
SPECIFICATION FairSpec
INVARIANTS TypeOK StopsAreCovered
PROPERTIES NoBlindRetry NeverForgotten FillIsNoticed
