\* One session, and nothing that fails.
CONSTANTS
  Plans = {a}
  None = None
  Shares = 2
  MaxOrders = 3
  MaxSessions = 1
  MaxFaults = 0
SPECIFICATION FairSpec
PROPERTY EndIsNoticed
