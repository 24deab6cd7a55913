\* One reload of the page, and nothing that fails.
CONSTANTS
  Plans = {a}
  None = None
  Shares = 2
  MaxOrders = 3
  MaxSessions = 2
  MaxFaults = 0
SPECIFICATION Spec
PROPERTY LogIsPersistent
