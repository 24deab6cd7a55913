\* One session and one run that is cut short: an entry, a stop and another stop.
CONSTANTS
  Plans = {a}
  None = None
  Shares = 2
  MaxOrders = 3
  MaxSessions = 1
  MaxFaults = 1
SPECIFICATION Spec
INVARIANT OneStop
