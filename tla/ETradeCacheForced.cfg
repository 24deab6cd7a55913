\* One tab and one resource.
CONSTANTS
  Callers = {desktop}
  Spaces = {token}
  Keys = {chain}
  TTL = 1
  Retention = 1
  OfflineRetention = 1
  MaxEntries = 1
  MaxOffline = 1
  Latency = 1
  None = None
  MaxClock = 2
SPECIFICATION Spec
INVARIANTS ForcedIsFresh
CHECK_DEADLOCK FALSE
