\* Two tabs share one token and compete for two resources in a cache of one.
\* The clock passes the TTL, the retention and the way of an answer.
CONSTANTS
  Callers = {desktop, phone}
  Spaces = {token}
  Keys = {chain, quote}
  TTL = 1
  Retention = 1
  OfflineRetention = 1
  MaxEntries = 1
  MaxOffline = 1
  Latency = 1
  None = None
  MaxClock = 2
SPECIFICATION Spec
INVARIANTS Bounded FreshOrOffline
PROPERTIES NeverFarBack
CHECK_DEADLOCK FALSE
SYMMETRY Alike
