\* Two tabs, a link of two institutions, a link that reconnects one of them.
CONSTANTS
  Sessions = {desktop, phone}
  first = first
  second = second
  bank = bank
  broker = broker
  Links = {first, second}
  Offered <- OfferedInLinks
  None = None
  MaxFaults = 2
SPECIFICATION LinkSpec
INVARIANTS NoTokenLost ProcessedIsSaved
PROPERTIES FinishedIsSaved RemovedStaysRemoved
CHECK_DEADLOCK FALSE
SYMMETRY Tabs
