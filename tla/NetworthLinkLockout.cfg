\* Two tabs poll one link; one write may fail.
CONSTANTS
  Sessions = {desktop, phone}
  first = first
  second = second
  bank = bank
  broker = broker
  Links = {first}
  Offered <- OfferedInLinks
  None = None
  MaxFaults = 1
SPECIFICATION FairLinkSpec
PROPERTIES CompletionDetected
CHECK_DEADLOCK FALSE
