\* Two plans, so that a review can be overtaken by an edit; orders of two shares,
\* so that a fill can be partial; an entry, and its stop or another entry; one
\* reload of the page; two orders that are not answered or runs cut short.
CONSTANTS
  Plans = {a, b}
  None = None
  Shares = 2
  MaxOrders = 2
  MaxSessions = 2
  MaxFaults = 2
SPECIFICATION FairSpec
INVARIANT StopsAreCovered
PROPERTIES NoBlindRetry NeverForgotten FillIsNoticed
