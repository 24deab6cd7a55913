\* A spread ticket and a basket in one session, two lines each, two reviews.
CONSTANTS
  Pages = {spread, basket}
  Baskets = {basket}
  Lines = {l1, l2}
  Terms = {t1}
  Window = 1
  None = None
  MaxReviews = 2
  MaxClock = 2
  MaxCuts = 1
SPECIFICATION Spec
INVARIANTS BasketOnce OnlyWholeReviews AgainOnlyIfCut
PROPERTIES BasketStopsAtDoubt OnlyTheCurrentTicket
CHECK_DEADLOCK FALSE
SYMMETRY Alike
