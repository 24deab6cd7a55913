\* A spread ticket with two accounts, and one click too many.
CONSTANTS
  Pages = {spread}
  Baskets = {}
  Lines = {l1, l2}
  Terms = {t1}
  Window = 1
  None = None
  MaxReviews = 1
  MaxClock = 1
  MaxCuts = 1
SPECIFICATION Spec
INVARIANTS OncePerAccount
CHECK_DEADLOCK FALSE
