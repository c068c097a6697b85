SPECIFICATION Spec
CONSTANTS
  e1 = e1
  e2 = e2
  A = A
  B = B
  None = None
  Entries = {e1, e2}
  Ids = {A, B}
  IdOf <- FailoverIdOf
  Rank <- MCRank
  RateLimit <- MCRateLimit
  Initial = {e1, e2}
  Callers = {c1, c2}
  Checkers = {}
  MaxConsecutiveFailures = 2
SYMMETRY Symmetry
INVARIANTS
  TypeOK
  RateOvershootBounded
  FailureOvershootBounded
  FailoverInOrder
  GivesUpOnlyWhenExhausted
