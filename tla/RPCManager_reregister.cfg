SPECIFICATION FairSpec
CONSTANTS
  e1 = e1
  e2 = e2
  A = A
  B = B
  None = None
  Entries = {e1, e2}
  Ids = {A}
  IdOf <- ReregisterIdOf
  Rank <- MCRank
  RateLimit <- MCRateLimit
  Initial = {e1}
  Callers = {c1}
  Checkers = {h1, h2}
  MaxConsecutiveFailures = 2
INVARIANTS
  HealthyBelowThreshold
  RecordsMatchProviders
PROPERTIES
  LeavesFetch
  Recovers
