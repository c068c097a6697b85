SPECIFICATION FairSpec
CONSTANTS
  Requests = {r1, r2}
  Registry <- MCRegistry
  Order <- MCOrder
  Implemented <- MCImplemented
  MaxConsecutiveFailures = 2
  MaxChecks = 1
INVARIANTS TypeOK InUseBelowLimit NoneSkipped SelectionUsable
PROPERTY Recovers
