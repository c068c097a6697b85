SPECIFICATION Spec
CONSTANTS
  Calls = {c1, c2}
  Rates = 3
  PerTick <- MCRates
  Token = 6
  Second = 3
  MaxSleep = 3
  MaxAttempts = 3
  MaxRetries = 1
  ClockSettings = {2}
  MaxTime = 5
SYMMETRY Symmetry
CHECK_DEADLOCK FALSE
INVARIANTS
  RateIsLimited
  RefusedUnderLoad
