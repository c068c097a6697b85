SPECIFICATION FairSpec
CONSTANTS
  Requests = {r1, r2}
  MaxQueueSize = 1
  Polls = {p1, p2}
  Waited = {r1}
INVARIANTS
  ConfirmedIsTrue
  PollerMeansBroadcasted
PROPERTIES
  SettledWhenQuiet
  ImplementsLifecycle
  TrackedIsDecided
