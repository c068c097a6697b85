SPECIFICATION QueueFairSpec
CONSTANTS
  r1 = r1
  r2 = r2
  r3 = r3
  Requests <- MCRequests
  MaxQueueSize = 2
INVARIANTS
  QueueTypeOK
  PendingHasTimer
PROPERTIES
  ImplementsLifecycle
