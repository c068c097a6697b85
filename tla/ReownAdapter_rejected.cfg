SPECIFICATION Spec
CONSTANTS
  Requests = {r1}
  MaxQueueSize = 1
  Polls = {p1}
  Waited = {}
INVARIANT NoBroadcastAfterRejection
