SPECIFICATION FairSpec
CONSTANTS
  MaxSessions = 2
  MaxCreated = 6
INVARIANTS TypeOK ActiveIsApproved UnansweredAreShown ExcessIsApproved
PROPERTIES NewSparesApproved ExpiredLeave
