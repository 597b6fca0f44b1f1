CONSTANTS
  MaxEvents = 2
  MaxRequests = 2
SPECIFICATION FairSpec
INVARIANTS TypeOK StatusFollowsDriver PolicyHolds
PROPERTIES DisconnectHonoured Reconnects
CHECK_DEADLOCK FALSE
