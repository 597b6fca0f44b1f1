CONSTANTS
  dispatcher = dispatcher
  protection = protection
  Required <- MCRequired
  FanDriver <- MCBoth
SPECIFICATION FairStartup
INVARIANTS VerdictExact OutputOnlyAfterHealthyStart
PROPERTY StartupEnds
CHECK_DEADLOCK FALSE
