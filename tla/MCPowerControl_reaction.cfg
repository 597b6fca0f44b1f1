CONSTANTS
  MockFeedback = FALSE
  RelayCanFail = FALSE
  LimitChoice <- MCLimits
  Submenu = {}
  MaxMail = 1
  MaxHistory = 0
SPECIFICATION FairSpec
PROPERTIES ShutdownHonoured LostTelemetryStopsOutput
