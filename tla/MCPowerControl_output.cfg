CONSTANTS
  MockFeedback = TRUE
  RelayCanFail = TRUE
  LimitChoice <- MCLimits
  Submenu = {"DIAGNOSTIC"}
  MaxMail = 0
  MaxHistory = 1
SPECIFICATION Spec
INVARIANTS EnergisedOnlyIfReady RelayFollowsState
