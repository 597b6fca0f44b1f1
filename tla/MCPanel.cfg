CONSTANTS
  Tours <- MCTours
  Modes <- MCModes
  Depth = 2
  MaxAttempts = 2

SPECIFICATION FairSpec
PROPERTIES WakeSwallowed ResetDeliberate InstallAuthenticated IdleGoesHome
CHECK_DEADLOCK FALSE
