CONSTANTS
  Writers = {"button"}
  Plain = {"VALUE_EDIT"}
  Timed = {"WIFI_CONNECTING"}
  Kinds = {0, 3}
  Returns = {"AUTO", "MENU"}
  QueueDepth = 1
  FullInitAfter = 2
  MaxEvents = 3
SPECIFICATION FairDisplay
INVARIANT CacheTruthful
PROPERTIES UrgentKept  GlassCatchesUp
CHECK_DEADLOCK FALSE
