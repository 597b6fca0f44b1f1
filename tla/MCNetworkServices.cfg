SPECIFICATION Spec
CONSTANTS
  Modes = {"STA", "AP"}
  MaxChanges = 2
  MaxTrouble = 2
INVARIANTS TypeOK NewestApplied StopHolds NothingOrphaned
CHECK_DEADLOCK FALSE
