CONSTANTS
  SystemEventQueueLength = 2
  Quantity <- MCQuantity
  PassOrder <- MCOrder
  Reading <- MCReading
  NonFinite = NaN
  NaN = NaN
  DefaultLimits <- MCDefault
  ThresholdChoice <- MCChoice
  Cutoff = 2
  MaxFaultCount = 1
SPECIFICATION FairProtection
INVARIANT FaultAccountedFor
PROPERTIES LatchSpec QueuedShutdownDispatched
