CONSTANTS
  Capacity = 2
  MaxEntry = 4
  adc = adc
  button = button
  events = events
  Reporter <- MCReporter
  Button = button
  EventTask = events
SPECIFICATION Spec
INVARIANTS MostRecentFirst CleanMeansSaved FaultsPersisted
