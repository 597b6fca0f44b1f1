CONSTANTS
  SystemEventQueueLength = 2
  Quantity <- MCQuantity
  Posted <- MCPosted
  Watched <- MCWatched
  SubscriberQueueLength <- MCLength
  MaxBurst = 1
SPECIFICATION Spec
INVARIANTS CriticalFirst PreemptionServed
PROPERTIES EnforcerChannel AlarmGiven
