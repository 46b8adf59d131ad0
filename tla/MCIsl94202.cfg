\* Three events (calls, trips, changes of the mode, resets), one failing
\* transfer.
CONSTANTS
  MaxEvents = 3
  MaxFaults = 1

SPECIFICATION Spec
INVARIANTS
  OffIsReported
  BalancingIsOff
PROPERTIES
  ClosesOnlyAsked
  OnTimeFits
CHECK_DEADLOCK FALSE
