\* Time 8 with a long press of 2 (in the code 30 intervals of 100 ms), two
\* events, single failing transfers.
CONSTANTS
  Chips = {"bq769x0", "bq769x2", "isl94202"}
  Limits <- MCLimits
  Batteries <- MCBatteries
  GarbageCurrents <- MCGarbageCurrents
  GarbageFlags <- MCGarbageFlags
  CellType = "NMC"
  Full = 2000
  LongPress = 2
  Release = 3
  MaxTime = 8
  MaxEvents = 2
  MaxFaults = 1

SPECIFICATION Spec
INVARIANTS
  TypeOK
  ChargeIsCounted
  LongPressIsSeen
PROPERTIES
  SuccessIsFresh
  OvertempHolds
  DetectionIsRight
  OnlyLongPress
CHECK_DEADLOCK FALSE
