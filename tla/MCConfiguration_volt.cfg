\* Limits stored back by the bq769x0, no transfer fails.
CONSTANTS
  Chips = {"bq769x0"}
  CellType = "NMC"
  Capacity = 22500
  NewCapacity = 12000
  BoardMaxCurrent = 75000
  BoardRegs = {1}
  Adc <- MCAdc
  AnyTrip = {200}
  Asked <- MCAsked
  MayFail = {"SYS_CTRL2", "OV_DELAY", "PROTECT1",
             "FET_EN", "UTC_RECOVERY",
             "SETUP0", "UVR", "SCDT_SCD", "DUTR"}
  PresetTypes = {"LTO"}
  MaxEvents = 3
  MaxBootEvents = 1
  MaxFaults = 0

SPECIFICATION Spec
INVARIANT LimitsInVolt
CHECK_DEADLOCK FALSE
