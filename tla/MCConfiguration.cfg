\* Configuration of the three drivers: three requests or restarts, one of
\* them while the main thread boots, one failing transfer.
CONSTANTS
  Chips = {"bq769x0", "bq769x2", "isl94202"}
  CellType = "NMC"
  Capacity = 22500
  NewCapacity = 12000
  BoardMaxCurrent = 75000
  BoardRegs = {1}
  Adc <- MCAdc
  AnyTrip = {200}
  Asked <- MCAsked
  MayFail = {"SYS_CTRL2", "OV_DELAY", "PROTECT1",
             "FET_EN", "UTC_RECOVERY",
             "SETUP0", "UVR", "SCDT_SCD", "DUTR"}
  PresetTypes = {"LTO"}
  MaxEvents = 3
  MaxBootEvents = 1
  MaxFaults = 1

SPECIFICATION Spec
INVARIANTS
  TypeOK
  AppliedIsShown
  StoredIsApplied
  UpdateModeEnds
  AllProtected
  LimitsAsAsked
CHECK_DEADLOCK FALSE
