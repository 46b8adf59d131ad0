\* Refinement and liveness of the polling loop, all three drivers.
CONSTANTS
  Chips = {"bq769x0", "bq769x2", "isl94202"}
  Faults <- MCFaultsOff
  Currents <- MCCurrents
  MaxIoErrors = 1
  MaxResets = 0
SPECIFICATION FairSpec
PROPERTIES
  ImplementsPowerPath
  HealthyReachesNormal
  StuckSwitchIsRetried
