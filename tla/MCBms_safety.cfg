\* Safety of the polling loop, all three drivers.
CONSTANTS
  Chips = {"bq769x0", "bq769x2", "isl94202"}
  Faults <- MCFaultsAll
  Currents <- MCCurrents
  MaxIoErrors = 2
  MaxResets = 1
SPECIFICATION Spec
INVARIANTS
  TypeOK
  SwitchesFollowState
  ForbiddenIsTakenBack
PROPERTIES
  
  ShutdownIsFinal
