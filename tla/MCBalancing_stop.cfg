\* Automatic balancing without I2C errors.
CONSTANTS
  NumSections = 2
  SectionSize = 5
  Profiles <- MCProfiles
  Requests = {}
  Diff = 1
  MinVoltage = 2
  MaxIoErrors = 0
SPECIFICATION FairSpec
PROPERTY BalancingStops
