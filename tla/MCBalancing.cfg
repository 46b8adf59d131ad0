\* Automatic and manual balancing with one failed transfer.
CONSTANTS
  NumSections = 2
  SectionSize = 5
  Profiles <- MCProfiles
  Requests <- MCRequests
  Diff = 1
  MinVoltage = 2
  MaxIoErrors = 1
SPECIFICATION FairSpec
INVARIANTS
  TypeOK
  NoAdjacentCells
  LeftOutForHigher
  ManualTakesOver
PROPERTY ImbalanceIsTreated
