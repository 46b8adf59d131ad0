\* configure() in one thread, one call of the other, one failed transfer.
CONSTANTS
  Main = main
  ThingSet = thingset
  Threads = {main, thingset}
  FET_CONTROL = 151
  CB_ACTIVE_CELLS = 131
  CUV_THRESHOLD = 37493
  PROT_ENABLED_A = 37473
  Registers = {151, 131, 37493, 37473}
  ALL_FETS_ON = 150
  SET_CFGUPDATE = 144
  EXIT_CFGUPDATE = 146
  Commands = {150, 144, 146}
  Contents <- MCContents
  SwitchBits = {15}
  Limits = {60}
  READ_MAX_ATTEMPTS = 2
  MAX_POLLS = 2
  MaxConfigures = 1
  MaxUses = 1
  MaxIoErrors = 1
SPECIFICATION FairSpec
INVARIANTS
  TypeOK
  UpdateModeLeft
PROPERTIES
  NoMisdirectedWrite
  ProtectionsKept
  SuccessIsTrue
  CallsEnd
\* The calls are bounded.
CHECK_DEADLOCK FALSE
