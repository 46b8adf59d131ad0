\* Overvoltage, no I2C error.
CONSTANTS
  Latching = {"OV"}
  MaxIoErrors = 0
SPECIFICATION FairSpec
PROPERTY OvervoltageIsReset
