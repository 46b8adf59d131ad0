\* Alert handling with three errors, one of each kind of retry.
CONSTANTS
  Latching = {"DEVICE_XREADY", "UV", "OCD"}
  MaxIoErrors = 1
SPECIFICATION FairSpec
INVARIANT TypeOK
PROPERTIES
  RetryPaced
  
  
