CONSTANTS
  Order = {1}
  Limit = 1
  MaxNewer = 0
  Payload = {h}
  Result = {r}
  Null = null
  MaxAttempts = 2
  MaxFaults = 1
  MaxCrashes = 0
  MaxReopened = 0
SPECIFICATION FairSpec
PROPERTIES ShipmentReported
CHECK_DEADLOCK FALSE
