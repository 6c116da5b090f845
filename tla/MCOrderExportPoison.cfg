CONSTANTS
  Order = {1, 2}
  Retailer = {1, 2}
  Buyer <- BuyerEach
  SaleId = {1, 2}
  Result = {1, 2}
  Payload = {"own", "canonical"}
  Null = null
  Limits = {2}
  MaxAttempts = 2
  MaxFaults = 0
  MaxLate = 0
  MaxCrashes = 0
  MaxReopened = 0
  MaxUpsets <- NoUpsets
SPECIFICATION FairSpec
PROPERTIES OthersExported
CHECK_DEADLOCK FALSE
