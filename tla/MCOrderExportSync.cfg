CONSTANTS
  Order = {1, 2}
  Retailer = {1}
  Buyer <- OneBuyer
  SaleId = {1, 2, 3}
  Result = {1, 2, 3}
  Payload = {"own", "canonical"}
  Null = null
  Limits = {1, 2}
  MaxAttempts = 2
  MaxFaults = 1
  MaxLate = 1
  MaxCrashes = 1
  MaxReopened = 1
  MaxUpsets <- FewerOnPagesOfTwo
SPECIFICATION FairSpec
INVARIANTS TypeOK AckedIsExported AtMostOneSaleOrder SamePartner
PROPERTIES ExportedUnlessBlocked
CHECK_DEADLOCK FALSE
