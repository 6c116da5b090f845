CONSTANTS
  Order = {1}
  Retailer = {1}
  Buyer <- OneBuyer
  SaleId = {1, 2}
  Result = {1, 2}
  Payload = {"own", "canonical"}
  Null = null
  Limits = {1}
  MaxAttempts = 2
  MaxFaults = 1
  MaxLate = 0
  MaxCrashes = 0
  MaxReopened = 0
  MaxUpsets <- OneUpset
SPECIFICATION Spec
INVARIANTS NeverTwoSaleOrders
CHECK_DEADLOCK FALSE
