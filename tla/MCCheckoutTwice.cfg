CONSTANTS
  Brand = {b1}
  Sku = {k1}
  Price = {p1}
  Moq = {1, 2}
  Session = {s1}
  Null = null
  Retailer = {r1}
  Reviewer = {v1}
  WooOrder = {w1}
  Customer <- OneCustomer
  Item <- OneItem
  Quantity <- OnePiece
  MaxTries = 2
  MaxFaults = 0
SPECIFICATION Spec
INVARIANTS OneOrderPerCheckout
CHECK_DEADLOCK FALSE
