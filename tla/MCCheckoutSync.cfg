CONSTANTS
  Brand = {b1}
  Sku = {k1}
  Price = {p1}
  Moq = {1, 2}
  Session = {s1, s2}
  Null = null
  Retailer = {r1}
  Reviewer = {v1}
  WooOrder = {w1}
  Customer <- OneCustomer
  Item <- OneItem
  Quantity <- OnePiece
  MaxTries = 2
  MaxFaults = 1
SPECIFICATION FairSpec
CONSTRAINT EditsApart
INVARIANTS TypeOK ProductsHaveBrand OrdersOnOfferedTerms SoldAfterAnnounced ProcessingIsPlaced OrdersPerCheckout
PROPERTIES PlacedIsShown
CHECK_DEADLOCK FALSE
