CONSTANTS
  Order = {o1}
  Session = {s1, s2}
  SaleId = {sale1}
  DeliveryId = {}
  WooId = {}
  Null = null
  MaxEvents = 7
SPECIFICATION Spec
PROPERTIES ShippedIsFinal
CHECK_DEADLOCK FALSE
