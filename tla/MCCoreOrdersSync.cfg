CONSTANTS
  Order = {o1}
  Session = {s1, s2}
  SaleId = {sale1, sale2}
  DeliveryId = {}
  WooId = {woo1, woo2}
  Null = null
  MaxEvents = 7
SPECIFICATION Spec
SYMMETRY Symmetric
INVARIANTS TypeOK TrailEndsAtStatus LegalEvents TrailIsPath
PROPERTIES MappingsKept ImplementsLifecycle
CHECK_DEADLOCK FALSE
