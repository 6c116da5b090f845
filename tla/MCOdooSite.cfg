CONSTANTS
  Caller = {c1, c2}
  Order = {o1, o2}
  Ref = {r1}
  Null = null
  RefOf <- OneBuyer
  Demo = {r1}
  Customer = r1
  InitialQty = 2
  MaxCalls = 2
  MaxFaults = 1
  MaxRuns = 3
SPECIFICATION Spec
SYMMETRY Symmetry
INVARIANTS TypeOK OneRecordPerKey
PROPERTIES RerunChangesNothing ImplementsSaleCalls
CHECK_DEADLOCK FALSE
