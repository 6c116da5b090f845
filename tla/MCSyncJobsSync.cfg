CONSTANTS
  Key = {k1}
  Proc = {p1, p2, p3}
  Payload = {h1, h2}
  Result = {r1}
  Null = null
  MaxAttempts = 2
  MaxRetries = 2
  MaxCrashes = 1
SPECIFICATION Spec
INVARIANTS TypeOK PayloadBinding CompletedIsApplied FirstCallAlone RetryBudget
PROPERTIES ImplementsLifecycle ImplementsMemory
SYMMETRY Symmetric
CHECK_DEADLOCK FALSE
