CONSTANTS
  Key = {"own", "other"}
  Proc = {worker, retrier}
  Retrier = retrier
  Setups <- EitherSetup
  Payload = {h1}
  Result = {r1}
  Null = null
  MaxAttempts = 2
  MaxRetries = 1
  MaxUpsets = 1
  MaxCrashes = 1
SPECIFICATION FairSweep
PROPERTIES SettledIfSwept
CHECK_DEADLOCK FALSE
