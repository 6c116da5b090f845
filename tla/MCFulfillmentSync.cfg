CONSTANTS
  Order = {1}
  Limit = 1
  MaxNewer = 1
  Payload = {h}
  Result = {r}
  Null = null
  MaxAttempts = 2
  MaxFaults = 2
  MaxCrashes = 1
  MaxReopened = 1
SPECIFICATION FairSpec
INVARIANTS TypeOK CompletedIsReported SmoothReportsAccepted
PROPERTIES ImplementsMirror OutcomeReportedOrFlagged
CHECK_DEADLOCK FALSE
