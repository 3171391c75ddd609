SPECIFICATION FairSpec
CONSTANTS
  a = a
  b = b
  Calls = {a, b}
  FailureThreshold = 2
  SuccessThreshold = 2
  Timeout = 1
  ResetTimeout = 2
  Size = 3
  Kinds = {"count", "time"}
  MaxEntries = 3
INVARIANTS ThresholdOpens OpensForResetTimeout
PROPERTIES OpenHolds ClosesAfterSuccesses Recovers
