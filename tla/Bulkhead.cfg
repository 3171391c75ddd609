SPECIFICATION FairSpec
CONSTANTS
  a = a
  b = b
  c = c
  d = d
  a2 = a2
  b2 = b2
  Null = Null
  Calls = {a, b, c, d, a2, b2}
  Inner <- Nested
  MaxConcurrent = 2
  MaxQueue = 3
  QueueTimeout = TRUE
  MaxRejected = 4
INVARIANTS PermitsHeld NoIdlePermit
PROPERTIES NoOvertaking EveryCallSettles
CHECK_DEADLOCK FALSE
