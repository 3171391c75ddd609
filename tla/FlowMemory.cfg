\* In-memory storage: one process, callers queue for the lock, nothing fails;
\* handlers and storage answer, clients run the loop of the README.
SPECIFICATION FairSpec
CONSTANTS
  r1 = r1
  r2 = r2
  c1 = c1
  c2 = c2
  c3 = c3
  h1 = h1
  h2 = h2
  k1 = k1
  k2 = k2
  Null = Null
  Runs = {r1}
  Calls = {c1, c2, c3}
  Hosts = {h1, h2}
  Keys = {k1}
  Fields = {"x"}
  Nodes <- TornNodes
  Defined <- OrderNodes
  Entry = "charge"
  Edges <- TornEdges
  HostOf <- TwoEngines
  MaxAttempts <- OrderAttempts
  Handler <- TornHandler
  Patch <- OrderPatch
  KeyOf <- OrderKeys
  KeyThrows = {}
  Registered = {h1}
  Initial = {{}}
  Refusing = FALSE
  Recovering = FALSE
  MaxEvents = 18
  MaxWaitEvents = 7
  MaxCrashes = 0
  MaxFaults = 0
INVARIANTS SnapshotFresh EndIsLogged Bracketed
PROPERTIES CallsSettle RunsSettle
CHECK_DEADLOCK FALSE
