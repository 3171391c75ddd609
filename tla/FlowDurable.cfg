\* Prisma storage: two processes, a busy lock refuses, recovery, one crash, one storage failure.
SPECIFICATION Spec
CONSTANTS
  r1 = r1
  r2 = r2
  c1 = c1
  c2 = c2
  c3 = c3
  h1 = h1
  h2 = h2
  k1 = k1
  k2 = k2
  Null = Null
  Runs = {r1}
  Calls = {c1, c2}
  Hosts = {h1, h2}
  Keys = {k1}
  Fields = {"x"}
  Nodes <- OrderNodes
  Defined <- OrderNodes
  Entry = "charge"
  Edges <- OrderEdges
  HostOf <- TwoHosts
  MaxAttempts <- OrderAttempts
  Handler <- OrderHandler
  Patch <- OrderPatch
  KeyOf <- OrderKeys
  KeyThrows = {"charge"}
  Registered = {h1, h2}
  Initial = {{}}
  Refusing = TRUE
  Recovering = TRUE
  MaxEvents = 6
  MaxWaitEvents = 7
  MaxCrashes = 1
  MaxFaults = 1
SYMMETRY SameProcesses
INVARIANTS EndIsWritten RepeatsArePaid
PROPERTIES EndIsFinal OutputsKept RunsGoOn
CHECK_DEADLOCK FALSE
