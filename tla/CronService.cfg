\* Three jobs under two names and one key, one retry, one close, one extension.
SPECIFICATION FairSpec
CONSTANTS
  a1 = a1
  a2 = a2
  b1 = b1
  Nobody = Nobody
  Calls = {a1, a2, b1}
  Keys = {"nightly"}
  KeyOf <- OneKey
  Attempts = 1
  MaxCloses = 1
  MaxExtends = 1
  Names = {"a", "b"}
  NameOf <- TwoNames
  StartsEnabled = {a1, a2}
  RunOnInit = {a2}
  MaxRuns <- SomeMaxRuns
  RunBound = 2
INVARIANTS LeaseExcludes ScheduledIsCurrent OneExecutionEach
PROPERTIES LeasesEnd
CHECK_DEADLOCK FALSE
