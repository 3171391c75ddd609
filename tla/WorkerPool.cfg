\* Two threads, one of which may die by itself, and three tasks.
SPECIFICATION FairSpec
CONSTANTS
  t1 = t1
  t2 = t2
  t3 = t3
  Tasks = {t1, t2, t3}
  PoolSize = 2
  MaxExits = 1
INVARIANTS OneTimerEach
PROPERTIES ImplementsService
CHECK_DEADLOCK FALSE
