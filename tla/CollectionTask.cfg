SPECIFICATION FairSpec
CONSTANTS
  t1 = t1
  t2 = t2
  w1 = w1
  w2 = w2
  h1 = h1
  h2 = h2
  Tasks = {t1, t2}
  Workers = {w1, w2}
  HostOf <- MCTwoHosts
  Concurrency = 1
  MaxRetries = 1
  MaxFaults = 1
  MaxBreaches = 1
INVARIANTS
  BrowsersBounded
  NothingForgotten
  DeadAfterAllRetries
  RunsEnd
PROPERTIES
  TasksEnd
  SlotsFreed
CHECK_DEADLOCK FALSE
