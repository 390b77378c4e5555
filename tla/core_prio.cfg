CONSTANTS
  app = app
  t1 = t1
  t2 = t2
  Null = Null
  App = app
  Proc <- MCProc
  Fifo = FALSE
  MaxLevel = 1
  DefaultLevel = 1
  Preemptive = TRUE
  AppMayDisable = FALSE
SPECIFICATION FairSpec
INVARIANTS
  TypeOK
  RingIntact
  OnlyEnabledRuns
  NoEndlessSearch
PROPERTIES
  AppRunsLast
  SchedulerReturns
  RoundRobin
