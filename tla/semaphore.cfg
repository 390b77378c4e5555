CONSTANTS
  app = app
  t1 = t1
  t2 = t2
  t3 = t3
  Null = Null
  App = app
  Proc <- MCProc
  Fifo = FALSE
  MaxLevel = 1
  DefaultLevel = 0
  Preemptive = TRUE
  AppMayDisable = FALSE
  MaxCount = 2
  MaxSignals = 1
SPECIFICATION SemaphoreFairSpec
INVARIANTS
  SemaphoreTypeOK
  TokensConserved
  NobodyLeftBehind
  QueueLinks
PROPERTIES
  ImplementsPool
  EveryActiveTaskRuns
  EveryWaiterServed
