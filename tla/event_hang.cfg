CONSTANTS
  app = app
  t1 = t1
  t2 = t2
  e1 = e1
  e2 = e2
  Null = Null
  App = app
  Proc <- TwoTasks
  Fifo = FALSE
  MaxLevel = 0
  DefaultLevel = 0
  Preemptive = TRUE
  AppMayDisable = FALSE
  Event <- OneEvent
  Kind <- Semaphores
  MaxCount = 2
  Wakes = FALSE
SPECIFICATION EventFairSpec
PROPERTY
  PassEnds
