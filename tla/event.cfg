CONSTANTS
  app = app
  t1 = t1
  t2 = t2
  e1 = e1
  e2 = e2
  Null = Null
  App = app
  Proc <- TwoTasks
  Fifo = FALSE
  MaxLevel = 1
  DefaultLevel = 0
  Preemptive = TRUE
  AppMayDisable = FALSE
  Event <- TwoEvents
  Kind <- Mixed
  MaxCount = 1
  Wakes = FALSE
SPECIFICATION EventFairSpec
INVARIANTS
  EventRing
  SleepersPolled
  ElementsLive
  ObjectsConserved
  EventLinks
PROPERTIES
  ImplementsBoard
  PassEnds
  EverySleeperWakes
