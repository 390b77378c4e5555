CONSTANTS
  app = app
  t1 = t1
  t2 = t2
  t3 = t3
  b1 = b1
  b2 = b2
  b3 = b3
  Null = Null
  App = app
  Proc <- MCProc
  Fifo = FALSE
  MaxLevel = 0
  DefaultLevel = 0
  Preemptive = TRUE
  AppMayDisable = FALSE
  Block <- MCBlock
  Walkers <- MCWalkers
SPECIFICATION TaskFairSpec
INVARIANTS
  TaskTypeOK
  StacksOwned
  NothingElseLeaks
PROPERTIES
  ShareExact
  EveryWalkEnds
