CONSTANTS
  app = app
  t1 = t1
  t2 = t2
  i1 = i1
  Null = Null
  App = app
  Proc <- MCProc
  Interrupt <- MCInterrupt
  Fifo = FALSE
  MaxLevel = 1
  DefaultLevel = 1
  Preemptive = TRUE
  AppMayDisable = FALSE
  HandlerCalls = 1
SPECIFICATION InterruptFairSpec
INVARIANTS
  InterruptTypeOK
  RingIntact
  StartsAnew
  BackOnRing
PROPERTIES
  EveryTriggerRuns
