CONSTANTS
  app = app
  t1 = t1
  t2 = t2
  i1 = i1
  Null = Null
  App = app
  Proc <- MCProc
  Interrupt <- MCInterrupt
  Fifo = FALSE
  MaxLevel = 0
  DefaultLevel = 0
  Preemptive = TRUE
  AppMayDisable = FALSE
  HandlerCalls = 2
SPECIFICATION InterruptSpec
INVARIANT
  RingIntact
