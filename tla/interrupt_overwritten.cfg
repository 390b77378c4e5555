CONSTANTS
  app = app
  t1 = t1
  i1 = i1
  i2 = i2
  Null = Null
  App = app
  Proc <- MCProc
  Interrupt <- MCInterrupt
  Fifo = FALSE
  MaxLevel = 0
  DefaultLevel = 0
  Preemptive = TRUE
  AppMayDisable = FALSE
  HandlerCalls = 1
SPECIFICATION EventSpec
INVARIANT
  ContextIntact
