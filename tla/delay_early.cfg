CONSTANTS
  app = app
  t1 = t1
  t2 = t2
  Null = Null
  App = app
  Proc <- MCProc
  Fifo = FALSE
  MaxLevel = 0
  DefaultLevel = 0
  Preemptive = TRUE
  AppMayDisable = FALSE
  TickRange = 6
  Delays = {1, 2}
  Margin = 3
SPECIFICATION DelaySpec
PROPERTY
  DelaysLongEnough
