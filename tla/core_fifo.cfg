CONSTANTS
  app = app
  t1 = t1
  t2 = t2
  t3 = t3
  Null = Null
  App = app
  Proc <- MCProc
  Fifo = TRUE
  MaxLevel = 0
  DefaultLevel = 0
  Preemptive = TRUE
  AppMayDisable = FALSE
SPECIFICATION Spec
PROPERTY
  EnabledLast
