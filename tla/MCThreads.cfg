SPECIFICATION Spec
CONSTANTS
  main = main
  t1 = t1
  t2 = t2
  m1 = m1
  c1 = c1
  Nil = Nil
  Thread <- MCThread
  Mutex <- MCMutex
  CondVar <- MCCondVar
  mutexOf <- MCmutexOf
  MaxCount = 2
SYMMETRY Symmetry
INVARIANTS
  TypeOK
  CurrentThreadRuns
  NoLostWakeup
  SignalFindsSleeper
PROPERTIES
  ConditionWaitRelocks
