SPECIFICATION FairSpec
CONSTANTS
  main = main
  t1 = t1
  t2 = t2
  m1 = m1
  c1 = c1
  Nil = Nil
  Thread <- MCThreadPair
  Mutex <- MCMutex
  CondVar <- MCCondVar
  mutexOf <- MCmutexOf
  MaxCount = 1
PROPERTIES
  SignalEndsWait
  JoinEnds
