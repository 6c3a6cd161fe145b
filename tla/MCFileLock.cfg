SPECIFICATION FairSpec
CONSTANTS
  e1 = e1
  e2 = e2
  e3 = e3
  e4 = e4
  Nil = Nil
  Proc <- MCProc
  hostOf <- MCHostOf
  Running <- MCRunning
  Booted <- MCBooted
  Leftover <- MCLeftover
  MayForce = TRUE
  MayEnd = TRUE
  MayFail = TRUE
INVARIANTS
  TypeOK
  LockKeptUnlessRaced
PROPERTY StaleLockRemoved
CHECK_DEADLOCK FALSE
