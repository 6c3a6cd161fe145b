SPECIFICATION Spec
CONSTANTS
  Main = Main
  t1 = t1
  b1 = b1
  b2 = b2
  Home = Home
  Nil = Nil
  Thread <- OneThread
  Buffer <- MCBuffer
  LateLisp <- LateB1
  LateYield = FALSE
INVARIANTS
  TypeOK
  CurrentBufferIsLive
PROPERTY AttachedBufferStays
