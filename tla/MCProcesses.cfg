SPECIFICATION Spec
CONSTANTS
  talker = talker
  sleeper = sleeper
  Proc = {talker, sleeper}
  Nil = Nil
  MaxOutput <- Output
  MaxStops <- Stops
  MaxCalls = 2
  MaxDepth = 3
INVARIANTS
  TypeOK
  NeverReapedTwice
  ChildrenRecordedUnlessBroken
  StatusTruthful
  SleepsInformed
  OutputReadBeforeExit
