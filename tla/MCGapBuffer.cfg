SPECIFICATION Spec
CONSTANTS
  Char = {nl, a, b, e}  Newline = nl
  nl = nl  a = a  b = b  e = e  m1 = m1  m2 = m2
  Nil = Nil  Qt = Qt
  CharLen <- MCCharLen
  Upcase <- MCUpcase
  Marker = {m1, m2}
  InsertionType <- MCAdvancing
  Setups <- MCSetups
  PreserveThreshold = 2
INVARIANTS PositionsAgree UndoRestores
  CacheSoundUnlessHooked UnchangedIsUnchangedUnlessAhead
PROPERTY ImplementsText
CHECK_DEADLOCK FALSE
