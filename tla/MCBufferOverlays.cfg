SPECIFICATION Spec
CONSTANTS
  Node = {front, rear, both, p1, p2, p3, p4, p5, p6}
  front = front  rear = rear  both = both  p1 = p1  p2 = p2  p3 = p3  p4 = p4  p5 = p5  p6 = p6
  Nil = Nil
  FrontAdvance = {front, both}
  RearAdvance = {rear, both}
  Evaporate = {front}
  Setups <- MCSetups
VIEW MCView
INVARIANTS check_tree IterationFindsRange AnswersAsDocumentedUnlessEqualEnds
PROPERTY ImplementsOverlays
