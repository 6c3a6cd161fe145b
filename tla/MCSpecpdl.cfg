SPECIFICATION Spec
CONSTANTS
  Thread = {t1, t2}
  Buffer = {b1, b2}
  Value = {v1, v2}
  t1 = t1  t2 = t2  b1 = b1  b2 = b2  v1 = v1  v2 = v2
  Default = Default
  Orphan = Orphan
  Nil = Nil
  Kinds = {"plain", "forwarded", "per_buffer"}
  MaxDepth = 2
SYMMETRY MCSymmetry
INVARIANTS TypeOK
PROPERTY ImplementsDynamicBinding
