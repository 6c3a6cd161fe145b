SPECIFICATION Spec
CONSTANTS
  Thread = {t1, t2}
  Key = {k1, k2, k3}
  Value = {v1, v2}
  t1 = t1  t2 = t2  k1 = k1  k2 = k2  k3 = k3  v1 = v1  v2 = v2
  Nil = Nil
  Unused = Unused
  Uninitialized = Uninitialized
  Class <- MCClass
  Hashes <- MCHashes
  knuth_hash <- MCknuth
  min_size = 1
  Tests = {"user"}
  Sizes = {0, 1}
  Weaknesses = {FALSE}
  MaxCalls = 2
SYMMETRY MCSymmetry
INVARIANT WalksOnChain
