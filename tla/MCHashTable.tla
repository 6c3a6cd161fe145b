----------------------------- MODULE MCHashTable -----------------------------
(* Two threads on one table; k1 and k2 are the same to its test, k3 is not.  *)
(* Its hash is that of the others, or one that shares their bucket while the *)
(* table is small, or neither.                                               *)
EXTENDS HashTable, TLC

CONSTANTS t1, t2, k1, k2, k3, v1, v2

MCClass == k1 :> "a" @@ k2 :> "a" @@ k3 :> "b"
MCHashes == {[a |-> 0, b |-> n] : n \in {0, 1, 4}}
MCknuth(hash, bits) == hash % 2^bits

MCSymmetry == Permutations({t1, t2}) \union Permutations({k1, k2}) \union Permutations({v1, v2})
=============================================================================
