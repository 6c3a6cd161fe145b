------------------------------ MODULE MCSpecpdl ------------------------------
(* Two threads, two buffers and two values for every kind of variable *)
EXTENDS Specpdl, TLC

CONSTANTS t1, t2, b1, b2, v1, v2

MCSymmetry == Permutations({t1, t2}) \union Permutations({b1, b2}) \union Permutations({v1, v2})
=============================================================================
