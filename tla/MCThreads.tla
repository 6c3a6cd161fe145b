------------------------------ MODULE MCThreads ------------------------------
(***************************************************************************)
(* Three threads, one mutex and one condition variable made with it.       *)
(***************************************************************************)
EXTENDS Threads, TLC

CONSTANTS t1, t2, m1, c1

MCThread  == {main, t1, t2}
MCThreadPair == {main, t1}
MCMutex   == {m1}
MCCondVar == {c1}
MCmutexOf == c1 :> m1

Symmetry == Permutations({t1, t2})
=============================================================================
