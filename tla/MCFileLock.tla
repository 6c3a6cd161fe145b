----------------------------- MODULE MCFileLock -----------------------------
(***************************************************************************)
(* Two Emacs processes on one host.  The lock may have been left behind by *)
(* e3, another build of Emacs on the same host, or by e4 on another host.  *)
(***************************************************************************)
EXTENDS FileLock, TLC

CONSTANTS e1, e2, e3, e4

MCProc     == {e1, e2, e3, e4}
MCRunning  == {e1, e2}
MCBooted   == {e3}
MCHostOf   == [p \in MCProc |-> IF p = e4 THEN "there" ELSE "here"]
MCLeftover == {Nil, Invalid, e3, e4}
=============================================================================
