---------------------------- MODULE MCKillBuffer ----------------------------
(***************************************************************************)
(* Two threads, a main one and another, and at most two buffers besides    *)
(* the one that stays; b1 has a process.                                   *)
(***************************************************************************)
EXTENDS KillBuffer

CONSTANTS t1, b1, b2

MCBuffer == {Home, b1, b2}
OneBuffer == {Home, b1}
OneThread == {Main, t1}
LateB1 == {b1}
=============================================================================
