---------------------------- MODULE MCKbdBuffer -----------------------------
(***************************************************************************)
(* A ring of eight slots: on hold from five events, lifted below two.     *)
(***************************************************************************)
EXTENDS KbdBuffer

OneQuit == {1}
=============================================================================
