----------------------------- MODULE MCProcesses -----------------------------
(* Two children: one that writes, and is stopped from outside, and one that    *)
(* only exits.                                                                *)
EXTENDS Processes, TLC

CONSTANTS talker, sleeper

Output == talker :> 1 @@ sleeper :> 0
Stops == talker :> 1 @@ sleeper :> 0
=============================================================================
