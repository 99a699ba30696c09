------------------------------ MODULE MCInspect ------------------------------
(* Small instances of Inspect for TLC: the cfg files choose the bounds. *)
EXTENDS Inspect
==============================================================================
