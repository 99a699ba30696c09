----------------------------- MODULE MCBatchPair -----------------------------
(* Small instances of BatchPair for TLC: the cfg files choose the bounds. *)
EXTENDS BatchPair
==============================================================================
