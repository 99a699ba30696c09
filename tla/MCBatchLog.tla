----------------------------- MODULE MCBatchLog ------------------------------
(* The abstract log on its own, with at most MaxSeq batches. *)
EXTENDS BatchLog

CONSTANTS MaxSeq, Times

MCBatches == [seq : 1..MaxSeq, time : Times]
==============================================================================
