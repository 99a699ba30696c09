--------------------------- MODULE MCFileTransfer ---------------------------
(* Files of at most three bytes, requests of at most four, chunks of two.  *)
EXTENDS FileTransfer

CONSTANTS zero, a
=============================================================================
