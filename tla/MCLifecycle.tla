---------------------------- MODULE MCLifecycle ----------------------------
(* Three handles on one path and a header of two transfers.                 *)
EXTENDS Lifecycle

CONSTANTS h1, h2, h3
============================================================================
