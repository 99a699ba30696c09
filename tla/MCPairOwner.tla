---------------------------- MODULE MCPairOwner ----------------------------
(* Two handles, two databases and one log: a path may be given twice.          *)
EXTENDS PairOwner, TLC

CONSTANTS h1, h2, d1, d2, w1, i1, i2, i3

MCHandle == {h1, h2}

MCIdentity == {i1, i2, i3}

Symmetry == Permutations(MCHandle) \cup Permutations(MCIdentity)
=============================================================================
