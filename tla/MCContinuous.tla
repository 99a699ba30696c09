---------------------------- MODULE MCContinuous ----------------------------
(* A log of one or two batches and a database of two or three segments.     *)
EXTENDS Continuous

R(t) == [time |-> t, series |-> 0, value |-> 0]

PolicyInputs == {<<R(1)>>, <<R(2), R(3)>>}

OldInputs == {<<R(3), R(1)>>, <<R(1)>>}

NoRanges == {}
=============================================================================
