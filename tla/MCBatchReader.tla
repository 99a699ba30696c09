---------------------------- MODULE MCBatchReader ----------------------------
(* Small instances of BatchReader. *)
EXTENDS BatchReader

R(t, s, v) == [time |-> t, series |-> s, value |-> v]

\* Batches of one and two records, of two series, with negative values.
OrderedInputs   == {<<R(1, 0, 2)>>, <<R(1, 1, -1), R(2, 0, 1)>>, <<R(3, 1, 0)>>}
UnorderedInputs == {<<R(3, 0, 1), R(1, 1, 2)>>, <<R(1, 0, -1)>>, <<R(3, 1, 1)>>}
RangesTested == [from : {0, 2}, until : {2, 4}, filter : {FALSE}, series : {0}]
                \cup [from : {1}, until : {2, 3}, filter : {TRUE}, series : {1}]
SingleInputs == {<<R(1, 0, 0)>>, <<R(2, 0, 0)>>}
FullRange == {[from |-> 0, until |-> 2, filter |-> FALSE, series |-> 0]}
==============================================================================
