---------------------------- MODULE MCMapReduce ----------------------------
(* Small instances of MapReduceJob. *)
EXTENDS MapReduceJob

\* A map call emits nothing, a pair, or two pairs that are not sorted.
MCEmits == {<<>>, <<3>>, <<2, 1>>}

=============================================================================
