----------------------------- MODULE MCRowStore -----------------------------
(* RowStore for TLC: a table of four rows of which this rank owns the middle *)
(* or all; shards packed for the right range, for another and truncated.     *)
EXTENDS RowStore

MCRanges  == {<<1, 3>>, <<0, 4>>}
MCHeaders == {[lo |-> 1, hi |-> 3, rows |-> 4, size |-> 2],
              [lo |-> 0, hi |-> 4, rows |-> 4, size |-> 4],
              [lo |-> 1, hi |-> 3, rows |-> 4, size |-> 1]}
MCIds     == {-1, 0, 1, 2}
=============================================================================
