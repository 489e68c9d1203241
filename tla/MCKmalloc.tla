----------------------------- MODULE MCKmalloc -----------------------------
(* Small heaps: addresses modulo 128, blocks of a few words. *)
EXTENDS Kmalloc

SmallSizes == {1, 12}
SmallAlignments == {4, 16, 24}   \* 24 is refused
SetStarts == {24, 40}
=============================================================================
