-------------------------- MODULE MCBinAllocator --------------------------
(***************************************************************************)
(* Bounds for BinAllocator: the constants of the code, scaled down         *)
(* together.  Only malloc_4.cpp rounds sizes up, so only it is asked for   *)
(* odd ones.  The product asked of scalloc is 4 in a word of 64.           *)
(***************************************************************************)
EXTENDS BinAllocator, TLC

SmallSizes == [malloc_3 |-> {0, 2, 6, 12, 25}, malloc_4 |-> {0, 1, 2, 5, 12, 25}]
SmallReallocs == [malloc_3 |-> {2, 6, 10, 14}, malloc_4 |-> {2, 5, 9, 13}]
SmallCallocs == {<<34, 2>>}
============================================================================
