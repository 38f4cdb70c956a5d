---------------------------- MODULE MCFirstFit ----------------------------
\* Bounds for FirstFitAllocator.
EXTENDS FirstFitAllocator

SmallSizes == {0, 1, 2, 4, 9}
\* The second product is WORD + 2.
SmallCallocs == {<<1, 3>>, <<33, 2>>}
============================================================================
