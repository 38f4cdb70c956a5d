----------------------------- MODULE MCWeights -----------------------------
\* Bounds for Weights: four tasks, and weights that overflow an int of 3 bits.
EXTENDS Weights

SmallValues == {-1, 2, 3}
============================================================================
