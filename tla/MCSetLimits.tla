---------------------------- MODULE MCSetLimits ----------------------------
EXTENDS SetLimits, TLC

\* The goroutines of a kind are alike.
Symmetry == Permutations(Reader) \cup Permutations(Writer)
==============================================================================
