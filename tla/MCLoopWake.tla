---------------------------- MODULE MCLoopWake ----------------------------
EXTENDS LoopWake, TLC

Symmetry == Permutations(Threads) \cup Permutations(Cells) \cup Permutations(Afters)
=============================================================================
