-------------------------- MODULE MCLoopSelector --------------------------
EXTENDS LoopSelector, TLC

Symmetry == Permutations(Socks)
=============================================================================
