----------------------------- MODULE MCKeyDirectory -----------------------------
EXTENDS KeyDirectory, TLC

Symmetry == Permutations(User)
=============================================================================
