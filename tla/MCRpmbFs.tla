------------------------------ MODULE MCRpmbFs ------------------------------
EXTENDS RpmbFs, TLC

Symmetry == Permutations(Names) \cup Permutations(Values \ {Zero})
=============================================================================
