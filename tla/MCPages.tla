-------------------------------- MODULE MCPages --------------------------------
EXTENDS Pages, TLC

CONSTANTS r1, d1, m1, x, y, a

Symmetry == Permutations(Axes)
================================================================================
