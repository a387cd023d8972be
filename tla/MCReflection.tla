----------------------------- MODULE MCReflection -----------------------------
EXTENDS Reflection, TLC

CONSTANTS r1, r2, d1, d2, x, a, m1, m2

Symmetry == Permutations(Requests) \cup Permutations(Drafters) \cup Permutations(Markdowns)
===============================================================================
