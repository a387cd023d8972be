------------------------------ MODULE MCInterview ------------------------------
EXTENDS Interview, TLC

CONSTANTS r1, r2, x, y, a, b

Symmetry == Permutations(Requests) \cup Permutations(Axes) \cup Permutations(Answers)
================================================================================
