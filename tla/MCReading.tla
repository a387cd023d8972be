------------------------------- MODULE MCReading -------------------------------
EXTENDS Reading, TLC

CONSTANTS u1, u2, i1, i2, i3, d1, d2, t1, t2, t3

Symmetry == Permutations(Users) \cup Permutations(Ids) \cup Permutations(Dates)
              \cup Permutations(Transactions)
================================================================================
