------------------------------ MODULE MCSelection ------------------------------
EXTENDS Selection, TLC

CONSTANTS b1, b2, s1, t1, t2, v1

MCDescriptors == <<b1, b2>>
MCSeedClaims  == <<<<b1, 1>>, <<b1, 2>>>>
MCOtherClaims == {<<b2, 1>>}

Symmetry == Permutations(Tasks)
================================================================================
