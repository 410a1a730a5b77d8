------------------------------ MODULE MCLakePools ------------------------------
EXTENDS LakePools, TLC

CONSTANTS c1, c2, c3, a, b, c

ClientSymmetry == Permutations(Clients)
================================================================================
