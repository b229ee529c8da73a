------------------------------ MODULE MCDesktop ------------------------------
EXTENDS Desktop, TLC

CONSTANTS a, b

Interchangeable == Permutations(Searches)
=============================================================================
