---------------------------- MODULE MCTokenStore ----------------------------
EXTENDS TokenStore, TLC
Symm == Permutations(Request)
=============================================================================
