--------------------------- MODULE MCRedirectStore ---------------------------
EXTENDS RedirectStore, TLC
Symm == Permutations(Request) \cup Permutations(Key)
=============================================================================
