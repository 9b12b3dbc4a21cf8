----------------------------- MODULE MCSessions -----------------------------
EXTENDS Sessions, TLC
Symm == Permutations(Request)
BothProviders == {<<"renku", "gitlab">>}
RenkuOnly == {<<"renku">>}
=============================================================================
