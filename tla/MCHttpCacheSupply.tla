-------------------------- MODULE MCHttpCacheSupply --------------------------
EXTENDS HttpCacheSupply, TLC

Symmetry == Permutations(Id) \cup Permutations(Trans)
=============================================================================
