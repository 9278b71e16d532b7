----------------------- MODULE MCHttpCacheLookupTable -----------------------
EXTENDS HttpCacheLookupTable, TLC

Symmetry == Permutations(Id) \cup Permutations(Url)
=============================================================================
