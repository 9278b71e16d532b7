---------------------- MODULE MCHttpCacheEvictionHandler ----------------------
EXTENDS HttpCacheEvictionHandler, TLC

Symmetry == Permutations(Entry)
=============================================================================
