-------------------- MODULE MCHttpCacheFileWriteHandler --------------------
EXTENDS HttpCacheFileWriteHandler, TLC

Symmetry == Permutations(Entry)
=============================================================================
