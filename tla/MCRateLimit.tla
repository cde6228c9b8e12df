----------------------------- MODULE MCRateLimit -----------------------------
EXTENDS RateLimit, TLC

CONSTANTS k1, k2

Symmetry == Permutations(Keys)
=============================================================================
