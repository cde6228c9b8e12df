--------------------------- MODULE MCSubscriptions ---------------------------
EXTENDS Subscriptions, TLC

CONSTANTS u1, u2, r1, r2, r3, k1, k2, k3, t1, t2

Symmetry == Permutations(Users) \cup Permutations(Requests) \cup Permutations(Calls)
              \cup Permutations(Terms)
=============================================================================
