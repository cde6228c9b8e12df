--------------------------- MODULE MCContactGroups ---------------------------
EXTENDS ContactGroups, TLC

CONSTANTS n1, n2, x1, x2, g1, k1, k2

MCLists  == {<<n2, n1>>}
Symmetry == Permutations(Contacts) \cup Permutations(Groups) \cup Permutations(Calls)
=============================================================================
