-------------------------- MODULE MCSocketRegistry --------------------------
EXTENDS SocketRegistry, TLC

CONSTANTS w1, w2, w3, u1, u2, k1, k2, k3

Symmetry == Permutations(Sockets) \cup Permutations(Users) \cup Permutations(Checks)
=============================================================================
