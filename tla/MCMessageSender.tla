--------------------------- MODULE MCMessageSender ---------------------------
EXTENDS MessageSender, TLC

CONSTANTS u1, c1, i1, i2, k1, k2

MCOwner == [c \in Clients |-> u1]
Symmetry == Permutations(Instances) \cup Permutations(Calls)
=============================================================================
