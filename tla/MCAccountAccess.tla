--------------------------- MODULE MCAccountAccess ---------------------------
(* One user with interchangeable calls, for TLC. *)
EXTENDS AccountAccess, TLC

CONSTANTS a1, p1, p2

Symmetry == Permutations(Procs)
=============================================================================
