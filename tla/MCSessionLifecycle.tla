------------------------- MODULE MCSessionLifecycle -------------------------
(* One session with a few Client objects and procedures, for TLC. *)
EXTENDS SessionLifecycle, TLC

CONSTANTS c1, c2, c3, p1, p2, p3

MCInstances2 == {c1, c2}
MCInstances3 == {c1, c2, c3}
MCProcs2 == {p1, p2}
MCProcs3 == {p1, p2, p3}

Symmetry == Permutations({c1, c2, c3}) \cup Permutations({p1, p2, p3})
=============================================================================
