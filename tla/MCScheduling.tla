---------------------------- MODULE MCScheduling ----------------------------
(* Scheduling for TLC: interchangeable schedules. *)
EXTENDS Scheduling, TLC

Symmetry == Permutations(Schedules)
=============================================================================
