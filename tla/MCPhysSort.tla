---------------------------- MODULE MCPhysSort ----------------------------
(* A tile of two cells visited by a few particles. *)
EXTENDS PhysSort, TLC

Symmetry == Permutations(Particle)
===========================================================================
