---------------------------- MODULE MCJobEngine ----------------------------
(* Instances of JobEngine for TLC: job ids and followers are interchangeable. *)
EXTENDS JobEngine, TLC

Symmetry == Permutations(Jobs) \cup Permutations(Followers)
============================================================================
